------------------------------- MODULE I2CCalls --------------------------------
(***************************************************************************)
(* I2CTransfer with the calls of the driver: what i2c_read_txn,            *)
(* i2c_write_txn and i2c_general_call_reset were given, and what of it the *)
(* bus carries.  The arguments are ints; i2c_tx_char sends the low byte of *)
(* each, and a tx1 below 0 is not sent at all.                             *)
(***************************************************************************)
EXTENDS I2CTransfer

VARIABLE call      \* history: function and arguments of the last call

Calls ==
    [fn : {"i2c_read_txn"}, addr : Addrs, tx0 : Words, tx1 : Words \cup {-1}]
    \cup [fn : {"i2c_write_txn"}, addr : Addrs, tx0 : Words, tx1 : Words \cup {-1},
          d0 : Words, d1 : Words]
    \cup [fn : {"i2c_general_call_reset"}]

NoCall == [fn |-> "none"]

\* The operations that a call leads to.
Operations(c) ==
    CASE c.fn = "i2c_read_txn"  -> ReadTxn(c.addr, c.tx0, c.tx1)
      [] c.fn = "i2c_write_txn" -> WriteTxn(c.addr, c.tx0, c.tx1, c.d0, c.d1)
      [] OTHER                  -> GeneralCallReset

CallWith(c) ==
    /\ Caller
    /\ txn' = Operations(c)
    /\ call' = c

CallsInit == Init /\ call = NoCall

CallsNext ==
    \/ \E c \in Calls : CallWith(c)
    \/ (Tick \/ Cpu) /\ UNCHANGED call

CallsSpec == CallsInit /\ [][CallsNext]_<<vars, call>> /\ Fairness

-----------------------------------------------------------------------------
(* What the peripheral was told, as it reads the bus.                      *)

\* The bytes on the bus, each with its ACK bit, without START and STOP.
Bits == SelectSeq(wire, LAMBDA s : s \in {"0", "1"})
BytesHeard == Len(Bits) \div 9
BitHeard(j, i) == IF Bits[9 * j - 1 - i] = "1" THEN 2^i ELSE 0
Heard(j) ==
    BitHeard(j, 7) + BitHeard(j, 6) + BitHeard(j, 5) + BitHeard(j, 4)
    + BitHeard(j, 3) + BitHeard(j, 2) + BitHeard(j, 1) + BitHeard(j, 0)

\* What the caller wants it to be told, and how many bytes it wants back.
Register == <<call.tx0>> \o (IF call.tx1 < 0 THEN <<>> ELSE <<call.tx1>>)
Told ==
    CASE call.fn = "i2c_read_txn"  -> <<2 * call.addr>> \o Register \o <<2 * call.addr + 1>>
      [] call.fn = "i2c_write_txn" -> <<2 * call.addr>> \o Register \o <<call.d0, call.d1>>
      [] call.fn = "i2c_general_call_reset" -> <<0, 6>>
      [] OTHER -> <<>>
Wanted == IF call.fn = "i2c_read_txn" THEN 2 ELSE 0

Same(byte, int) == (int - byte) % 256 = 0

\* The peripheral hears the arguments of the call (i2c.c:64-80, :117-136, :199-206) in
\* their order, the low byte of each, the second byte of the register only if
\* it is not negative, and never anything else; a call that succeeds has sent
\* them all and clocked out the bytes it returns.
ArgumentsHeard ==
    /\ \A j \in 1..BytesHeard : j <= Len(Told) => Same(Heard(j), Told[j])
    /\ BytesHeard <= Len(Told) + Wanted
    /\ pc = "idle" /\ ret >= 0 => Len(Bits) = 9 * (Len(Told) + Wanted)
=============================================================================
