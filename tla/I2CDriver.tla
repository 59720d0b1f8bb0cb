------------------------------ MODULE I2CDriver ------------------------------
(***************************************************************************)
(* The polling I2C driver of the BIOS (custom-bios/i2c.c).  A transaction  *)
(* (i2c_read_txn, i2c_write_txn, i2c_general_call_reset) is a sequence of  *)
(* byte operations, each an i2c_tx_char or an i2c_rx_char; the driver      *)
(* carries them out one after the other and leaves at the first one whose  *)
(* status reports an error.                                                *)
(*                                                                         *)
(* Between two register accesses of the CPU there are at least AccessTime  *)
(* clocks, and before a read of the status register nop_delay lets at      *)
(* least NopDelay clocks pass; elapsed counts them.                        *)
(***************************************************************************)
EXTENDS RTLI2C, Integers, Sequences

CONSTANTS AccessTime,   \* least clocks between two register accesses
          NopDelay,     \* least clocks nop_delay() takes
          Addrs,        \* 7-bit device addresses
          Words         \* values of tx0, tx1, d0 and d1, which are ints
ASSUME DelayAssumption ==
    AccessTime \in Nat \ {0} /\ NopDelay \in Nat /\ NopDelay >= AccessTime
ASSUME AddrsAssumption == Addrs \subseteq 0..127 /\ Words \subseteq Int

VARIABLES pc,       \* where the driver is
          txn,      \* operations of the transaction in progress, or the last one
          k,        \* index in txn of the operation in progress
          status,   \* status register when TIP was last seen clear
          rx,       \* bytes received in this transaction
          ret,      \* what the last transaction returned
          elapsed

driver == <<pc, txn, k, status, rx, ret, elapsed>>

ENACK == -1
EARB == -2
EUNK == -16
NoReturn == -99   \* no transaction has returned yet, or one is in progress

PCs == {"core_reset", "prescale", "control", "idle", "txr", "command", "wait",
        "rxr", "check"}

Op == [rx : BOOLEAN, byte : 0..255, sta : BOOLEAN, sto : BOOLEAN, nack : BOOLEAN]

-----------------------------------------------------------------------------
(* The transactions.  An argument is an int: only its low 8 bits are sent. *)

TxChar(tx, sta, sto) ==
    [rx |-> FALSE, byte |-> tx % 256, sta |-> sta, sto |-> sto, nack |-> FALSE]

RxChar(nack, sto) ==
    [rx |-> TRUE, byte |-> 0, sta |-> FALSE, sto |-> sto, nack |-> nack]

\* Mutant: a second byte of 0 is left out as well.
SecondBytePositive(tx1) == IF tx1 > 0 THEN <<TxChar(tx1, FALSE, FALSE)>> ELSE <<>>

\* The second byte of a register address is sent only if it is not negative.
SecondByte(tx1) == IF tx1 >= 0 THEN <<TxChar(tx1, FALSE, FALSE)>> ELSE <<>>

ReadTxn(addr, tx0, tx1) ==
    <<TxChar(2 * addr, TRUE, FALSE), TxChar(tx0, FALSE, FALSE)>>
    \o SecondByte(tx1)
    \o <<TxChar(2 * addr + 1, TRUE, FALSE), RxChar(FALSE, FALSE), RxChar(TRUE, TRUE)>>

WriteTxn(addr, tx0, tx1, d0, d1) ==
    <<TxChar(2 * addr, TRUE, FALSE), TxChar(tx0, FALSE, FALSE)>>
    \o SecondByte(tx1)
    \o <<TxChar(d0, FALSE, FALSE), TxChar(d1, FALSE, TRUE)>>

GeneralCallReset == <<TxChar(0, TRUE, FALSE), TxChar(6, FALSE, TRUE)>>

Txns ==
    {ReadTxn(a, t0, t1) : a \in Addrs, t0 \in Words, t1 \in Words \cup {-1}}
    \cup {WriteTxn(a, t0, t1, d0, d1) :
            a \in Addrs, t0 \in Words, t1 \in Words \cup {-1}, d0 \in Words, d1 \in Words}
    \cup {GeneralCallReset}

-----------------------------------------------------------------------------
DriverTypeOK ==
    /\ pc \in PCs
    /\ txn \in Txns \cup {<<>>}
    /\ k \in Nat
    /\ status \in [RxACK : BOOLEAN, ArbLost : BOOLEAN]
    /\ rx \in Seq(0..255)
    /\ ret \in Int
    /\ elapsed \in 0..NopDelay

DriverInit ==
    /\ pc = "core_reset"
    /\ txn = <<>>
    /\ k = 1
    /\ status = [RxACK |-> FALSE, ArbLost |-> FALSE]
    /\ rx = <<>>
    /\ ret = NoReturn
    /\ elapsed = 0

\* A register access by the driver, which goes on at the label next.
Access(at, next) ==
    /\ pc = at
    /\ elapsed >= AccessTime
    /\ pc' = next
    /\ elapsed' = 0

\* i2c_init
InitCoreReset ==
    /\ Access("core_reset", "prescale")
    /\ WriteCoreReset
    /\ UNCHANGED <<txn, k, status, rx, ret>>

InitPrescale ==
    /\ Access("prescale", "control")
    /\ WritePrescale(DriverPrescale)
    /\ UNCHANGED <<txn, k, status, rx, ret>>

InitControl ==
    /\ Access("control", "idle")
    /\ WriteControl([EN |-> TRUE, IEN |-> FALSE])
    /\ UNCHANGED <<txn, k, status, rx, ret>>

\* The label at which an operation begins: only i2c_tx_char writes txr.
Begin(op) == IF op.rx THEN "command" ELSE "txr"

Call(t) ==
    /\ pc = "idle"
    /\ pc' = Begin(t[1])
    /\ txn' = t
    /\ k' = 1
    /\ rx' = <<>>
    /\ ret' = NoReturn
    /\ UNCHANGED <<status, elapsed>>
    /\ UNCHANGED csr

TxrStore ==
    /\ Access("txr", "command")
    /\ WriteTxr(txn[k].byte)
    /\ UNCHANGED <<txn, k, status, rx, ret>>

CommandOf(op) ==
    [STA |-> op.sta, STO |-> op.sto, RD |-> op.rx, WR |-> ~op.rx,
     ACK |-> op.nack, IACK |-> FALSE]

CommandStore ==
    /\ Access("command", "wait")
    /\ WriteCommand(CommandOf(txn[k]))
    /\ UNCHANGED <<txn, k, status, rx, ret>>

\* Mutant: the status register is read without a delay.
PollAtOnce == elapsed >= 0

\* i2c_wait_tip: the status register is read after each nop_delay().
PollReady == elapsed >= NopDelay

PollBusy ==
    /\ pc = "wait"
    /\ PollReady
    /\ tip
    /\ elapsed' = 0
    /\ UNCHANGED <<pc, txn, k, status, rx, ret>>
    /\ UNCHANGED csr

PollDone ==
    /\ pc = "wait"
    /\ PollReady
    /\ ~tip
    /\ status' = [RxACK |-> rxack, ArbLost |-> arb_lost]
    /\ pc' = IF txn[k].rx THEN "rxr" ELSE "check"
    /\ elapsed' = 0
    /\ UNCHANGED <<txn, k, rx, ret>>
    /\ UNCHANGED csr

ReadRxr ==
    /\ Access("rxr", "check")
    /\ rx' = Append(rx, rxr)
    /\ UNCHANGED <<txn, k, status, ret>>
    /\ UNCHANGED csr

\* Mutant: CHECK_ACK after a receive too.
FailedOnNack(op) == status.ArbLost \/ status.RxACK

\* CHECK_ARB after a receive, CHECK_ACK after a transmit
Failed(op) == status.ArbLost \/ (~op.rx /\ status.RxACK)

status_error_code ==
    IF status.RxACK THEN ENACK ELSE IF status.ArbLost THEN EARB ELSE EUNK

\* Big-endian 16-bit value for a read, zero for the others.
ReturnValue == IF rx = <<>> THEN 0 ELSE rx[1] * 256 + rx[2]

Advance ==
    /\ pc = "check"
    /\ ~Failed(txn[k])
    /\ k < Len(txn)
    /\ k' = k + 1
    /\ pc' = Begin(txn[k + 1])
    /\ UNCHANGED <<txn, status, rx, ret, elapsed>>
    /\ UNCHANGED csr

Return ==
    /\ pc = "check"
    /\ \/ Failed(txn[k]) /\ ret' = status_error_code
       \/ ~Failed(txn[k]) /\ k = Len(txn) /\ ret' = ReturnValue
    /\ pc' = "idle"
    /\ UNCHANGED <<txn, k, status, rx, elapsed>>
    /\ UNCHANGED csr

\* A clock passes while the CPU computes, waits or does nothing.
DriverTick ==
    /\ elapsed' = IF elapsed < NopDelay THEN elapsed + 1 ELSE elapsed
    /\ UNCHANGED <<pc, txn, k, status, rx, ret>>
=============================================================================
