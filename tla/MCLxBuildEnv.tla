---------------------------- MODULE MCLxBuildEnv -----------------------------
(* LxBuildEnv for TLC.                                                     *)
EXTENDS LxBuildEnv

CONSTANTS rockling, litex_server, litex, picolibc, data

MCPrograms == {rockling, litex_server}

\* rockling.py names its tools; the programs in bin/ name none.
MCDependencies == [p \in Programs |-> IF p = rockling THEN {"riscv", "icestorm", "yosys", "nextpnr-ice40"} ELSE {}]

MCDeps == {litex, picolibc}
MCNested == {data}
MCSuper == [m \in MCNested |-> picolibc]

MCTools == {"python3.5", "make", "riscv32-unknown-elf-gcc", "icepack", "yosys", "nextpnr-ice40"}
MCPaths == {MCTools, MCTools \cup {"git"}}

MCOptions == {{}, {"ignore-git", "check-git"}, {"ignore-deps", "recursive-git"}, {"ignore-git", "check-deps"},
              {"print-deps"}, {"print-env"}}
=============================================================================
