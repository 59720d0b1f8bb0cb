----------------------------- MODULE LxBuildEnv ------------------------------
(***************************************************************************)
(* lxbuildenv.py, which rockling.py and the programs in bin/ import first: *)
(* it checks that the tools are there, fetches the git submodules under    *)
(* deps/, and runs the program again, as a child, in an environment where  *)
(* they are found.  Several programs may be launched on one tree, each from *)
(* its own terminal; a launch may be interrupted at any time, and started  *)
(* again.                                                                  *)
(*                                                                         *)
(* git is external: `git submodule update` clones the submodules that are  *)
(* not there, then checks each of them out, and may fail at any point.     *)
(***************************************************************************)

CONSTANTS Programs,      \* programs that import lxbuildenv
          LX_DEPENDENCIES,   \* tools that a program names, [Programs -> SUBSET STRING]
          SkipGit,       \* programs with skip-git in LX_CONFIGURATION
          Paths,         \* sets of commands that PATH may offer
          Options,       \* sets of --lx- options that a launch may be given
          Deps,          \* submodules of the repository, all under deps/
          Nested,        \* submodules of submodules
          Super          \* the submodule that one of those belongs to

Submodules == Deps \cup Nested
Flags == {"print-deps", "print-env", "check-deps", "ignore-deps",
          "ignore-git", "check-git", "recursive-git"}

ASSUME BuildAssumption ==
    /\ LX_DEPENDENCIES \in [Programs -> SUBSET STRING] /\ SkipGit \subseteq Programs
    /\ Options \subseteq SUBSET Flags
    /\ Deps \cap Nested = {} /\ Super \in [Nested -> Deps]

VARIABLES commands,    \* commands found in PATH
          readable,    \* a program can be read (its encoding is that of the locale)
          in_git,      \* the tree is a git repository (and not an unpacked archive)
          dir          \* [Submodules -> state of their directories]
VARIABLES pc, args,              \* of each program: its place, its --lx- options
          PYTHONPATH, REEXEC,    \* the environment for the child
          sys_path               \* directories put before the child's search path
VARIABLES fetched,     \* history: what each launch knows of the submodules
          stopped      \* history: clones that a git left behind without a checkout

tree == <<commands, readable, in_git, dir>>
environment == <<PYTHONPATH, REEXEC, sys_path>>
history == <<fetched, stopped>>
vars == <<tree, pc, args, environment, history>>

Steps == {"import", "fixup_env", "check_dependencies", "check_submodules", "update",
          "exec", "main"}

\* The types of all the variables.
TypeOK ==
    /\ dir \in [Submodules -> {"absent", "empty", "cloned", "ready"}]
    /\ in_git \in BOOLEAN /\ readable \in BOOLEAN
    /\ pc \in [Programs -> Steps \cup {"idle"}]
    /\ args \in [Programs -> SUBSET Flags] /\ REEXEC \in [Programs -> BOOLEAN]
    /\ PYTHONPATH \in [Programs -> SUBSET Deps] /\ sys_path \in [Programs -> SUBSET Deps]
    /\ fetched \in [Programs -> {"unknown", "found", "fetched", "failed"}]
    /\ stopped \subseteq Submodules

-----------------------------------------------------------------------------
(* Tools and submodules.                                                   *)

\* dependency_checkers, with the commands of which one must be in PATH.
dependency_checkers ==
    {"python", "vivado", "make", "git", "riscv", "yosys", "arachne-pnr", "icestorm",
     "nextpnr-ice40", "nextpnr-ecp5"}

Commands(name) ==
    CASE name = "riscv"    -> {"riscv64-unknown-elf-gcc", "riscv32-unknown-elf-gcc",
                               "riscv-none-embed-gcc"}
      [] name = "icestorm" -> {"icepack"}
      [] name = "vivado"   -> {"vivado", "/opt/Xilinx/Vivado"}
      [] name = "python"   -> {"python3.5"}
      [] OTHER             -> {name}

get_command(name) == Commands(name) \cap commands # {}

\* Whether check_submodules is called, and with it git: --lx-check-git comes
\* first, then the program's own wish and --lx-ignore-git.
UsesGit(p) ==
    \/ "check-git" \in args[p]
    \/ ~(readable /\ p \in SkipGit) /\ "ignore-git" \notin args[p]

\* Mutant: git is not a dependency where it is asked for.
read_configuration_ignored(p) ==
    LET named == IF readable THEN LX_DEPENDENCIES[p] ELSE {}
    IN  {"python"} \cup named
        \cup (IF "riscv" \in named THEN {"make"} ELSE {})
        \cup (IF readable /\ p \notin SkipGit /\ "ignore-git" \notin args[p]
              THEN {"git"} ELSE {})

\* A program that cannot be read has no dependencies but Python.
read_configuration(p) ==
    LET named == IF readable THEN LX_DEPENDENCIES[p] ELSE {}
        wants_git == \/ "check-git" \in args[p]
                     \/ p \notin SkipGit /\ "ignore-git" \notin args[p]
    IN  {"python"} \cup named
        \cup (IF "riscv" \in named THEN {"make"} ELSE {})
        \cup (IF readable /\ wants_git THEN {"git"} ELSE {})

\* Mutant: the directories inside are taken as well.
get_python_path_walk == {d \in Submodules : dir[d] # "absent"}

\* The directories under deps/.
get_python_path == {d \in Deps : dir[d] # "absent"}

\* Submodules that check_module and git look at: those of a submodule are
\* known once it is checked out.
InScope(recursive) ==
    Deps \cup {m \in Nested : recursive /\ dir[Super[m]] = "ready"}

Scope(p) == InScope("recursive-git" \in args[p])

\* What the git of a launch has cloned, or found so, and not yet checked out.
Clones(p) == {m \in Scope(p) : dir[m] = "cloned"}

\* Mutant: an empty directory is taken for a submodule.
check_module_exists(recursive) ==
    ~in_git \/ \E m \in InScope(recursive) : dir[m] = "absent"

\* True if the tree needs to be initialized.  In an empty directory git finds
\* the repository around it, which is in the breadcrumbs; in a clone that was
\* not checked out it finds a repository without .gitmodules.
check_module(recursive) ==
    ~in_git \/ \E m \in InScope(recursive) : dir[m] \in {"absent", "empty"}

-----------------------------------------------------------------------------
(* A launch.                                                               *)

Goto(p, from, to) == pc[p] = from /\ pc' = [pc EXCEPT ![p] = to]

\* The processes of the launch are gone, and all they knew.
Exit(p, from) ==
    /\ Goto(p, from, "idle")
    /\ args' = [args EXCEPT ![p] = {}] /\ REEXEC' = [REEXEC EXCEPT ![p] = FALSE]
    /\ PYTHONPATH' = [PYTHONPATH EXCEPT ![p] = {}] /\ sys_path' = [sys_path EXCEPT ![p] = {}]
    /\ fetched' = [fetched EXCEPT ![p] = "unknown"]
    /\ stopped' = IF from = "update" THEN stopped \cup Clones(p) ELSE stopped

Init ==
    /\ commands \in Paths
    /\ in_git \in BOOLEAN /\ readable \in BOOLEAN
    /\ dir \in [Submodules -> {"absent", "empty", "ready"}]
    /\ \A m \in Nested : dir[m] # "absent" <=> dir[Super[m]] = "ready"
    /\ pc = [p \in Programs |-> "idle"]
    /\ args = [p \in Programs |-> {}] /\ REEXEC = [p \in Programs |-> FALSE]
    /\ PYTHONPATH = [p \in Programs |-> {}] /\ sys_path = [p \in Programs |-> {}]
    /\ fetched = [p \in Programs |-> "unknown"] /\ stopped = {}

\* The shell starts Python on a program, which imports lxbuildenv.
Start(p) ==
    /\ Goto(p, "idle", "import")
    /\ \E options \in Options : args' = [args EXCEPT ![p] = options]
    /\ UNCHANGED <<tree, environment, history>>

\* The module's code: the child, which has LXBUILDENV_REEXEC, puts deps/ into
\* its search path and goes on with the program; --lx-print-deps leaves first.
Import(p) ==
    /\ \/ /\ REEXEC[p]
          /\ Goto(p, "import", "main")
          /\ sys_path' = [sys_path EXCEPT ![p] = get_python_path]
          /\ UNCHANGED <<args, PYTHONPATH, REEXEC, history>>
       \/ /\ ~REEXEC[p] /\ "print-deps" \in args[p]
          /\ Exit(p, "import")
       \/ /\ ~REEXEC[p] /\ "print-deps" \notin args[p]
          /\ Goto(p, "import", "fixup_env")
          /\ UNCHANGED <<args, environment, history>>
    /\ UNCHANGED tree

\* Mutant: the child does not know that it is one.
fixup_env_again(p) ==
    /\ Goto(p, "fixup_env", "check_dependencies")
    /\ PYTHONPATH' = [PYTHONPATH EXCEPT ![p] = get_python_path]
    /\ UNCHANGED <<REEXEC, args, sys_path, history, tree>>

\* The environment of the child, which --lx-print-env only shows.
fixup_env(p) ==
    /\ IF "print-env" \in args[p]
       THEN Exit(p, "fixup_env")
       ELSE /\ Goto(p, "fixup_env", "check_dependencies")
            /\ PYTHONPATH' = [PYTHONPATH EXCEPT ![p] = get_python_path]
            /\ REEXEC' = [REEXEC EXCEPT ![p] = TRUE]
            /\ UNCHANGED <<args, sys_path, history>>
    /\ UNCHANGED tree

\* A name without a checker is passed over with a warning.
dependency_errors(p) ==
    {name \in read_configuration(p) \cap dependency_checkers : ~get_command(name)}

\* The errors end the launch, and so does --lx-check-deps.
check_dependencies(p) ==
    /\ IF \/ dependency_errors(p) # {} /\ "ignore-deps" \notin args[p]
          \/ "check-deps" \in args[p]
       THEN Exit(p, "check_dependencies")
       ELSE /\ Goto(p, "check_dependencies", IF UsesGit(p) THEN "check_submodules" ELSE "exec")
            /\ UNCHANGED <<args, environment, history>>
    /\ UNCHANGED tree

\* Without git, Popen raises an exception that nobody catches.
check_submodules(p) ==
    /\ IF ~get_command("git")
       THEN Exit(p, "check_submodules")
       ELSE /\ IF check_module("recursive-git" \in args[p])
               THEN Goto(p, "check_submodules", "update") /\ UNCHANGED fetched
               ELSE /\ Goto(p, "check_submodules", "exec")
                    /\ fetched' = [fetched EXCEPT ![p] = "found"]
            /\ UNCHANGED <<args, environment, stopped>>
    /\ UNCHANGED tree

\* git submodule update --init: clones first, then one checkout after the
\* other, each of which shows the (empty) submodules inside.
Clone(p) ==
    /\ pc[p] = "update" /\ in_git
    /\ \E m \in Scope(p) :
          /\ dir[m] \in {"absent", "empty"}
          /\ dir' = [dir EXCEPT ![m] = "cloned"]
    /\ UNCHANGED <<commands, readable, in_git, pc, args, environment, history>>

Checkout(p) ==
    /\ pc[p] = "update" /\ in_git
    /\ ~check_module("recursive-git" \in args[p])
    /\ \E m \in Scope(p) :
          /\ dir[m] = "cloned"
          /\ dir' = [n \in Submodules |->
                        CASE n = m -> "ready"
                          [] n \in Nested /\ Super[n] = m -> "empty"
                          [] OTHER -> dir[n]]
          /\ stopped' = stopped \ {m}
    /\ UNCHANGED <<commands, readable, in_git, pc, args, environment, fetched>>

UpdateDone(p) ==
    /\ \A m \in Scope(p) : dir[m] = "ready"
    /\ in_git
    /\ Goto(p, "update", "exec")
    /\ fetched' = [fetched EXCEPT ![p] = "fetched"]
    /\ UNCHANGED <<tree, args, environment, stopped>>

\* No repository, no network, or the lock of another git: the result of git is
\* not looked at.
UpdateFails(p) ==
    /\ Goto(p, "update", "exec")
    /\ fetched' = [fetched EXCEPT ![p] = "failed"]
    /\ stopped' = stopped \cup Clones(p)
    /\ UNCHANGED <<tree, args, environment>>

\* The program once more, with the options that are not lxbuildenv's.
Exec(p) ==
    /\ Goto(p, "exec", "import")
    /\ args' = [args EXCEPT ![p] = {}]
    /\ UNCHANGED <<tree, environment, history>>

\* The program does its work; its parent passes on its exit code.
Main(p) == Exit(p, "main") /\ UNCHANGED tree

\* Ctrl-C, which git gets as well.
Interrupt(p) ==
    /\ pc[p] \in Steps
    /\ Exit(p, pc[p])
    /\ UNCHANGED tree

Update(p) == Clone(p) \/ Checkout(p) \/ UpdateDone(p) \/ UpdateFails(p)

Run(p) ==
    \/ Import(p) \/ fixup_env(p) \/ check_dependencies(p) \/ check_submodules(p)
    \/ Update(p) \/ Exec(p) \/ Main(p)

Next == \E p \in Programs : Start(p) \/ Run(p) \/ Interrupt(p)

\* A program that runs goes on: Python, git and the program all end.
Fairness == \A p \in Programs : WF_vars(Run(p))

Spec == Init /\ [][Next]_vars /\ Fairness

-----------------------------------------------------------------------------
(* Properties.                                                             *)

\* lxbuildenv.py:84-88 and :609-619 decide separately whether git is needed
\* and whether it is run: it is never run where its lack was not reported,
\* unless the user said so or the program could not be read.
GitWasChecked ==
    \A p \in Programs :
        pc[p] \in {"check_submodules", "update"} /\ readable
                  /\ "ignore-deps" \notin args[p] => get_command("git")

\* A clone without its checkout is the work of a git that goes on, or of one
\* that was stopped or failed.
Unfinished(m) ==
    /\ dir[m] = "cloned"
    /\ m \in stopped \/ (\E q \in Programs : pc[q] = "update" /\ m \in Clones(q))

\* A program that starts has what its launch knows of the submodules, whatever
\* other launches do meanwhile or did before: those that its own git fetched
\* are checked out, those that were found are in its search path and checked
\* out as well, but for what another git has not finished.
ProgramHasDeps ==
    \A p \in Programs :
        pc[p] = "main" /\ fetched[p] \in {"found", "fetched"} =>
            \A d \in Deps :
                /\ d \in sys_path[p]
                /\ dir[d] = "ready" \/ (fetched[p] = "found" /\ Unfinished(d))

\* Every launch ends: the child does not start a child of its own, and the
\* checks lead to the program or to an error.
LaunchEnds == \A p \in Programs : pc[p] = "import" ~> pc[p] = "idle"
=============================================================================
