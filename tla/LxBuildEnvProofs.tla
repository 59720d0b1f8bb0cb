-------------------------- MODULE LxBuildEnvProofs ---------------------------
(***************************************************************************)
(* Proofs about LxBuildEnv, for any programs, tools, options and           *)
(* submodules.                                                             *)
(***************************************************************************)
EXTENDS LxBuildEnv, TLAPS

\* What a launch knows about the submodules is true, and stays true: none of
\* the others takes away a clone or a checkout.
FetchedSound ==
    \A p \in Programs :
        /\ fetched[p] = "fetched" => \A d \in Deps : dir[d] = "ready"
        /\ fetched[p] = "found" => \A d \in Deps : dir[d] \in {"cloned", "ready"}
        /\ pc[p] = "main" /\ fetched[p] \in {"found", "fetched"} => sys_path[p] = Deps

\* Every clone without a checkout is accounted for.
ClonesKnown == \A m \in Submodules : dir[m] = "cloned" => Unfinished(m)

\* A launch looks for the submodules once: its child knows that it is one.
LooksOnce ==
    \A p \in Programs :
        /\ pc[p] \in {"check_dependencies", "check_submodules", "update", "exec"} => REEXEC[p]
        /\ \/ pc[p] \in {"idle", "fixup_env", "check_dependencies", "check_submodules", "update"}
           \/ pc[p] = "import" /\ ~REEXEC[p]
           => fetched[p] = "unknown"

IInv == TypeOK /\ GitWasChecked /\ FetchedSound /\ LooksOnce /\ ClonesKnown

\* The invariant holds at the beginning.
LEMMA InitInv == Init => IInv
<1>1. Init => TypeOK
  BY BuildAssumption DEF Init, TypeOK, Steps, Submodules
<1>2. Init => GitWasChecked
  BY DEF Init, GitWasChecked
<1>3. Init => FetchedSound
  BY DEF Init, FetchedSound
<1>4. Init => LooksOnce
  BY DEF Init, LooksOnce
<1>5. Init => ClonesKnown
  BY DEF Init, ClonesKnown
<1>6. QED
  BY <1>1, <1>2, <1>3, <1>4, <1>5 DEF IInv

-----------------------------------------------------------------------------
(* One launch takes a step.                                                *)

\* The programs, whatever they do, keep their types.
LEMMA TypeStep ==
  ASSUME TypeOK, NEW p \in Programs, Start(p) \/ Run(p) \/ Interrupt(p)
  PROVE  TypeOK'
<1>a. Clones(p) \subseteq Submodules
  BY DEF Clones, Scope, InScope, Submodules
<1> USE BuildAssumption DEF TypeOK, Steps, Submodules, tree, environment, history, Goto
<1>0. ASSUME NEW from \in Steps, Exit(p, from), UNCHANGED tree PROVE TypeOK'
  BY <1>0, <1>a DEF Exit
<1>1. CASE Start(p)
  BY <1>1 DEF Start
<1>2. CASE Import(p)
  BY <1>2, <1>0 DEF Import, get_python_path
<1>3. CASE fixup_env(p)
  <2>1. CASE Exit(p, "fixup_env")
    BY <1>3, <2>1, <1>0 DEF fixup_env
  <2>2. CASE ~Exit(p, "fixup_env")
    <3>1. get_python_path \in SUBSET Deps
      BY DEF get_python_path
    <3>2. /\ pc' = [pc EXCEPT ![p] = "check_dependencies"]
          /\ PYTHONPATH' = [PYTHONPATH EXCEPT ![p] = get_python_path]
          /\ REEXEC' = [REEXEC EXCEPT ![p] = TRUE]
          /\ UNCHANGED <<args, sys_path, history, tree>>
      BY <1>3, <2>2 DEF fixup_env
    <3>3. PYTHONPATH' \in [Programs -> SUBSET Deps]
      BY <3>1, <3>2
    <3>4. QED
      BY <3>2, <3>3
  <2>3. QED
    BY <2>1, <2>2
<1>4. CASE check_dependencies(p)
  BY <1>4, <1>0 DEF check_dependencies
<1>5. CASE check_submodules(p)
  BY <1>5, <1>0 DEF check_submodules
<1>6. CASE Clone(p)
  BY <1>6 DEF Clone, Scope, InScope
<1>7. CASE Checkout(p)
  BY <1>7 DEF Checkout, Scope, InScope
<1>8. CASE UpdateDone(p) \/ UpdateFails(p)
  BY <1>8, <1>a DEF UpdateDone, UpdateFails
<1>9. CASE Exec(p)
  BY <1>9 DEF Exec
<1>10. CASE Main(p) \/ Interrupt(p)
  BY <1>10, <1>0 DEF Main, Interrupt
<1>11. QED
  BY <1>1, <1>2, <1>3, <1>4, <1>5, <1>6, <1>7, <1>8, <1>9, <1>10 DEF Run, Update

\* git is run where read_configuration asked for it, by the same conditions.
LEMMA GitStep ==
  ASSUME TypeOK, GitWasChecked, NEW p \in Programs, Start(p) \/ Run(p) \/ Interrupt(p)
  PROVE  GitWasChecked'
<1> USE DEF TypeOK, GitWasChecked, tree, environment, history, Goto, get_command
<1>0. ASSUME NEW from \in Steps, Exit(p, from), UNCHANGED tree PROVE GitWasChecked'
  BY <1>0 DEF Exit
<1>1. CASE Start(p) \/ Exec(p)
  BY <1>1 DEF Start, Exec
<1>2. CASE Import(p)
  BY <1>2, <1>0 DEF Import, Steps
<1>3. CASE fixup_env(p)
  BY <1>3, <1>0 DEF fixup_env, Steps
<1>4. CASE check_dependencies(p)
  <2>1. CASE Exit(p, "check_dependencies")
    BY <1>4, <2>1, <1>0 DEF check_dependencies, Steps
  <2>2. CASE ~Exit(p, "check_dependencies")
    <3>1. /\ pc' = [pc EXCEPT ![p] = IF UsesGit(p) THEN "check_submodules" ELSE "exec"]
          /\ dependency_errors(p) = {} \/ "ignore-deps" \in args[p]
          /\ UNCHANGED <<tree, args>>
      BY <1>4, <2>2 DEF check_dependencies
    <3>2. ASSUME readable, "ignore-deps" \notin args[p], UsesGit(p) PROVE get_command("git")
      <4>1. "git" \in read_configuration(p)
        BY <3>2 DEF UsesGit, read_configuration
      <4>2. "git" \in dependency_checkers
        BY DEF dependency_checkers
      <4>3. QED
        BY <3>1, <3>2, <4>1, <4>2 DEF dependency_errors
    <3>3. QED
      BY <3>1, <3>2
  <2>3. QED
    BY <2>1, <2>2
<1>5. CASE check_submodules(p)
  BY <1>5, <1>0 DEF check_submodules, Steps
<1>6. CASE Update(p)
  BY <1>6 DEF Update, Clone, Checkout, UpdateDone, UpdateFails
<1>7. CASE Main(p) \/ Interrupt(p)
  BY <1>7, <1>0 DEF Main, Interrupt, Steps
<1>8. QED
  BY <1>1, <1>2, <1>3, <1>4, <1>5, <1>6, <1>7 DEF Run

\* What was found or fetched stays; what is looked for is found or fetched.
LEMMA FetchedStep ==
  ASSUME TypeOK, FetchedSound, LooksOnce, NEW p \in Programs, Start(p) \/ Run(p) \/ Interrupt(p)
  PROVE  FetchedSound'
<1> USE BuildAssumption DEF TypeOK, FetchedSound, tree, environment, history, Goto, Submodules, Scope,
        InScope
<1>0. ASSUME NEW from \in Steps, Exit(p, from), UNCHANGED tree PROVE FetchedSound'
  BY <1>0 DEF Exit
<1>1. CASE Start(p) \/ Exec(p)
  BY <1>1 DEF Start, Exec
<1>2. CASE Import(p)
  <2>1. fetched[p] \in {"found", "fetched"} => get_python_path = Deps
    BY DEF get_python_path
  <2>2. QED
    BY <1>2, <1>0, <2>1 DEF Import, Steps
<1>3. CASE fixup_env(p)
  BY <1>3, <1>0 DEF fixup_env, Steps
<1>4. CASE check_dependencies(p)
  BY <1>4, <1>0 DEF check_dependencies, Steps
<1>5. CASE check_submodules(p)
  <2>1. CASE Exit(p, "check_submodules")
    BY <1>5, <2>1, <1>0 DEF check_submodules, Steps
  <2>2. CASE ~Exit(p, "check_submodules")
    <3>1. ~check_module("recursive-git" \in args[p]) => \A d \in Deps : dir[d] \in {"cloned", "ready"}
      BY DEF check_module
    <3>2. fetched[p] = "unknown"
      BY <1>5, <2>2 DEF LooksOnce, check_submodules
    <3>3. QED
      BY <1>5, <2>2, <3>1, <3>2 DEF check_submodules
  <2>3. QED
    BY <2>1, <2>2
<1>6. CASE Clone(p)
  BY <1>6 DEF Clone
<1>7. CASE Checkout(p)
  BY <1>7 DEF Checkout
<1>8. CASE UpdateDone(p)
  BY <1>8 DEF UpdateDone
<1>9. CASE UpdateFails(p)
  BY <1>9 DEF UpdateFails
<1>10. CASE Main(p) \/ Interrupt(p)
  BY <1>10, <1>0 DEF Main, Interrupt, Steps
<1>11. QED
  BY <1>1, <1>2, <1>3, <1>4, <1>5, <1>6, <1>7, <1>8, <1>9, <1>10 DEF Run, Update

\* A clone stays with its git until that is over, one way or the other.
LEMMA ClonesStep ==
  ASSUME TypeOK, ClonesKnown, NEW p \in Programs, Start(p) \/ Run(p) \/ Interrupt(p)
  PROVE  ClonesKnown'
<1> SUFFICES ASSUME NEW m \in Submodules, dir'[m] = "cloned"
             PROVE  Unfinished(m)'
  BY DEF ClonesKnown
<1> USE BuildAssumption DEF TypeOK, tree, environment, history, Goto, Unfinished, Clones, Scope, InScope,
        Submodules
<1>1. dir[m] = "cloned" => m \in stopped \/ \E q \in Programs : pc[q] = "update" /\ m \in Clones(q)
  BY DEF ClonesKnown
<1>2. ASSUME NEW from \in Steps, Exit(p, from), UNCHANGED tree PROVE Unfinished(m)'
  <2>1. CASE m \in stopped
    BY <1>2, <2>1 DEF Exit
  <2>2. CASE m \notin stopped
    <3>1. PICK q \in Programs : pc[q] = "update" /\ m \in Clones(q)
      BY <1>1, <1>2, <2>2
    <3>2. CASE q = p
      BY <1>2, <3>1, <3>2 DEF Exit
    <3>3. CASE q # p
      BY <1>2, <3>1, <3>3 DEF Exit
    <3>4. QED
      BY <3>2, <3>3
  <2>3. QED
    BY <2>1, <2>2
<1>3. ASSUME UNCHANGED <<dir, stopped>>, pc[p] # "update",
             \A q \in Programs : q # p => pc'[q] = pc[q] /\ args'[q] = args[q]
      PROVE  Unfinished(m)'
  BY <1>1, <1>3
<1>4. CASE Start(p) \/ Exec(p)
  BY <1>3, <1>4 DEF Start, Exec
<1>5. CASE Import(p)
  BY <1>2, <1>3, <1>5 DEF Import, Steps
<1>6. CASE fixup_env(p)
  BY <1>2, <1>3, <1>6 DEF fixup_env, Steps
<1>7. CASE check_dependencies(p)
  BY <1>2, <1>3, <1>7 DEF check_dependencies, Steps
<1>8. CASE check_submodules(p)
  BY <1>2, <1>3, <1>8 DEF check_submodules, Steps
<1>9. CASE Clone(p)
  BY <1>1, <1>9 DEF Clone
<1>10. CASE Checkout(p)
  BY <1>1, <1>10 DEF Checkout
<1>11. CASE UpdateDone(p)
  <2>1. m \notin Clones(p)
    BY <1>11 DEF UpdateDone
  <2>2. QED
    BY <1>1, <1>11, <2>1 DEF UpdateDone
<1>12. CASE UpdateFails(p)
  BY <1>1, <1>12 DEF UpdateFails
<1>13. CASE Main(p) \/ Interrupt(p)
  BY <1>2, <1>13 DEF Main, Interrupt, Steps
<1>14. QED
  BY <1>4, <1>5, <1>6, <1>7, <1>8, <1>9, <1>10, <1>11, <1>12, <1>13 DEF Run, Update

\* The child of a launch leaves at once what the launch has done.
LEMMA LooksOnceStep ==
  ASSUME TypeOK, LooksOnce, NEW p \in Programs, Start(p) \/ Run(p) \/ Interrupt(p)
  PROVE  LooksOnce'
<1> USE DEF TypeOK, LooksOnce, environment, history, Goto, Steps
<1>0. ASSUME NEW from \in Steps, Exit(p, from), UNCHANGED tree PROVE LooksOnce'
  BY <1>0 DEF Exit
<1>1. CASE Start(p)
  BY <1>1 DEF Start
<1>2. CASE Import(p)
  BY <1>2, <1>0 DEF Import
<1>3. CASE fixup_env(p)
  BY <1>3, <1>0 DEF fixup_env
<1>4. CASE check_dependencies(p)
  BY <1>4, <1>0 DEF check_dependencies
<1>5. CASE check_submodules(p)
  BY <1>5, <1>0 DEF check_submodules
<1>6. CASE Update(p)
  BY <1>6 DEF Update, Clone, Checkout, UpdateDone, UpdateFails
<1>7. CASE Exec(p)
  BY <1>7 DEF Exec
<1>8. CASE Main(p) \/ Interrupt(p)
  BY <1>8, <1>0 DEF Main, Interrupt
<1>9. QED
  BY <1>1, <1>2, <1>3, <1>4, <1>5, <1>6, <1>7, <1>8 DEF Run

-----------------------------------------------------------------------------
(* Theorems.                                                               *)

\* The invariant holds in every reachable state.
THEOREM LaunchInvariance == Spec => []IInv
<1>1. IInv /\ [Next]_vars => IInv'
  <2> SUFFICES ASSUME IInv, [Next]_vars PROVE IInv'
    OBVIOUS
  <2>1. CASE Next
    <3>1. PICK p \in Programs : Start(p) \/ Run(p) \/ Interrupt(p)
      BY <2>1 DEF Next
    <3>2. TypeOK' /\ GitWasChecked' /\ FetchedSound' /\ LooksOnce' /\ ClonesKnown'
      BY <3>1, TypeStep, GitStep, FetchedStep, LooksOnceStep, ClonesStep DEF IInv
    <3>3. QED
      BY <3>2 DEF IInv
  <2>2. CASE UNCHANGED vars
    BY <2>2 DEF IInv, TypeOK, GitWasChecked, FetchedSound, LooksOnce, ClonesKnown, Unfinished, Clones,
                Scope, InScope, vars, tree, environment, history, get_command
  <2>3. QED
    BY <2>1, <2>2
<1>2. QED
  BY InitInv, <1>1, PTL DEF Spec

\* The variables of lxbuildenv keep their types.
THEOREM LaunchTypeCorrect == Spec => []TypeOK
<1>1. IInv => TypeOK
  BY DEF IInv
<1>2. QED
  BY LaunchInvariance, <1>1, PTL

\* git is never run where its lack was not reported (lxbuildenv.py:84-88 and
\* :609-619), for any programs and options.
THEOREM GitIsChecked == Spec => []GitWasChecked
<1>1. IInv => GitWasChecked
  BY DEF IInv
<1>2. QED
  BY LaunchInvariance, <1>1, PTL

\* For any number of launches, whatever order they come in and wherever they
\* are stopped: a program whose launch has fetched its submodules has them all,
\* one whose launch has found them has them in its search path, and checked out
\* but for those whose checkout another git has still to do or was kept from
\* doing (lxbuildenv.py:270-331, :634).
THEOREM DepsAreThere == Spec => []ProgramHasDeps
<1>1. IInv => ProgramHasDeps
  BY DEF IInv, FetchedSound, ClonesKnown, ProgramHasDeps, Submodules
<1>2. QED
  BY LaunchInvariance, <1>1, PTL
=============================================================================
