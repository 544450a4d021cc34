------------------------------- MODULE Inputs -------------------------------
(***************************************************************************)
(* The pure functions of the library and of its tools: a step picks an     *)
(* input, and the invariants compare what the functions make of it with    *)
(* what is expected.  Those about values and about the performance runner  *)
(* are in MCInputs, beside the functions.                                  *)
(***************************************************************************)
EXTENDS RetryPolicy, WorkflowRegistry

CONSTANTS
  Heap,          \* heaps of values to be stored
  Policy,        \* the retry options of steps and of workflows
  ModulePolicy,  \* the retry options of the module
  Class,         \* workflow classes
  Application,   \* the imports of applications
  Sweep,         \* baselines and lists of the performance runner
  Sample         \* measurements and percentiles

VARIABLE input

(* An option is left out, or given as a number or as a strategy.           *)
IsOption(option, S) == option \subseteq S /\ \A x, y \in option : x = y

IsPolicy(p) ==
  /\ \A option \in {p.attempts, p.delayMs, p.backoffMs} : IsOption(option, Int)
  /\ IsOption(p.strategy, Strategy)

ASSUME PolicyAssumption == \A p \in Policy \cup ModulePolicy : IsPolicy(p)

Entry == [workflowClass : Class, factory : Class]

(* None is neither a class, nor an entry, nor a registry of some names.    *)
ASSUME ClassAssumption ==
  /\ \A c \in Class :
       /\ {c.base, c.run} \subseteq BOOLEAN
       /\ \A m \in DOMAIN c.own : c.own[m] \in {"step", "noStep", "plain"}
  /\ Application \subseteq Seq(Seq(Class))
  /\ None \notin Entry
  /\ \A names \in SUBSET {c.name : c \in Class} : None \notin [names -> Entry]

-----------------------------------------------------------------------------
Nothing == input = <<>>

Pick(kind, i) == input' = <<kind, i>>

PickValue == Nothing /\ \E heap \in Heap : Pick("value", heap)

PickPolicies ==
  Nothing /\ \E s, w \in Policy, g \in ModulePolicy : Pick("policies", <<s, w, g>>)

PickApplication == Nothing /\ \E a \in Application : Pick("application", a)

PickSweep == Nothing /\ \E s \in Sweep : Pick("sweep", s)

PickSample == Nothing /\ \E s \in Sample : Pick("sample", s)

Compared == ~Nothing /\ UNCHANGED input

InputsInit == input = <<>>

InputsNext ==
  PickValue \/ PickPolicies \/ PickApplication \/ PickSweep \/ PickSample \/ Compared

InputsSpec == InputsInit /\ [][InputsNext]_input

Given(kind) == ~Nothing /\ input[1] = kind

-----------------------------------------------------------------------------
(* The merged retry options are those nearest to the step.                 *)
PoliciesMerge ==
  Given("policies") => FollowsNearestPolicy(input[2][1], input[2][2], input[2][3])

(* The registry hands out the class that a name belongs to.                *)
RegistryNamesClasses == Given("application") => NamesTheirClasses(input[2])
=============================================================================
