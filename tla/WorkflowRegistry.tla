-------------------------- MODULE WorkflowRegistry --------------------------
(***************************************************************************)
(* The workflow classes of an application: what @Workflow accepts, what    *)
(* the forFeature() imports of DozerModule register, and what the engine   *)
(* gets when it asks for a workflow by its name.                           *)
(*                                                                         *)
(* A class is a record: id tells classes apart, className is the name that *)
(* its declaration gives it, name the one given to @Workflow, base         *)
(* whether it extends DozerWorkflow, own what its own methods besides the  *)
(* constructor and run() are decorated with, run whether it has a run().   *)
(* An import is a sequence of classes.                                     *)
(***************************************************************************)
EXTENDS Naturals, Sequences, SequencesExt

CONSTANT None  \* what does not exist, a failed application among it

-----------------------------------------------------------------------------
(* The decorator *)

(* validateWorkflowClass *)
Accepted(class) ==
  class.base /\ \A m \in DOMAIN class.own : class.own[m] \in {"step", "noStep"}

-----------------------------------------------------------------------------
(* The module *)

(* Nest keeps one provider for a token: the last.  The token of a factory  *)
(* is made of the declared name of its class.                              *)
FactoryOf(import, class) ==
  LET same == {i \in DOMAIN import : import[i].className = class.className}
  IN import[CHOOSE i \in same : \A j \in same : j <= i]

(* Bug: the later class replaces the earlier one. *)
Register_Replaces(registry, name, entry) ==
  [n \in DOMAIN registry \cup {name} |-> IF n = name THEN entry ELSE registry[n]]

(* WorkflowRegistry.register: refuses another class of the same name. *)
Register(registry, name, entry) ==
  IF name \in DOMAIN registry /\ registry[name].workflowClass # entry.workflowClass
    THEN None
    ELSE [n \in DOMAIN registry \cup {name} |-> IF n = name THEN entry ELSE registry[n]]

(* The registrar of an import: every class has to have a name and a run(). *)
RegisterClass(registry, import, class) ==
  IF registry = None \/ class.name = None \/ ~class.run
    THEN None
    ELSE Register(registry, class.name,
                  [workflowClass |-> class, factory |-> FactoryOf(import, class)])

(* The registry after each class of an import. *)
Registrar(registry, import) ==
  LET r[i \in 0 .. Len(import)] ==
        IF i = 0 THEN registry ELSE RegisterClass(r[i - 1], import, import[i])
  IN r

RegisterImport(registry, import) == Registrar(registry, import)[Len(import)]

(* The registry after each import. *)
Initialized(imports) ==
  LET r[i \in 0 .. Len(imports)] ==
        IF i = 0 THEN <<>> ELSE RegisterImport(r[i - 1], imports[i])
  IN r

(* An application: declares its classes, then imports them. *)
Boot(imports) ==
  IF \E i \in DOMAIN imports : \E k \in DOMAIN imports[i] : ~Accepted(imports[i][k])
    THEN None
    ELSE Initialized(imports)[Len(imports)]

-----------------------------------------------------------------------------
(* The engine's side: resolveDefinition and instantiate *)

Resolve(registry, name) == IF name \in DOMAIN registry THEN registry[name] ELSE None

Instantiate(registry, name) ==
  LET definition == Resolve(registry, name)
  IN IF definition = None \/ ~definition.factory.run THEN None ELSE definition.factory

-----------------------------------------------------------------------------
(* What to expect *)

Imported(imports) == UNION {ToSet(imports[i]) : i \in DOMAIN imports}

(* The classes of one import are declared under different names. *)
TellsClassesApart(imports) ==
  \A i \in DOMAIN imports : \A c, d \in ToSet(imports[i]) :
    c.className = d.className => c = d

(* An application that has started gets, for each name, an instance of the *)
(* only class that declares it, however the imports overlap; and it starts *)
(* whenever each class is well-formed and no two claim a name.             *)
NamesTheirClasses(imports) ==
  LET registry == Boot(imports)
      claimed(name) == {c \in Imported(imports) : c.name = name}
      names == {c.name : c \in Imported(imports)}
      wellFormed(c) == c.base /\ c.run /\ c.name # None
                       /\ \A m \in DOMAIN c.own : c.own[m] # "plain"
  IN TellsClassesApart(imports) =>
       IF (\A c \in Imported(imports) : wellFormed(c))
          /\ (\A n \in names : \E c \in Imported(imports) : claimed(n) = {c})
         THEN /\ registry # None
              /\ \A c \in Imported(imports) : Instantiate(registry, c.name) = c
         ELSE registry = None
=============================================================================
