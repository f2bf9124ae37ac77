------------------------------ MODULE Library -------------------------------
(***************************************************************************)
(* StringUse in a program that has to initialise the library first         *)
(* (fudge.c, memory.c), and may do so again, and that registers types of   *)
(* its own (registry.c).                                                   *)
(***************************************************************************)
EXTENDS StringUse, Registry

CONSTANTS
    Managers,    \* memory managers it has
    NoManager,
    TypeIds,     \* types it registers
    Functions    \* its own coders and coercers

ASSUME LibraryAssumption ==
    NoManager \notin Managers /\ TypeIds \subseteq Byte /\ Null \notin Functions

VARIABLES manager,      \* s_memoryManager
          initialised,  \* s_registryInitialised
          registry      \* s_registry, of those types

setUp == <<manager, initialised, registry>>

(* Static memory is all zero.                                              *)
Untouched == [fixedwidth |-> 0, payload |-> "LOCAL", codec |-> Null, coercer |-> Null]

LibraryInit ==
    /\ Init
    /\ manager = NoManager
    /\ initialised = FALSE
    /\ registry = [type \in TypeIds |-> Untouched]

(* FudgeRegistry_init.                                                     *)
RegistryInit_Again == [type \in TypeIds |-> InitialRegistry[type]]

RegistryInit ==
    IF initialised THEN registry ELSE [type \in TypeIds |-> InitialRegistry[type]]

(* Fudge_init and Fudge_initEx, by one thread while no other is inside the *)
(* library.  Another manager than the one it has is refused before the     *)
(* registry is looked at, as is none.                                      *)
NobodyInside == \A t \in Threads : At(t, "idle")

InitEx(mm) ==
    /\ NobodyInside
    /\ mm # NoManager /\ manager \in {NoManager, mm}
    /\ manager' = mm
    /\ registry' = RegistryInit
    /\ initialised' = TRUE
    /\ UNCHANGED vars

(* FudgeRegistry_registerType, at any time, before the library is          *)
(* initialised too.                                                        *)
Register(type, payload, codec, coercer) ==
    /\ NobodyInside
    /\ registry' = RegisterType(registry, type, payload, codec, coercer).registry
    /\ UNCHANGED <<vars, manager, initialised>>

LibraryNext ==
    \/ \E mm \in Managers \cup {NoManager} : InitEx(mm)
    \/ \E type \in TypeIds, payload \in {"LOCAL", "BYTES", "SUBMSG", "STRING"},
          codec, coercer \in Functions \cup {Null} : Register(type, payload, codec, coercer)
    \/ initialised /\ Next /\ UNCHANGED setUp

LibrarySpec == LibraryInit /\ [][LibraryNext]_<<vars, setUp>>

(* "It is safe to call Fudge_init more than once as later calls have no    *)
(* effect" (fudge/fudge.h): what was allocated is freed by the manager     *)
(* that allocated it, and what the program has registered since stays      *)
(* registered until it registers something else.                           *)
SetUpKept ==
    [][initialised =>
          /\ initialised' /\ manager' = manager
          /\ \A type \in TypeIds : registry'[type] # registry[type] =>
                registry'[type].codec \in Functions]_<<vars, setUp>>
=============================================================================
