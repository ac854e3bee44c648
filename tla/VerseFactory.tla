----------------------------- MODULE VerseFactory -----------------------------
(***************************************************************************)
(* The factories of src/verse/verse_factory.h: one singleton per           *)
(* interface, with a map from schemes to creators.  The header defines six *)
(* static registrars, so that every translation unit that includes it runs *)
(* all six when it is initialised, in this order and before anything the   *)
(* unit itself defines.  The order among units is unspecified.  A unit's   *)
(* own code may register further creators, by a registrar of its own or by *)
(* register_verse, and may call build.                                     *)
(***************************************************************************)
EXTENDS Integers, Sequences

CONSTANTS Units,        \* the translation units that include the header
          Customs,      \* creators that programs define themselves
          MaxCustoms    \* bound: the registrations programs make

ASSUME CustomsAssumption == MaxCustoms \in Nat

Interface == {"BaseOtSender", "BaseOtReceiver", "OtExtSender", "OtExtReceiver",
              "NcoOtExtSender", "NcoOtExtReceiver"}

OTScheme == {"NaorPinkasSender", "NaorPinkasReceiver", "IknpSender", "IknpReceiver",
             "KkrtSender", "KkrtReceiver"}

Creator == {"create_naor_pinkas_sender", "create_naor_pinkas_receiver",
            "create_iknp_ext_sender", "create_iknp_ext_receiver",
            "create_kkrt_ext_sender", "create_kkrt_ext_receiver"}

ASSUME CreatorsAssumption == Customs \cap (Creator \cup {"throws"}) = {}

VARIABLES creator_map_, \* creator_map_[T]: the map of VerseFactory<T>
          initialised,  \* how many registrars of the header each unit has run
          customs       \* how many registrations programs have made

vars == <<creator_map_, initialised, customs>>

-----------------------------------------------------------------------------

Registrar(T, scheme, creator) == [interface |-> T, scheme |-> scheme, creator |-> creator]

\* The REGISTER_VERSE_... lines, in their order.
Registrars == <<
    Registrar("BaseOtSender", "NaorPinkasSender", "create_naor_pinkas_sender"),
    Registrar("BaseOtReceiver", "NaorPinkasReceiver", "create_naor_pinkas_receiver"),
    Registrar("OtExtSender", "IknpSender", "create_iknp_ext_sender"),
    Registrar("OtExtReceiver", "IknpReceiver", "create_iknp_ext_receiver"),
    Registrar("NcoOtExtSender", "KkrtSender", "create_kkrt_ext_sender"),
    Registrar("NcoOtExtReceiver", "KkrtReceiver", "create_kkrt_ext_receiver")>>

Assigned(map, scheme, creator) ==    \* variant: creator_map_[scheme] = creator
    [s \in DOMAIN map \cup {scheme} |-> IF s = scheme THEN creator ELSE map[s]]
\* std::map::insert: a scheme that is already there keeps its creator.
Inserted(map, scheme, creator) ==
    [s \in DOMAIN map \cup {scheme} |-> IF s \in DOMAIN map THEN map[s] ELSE creator]

\* register_verse.
RegisterVerse(T, scheme, creator) ==
    creator_map_' = [creator_map_ EXCEPT ![T] = Inserted(@, scheme, creator)]

\* build: the creator it calls, or that it throws.  It changes nothing.
Build(T, scheme) ==
    IF scheme \in DOMAIN creator_map_[T] THEN creator_map_[T][scheme] ELSE "throws"

-----------------------------------------------------------------------------

Init == /\ creator_map_ = [T \in Interface |-> <<>>]
        /\ initialised = [u \in Units |-> 0]
        /\ customs = 0

\* The next registrar of the header runs in a unit.
Initialise(u) ==
    /\ initialised[u] < Len(Registrars)
    /\ LET r == Registrars[initialised[u] + 1]
       IN  RegisterVerse(r.interface, r.scheme, r.creator)
    /\ initialised' = [initialised EXCEPT ![u] = @ + 1]
    /\ UNCHANGED customs

\* Code of a unit runs after the registrars of the header in it.
Ready(u) == initialised[u] = Len(Registrars)

\* A unit registers a creator of its own, for any scheme.
RegisterCustom(u) ==
    /\ Ready(u)
    /\ customs < MaxCustoms
    /\ \E T \in Interface, scheme \in OTScheme, creator \in Customs :
          RegisterVerse(T, scheme, creator)
    /\ customs' = customs + 1
    /\ UNCHANGED initialised

Next == \E u \in Units : Initialise(u) \/ RegisterCustom(u)

Spec == Init /\ [][Next]_vars

-----------------------------------------------------------------------------

Maps == UNION {[schemes -> Creator \cup Customs] : schemes \in SUBSET OTScheme}

\* Every factory maps schemes to creators.
TypeOK == /\ creator_map_ \in [Interface -> Maps]
          /\ initialised \in [Units -> 0 .. Len(Registrars)]
          /\ customs \in 0 .. MaxCustoms

Provided == {
    Registrar("BaseOtSender", "NaorPinkasSender", "create_naor_pinkas_sender"),
    Registrar("BaseOtReceiver", "NaorPinkasReceiver", "create_naor_pinkas_receiver"),
    Registrar("OtExtSender", "IknpSender", "create_iknp_ext_sender"),
    Registrar("OtExtReceiver", "IknpReceiver", "create_iknp_ext_receiver"),
    Registrar("NcoOtExtSender", "KkrtSender", "create_kkrt_ext_sender"),
    Registrar("NcoOtExtReceiver", "KkrtReceiver", "create_kkrt_ext_receiver")}

\* Wherever a unit's code runs, also in its own initialisers while other units
\* are not initialised and after others registered what they liked, build gives
\* it the library's protocol for each scheme: it neither throws nor builds a
\* program's creator, in every order of initialisation.
BuildsLibrary ==
    \A u \in Units : Ready(u) =>
        \A p \in Provided : Build(p.interface, p.scheme) = p.creator
=============================================================================
