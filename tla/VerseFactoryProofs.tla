-------------------------- MODULE VerseFactoryProofs --------------------------
(***************************************************************************)
(* Theorems about VerseFactory, for any number of units and registrations. *)
(* The inductive invariant says of each unit which schemes it has          *)
(* registered so far, and that what is there under the library's own       *)
(* interface and scheme is the library's creator: a program's registration *)
(* comes after all six in its unit, and insert keeps what is there.        *)
(***************************************************************************)
EXTENDS VerseFactory, TLAPS

\* What the registrars a unit has run so far are answered with.
InitialisedProvide ==
    \A u \in Units : \A n \in 1 .. initialised[u] :
        LET r == Registrars[n]
        IN  /\ r.scheme \in DOMAIN creator_map_[r.interface]
            /\ creator_map_[r.interface][r.scheme] = r.creator

\* Under an interface and scheme of the library there is nothing else.
OnlyProvided ==
    \A n \in 1 .. 6 :
        LET r == Registrars[n]
        IN  r.scheme \in DOMAIN creator_map_[r.interface] =>
                creator_map_[r.interface][r.scheme] = r.creator

IInv == TypeOK /\ OnlyProvided /\ InitialisedProvide

-----------------------------------------------------------------------------

\* The six registrars.
LEMMA RegistrarsAre ==
    /\ Len(Registrars) = 6
    /\ \A n \in 1 .. 6 : /\ Registrars[n].interface \in Interface
                         /\ Registrars[n].scheme \in OTScheme
                         /\ Registrars[n].creator \in Creator
    /\ \A m, n \in 1 .. 6 : Registrars[m].scheme = Registrars[n].scheme => m = n
    /\ Provided = {Registrars[n] : n \in 1 .. 6}
<1> DEFINE A == Registrar("BaseOtSender", "NaorPinkasSender", "create_naor_pinkas_sender")
           B == Registrar("BaseOtReceiver", "NaorPinkasReceiver", "create_naor_pinkas_receiver")
           C == Registrar("OtExtSender", "IknpSender", "create_iknp_ext_sender")
           D == Registrar("OtExtReceiver", "IknpReceiver", "create_iknp_ext_receiver")
           E == Registrar("NcoOtExtSender", "KkrtSender", "create_kkrt_ext_sender")
           F == Registrar("NcoOtExtReceiver", "KkrtReceiver", "create_kkrt_ext_receiver")
<1>1. Registrars = <<A, B, C, D, E, F>> /\ Provided = {A, B, C, D, E, F}
  BY DEF Registrars, Provided
<1>2. /\ Len(Registrars) = 6
      /\ Registrars[1] = A /\ Registrars[2] = B /\ Registrars[3] = C
      /\ Registrars[4] = D /\ Registrars[5] = E /\ Registrars[6] = F
  <2> HIDE DEF A, B, C, D, E, F
  <2> QED  BY <1>1
<1>3. ASSUME NEW n \in 1 .. 6
      PROVE  n = 1 \/ n = 2 \/ n = 3 \/ n = 4 \/ n = 5 \/ n = 6
  OBVIOUS
<1>4. \A n \in 1 .. 6 : /\ Registrars[n].interface \in Interface
                        /\ Registrars[n].scheme \in OTScheme
                        /\ Registrars[n].creator \in Creator
  BY <1>2, <1>3 DEF Registrar, Interface, OTScheme, Creator
<1>5. \A m, n \in 1 .. 6 : Registrars[m].scheme = Registrars[n].scheme => m = n
  BY <1>2, <1>3 DEF Registrar
<1>6. Provided = {Registrars[n] : n \in 1 .. 6}
  <2> HIDE DEF A, B, C, D, E, F
  <2> QED  BY <1>1, <1>2, <1>3
<1> QED  BY <1>2, <1>4, <1>5, <1>6

\* insert keeps what is there and adds the scheme.
LEMMA InsertedKeeps ==
    ASSUME NEW map \in Maps, NEW scheme \in OTScheme, NEW creator \in Creator \cup Customs
    PROVE  LET new == Inserted(map, scheme, creator)
           IN  /\ new \in Maps
               /\ DOMAIN new = DOMAIN map \cup {scheme}
               /\ \A s \in DOMAIN map : new[s] = map[s]
               /\ scheme \notin DOMAIN map => new[scheme] = creator
<1>1. PICK schemes \in SUBSET OTScheme : map \in [schemes -> Creator \cup Customs]
  BY DEF Maps
<1>2. Inserted(map, scheme, creator) \in [schemes \cup {scheme} -> Creator \cup Customs]
  BY <1>1 DEF Inserted
<1>3. schemes \cup {scheme} \in SUBSET OTScheme
  BY <1>1
<1>4. Inserted(map, scheme, creator) \in Maps
  BY <1>2, <1>3 DEF Maps
<1> QED  BY <1>4 DEF Inserted

\* A registration keeps what was there before.
LEMMA RegisterVerseKeeps ==
    ASSUME TypeOK, NEW T \in Interface, NEW scheme \in OTScheme,
           NEW creator \in Creator \cup Customs, RegisterVerse(T, scheme, creator)
    PROVE  /\ creator_map_' \in [Interface -> Maps]
           /\ \A J \in Interface : \A s \in DOMAIN creator_map_[J] :
                  s \in DOMAIN creator_map_'[J] /\ creator_map_'[J][s] = creator_map_[J][s]
           /\ scheme \in DOMAIN creator_map_'[T]
           /\ \A J \in Interface : \A s \in DOMAIN creator_map_'[J] :
                  s \notin DOMAIN creator_map_[J] =>
                      J = T /\ s = scheme /\ creator_map_'[J][s] = creator
<1>1. creator_map_ \in [Interface -> Maps]
  BY DEF TypeOK
<1> DEFINE new == Inserted(creator_map_[T], scheme, creator)
<1>2. creator_map_' = [creator_map_ EXCEPT ![T] = new]
  BY DEF RegisterVerse
<1>3. /\ new \in Maps
      /\ DOMAIN new = DOMAIN creator_map_[T] \cup {scheme}
      /\ \A s \in DOMAIN creator_map_[T] : new[s] = creator_map_[T][s]
      /\ scheme \notin DOMAIN creator_map_[T] => new[scheme] = creator
  BY <1>1, InsertedKeeps
<1> HIDE DEF new
<1>4. \A J \in Interface : creator_map_'[J] = IF J = T THEN new ELSE creator_map_[J]
  BY <1>1, <1>2
<1>5. creator_map_' \in [Interface -> Maps]
  BY <1>1, <1>2, <1>3
<1> QED  BY <1>3, <1>4, <1>5

LEMMA InitInvariant == Init => IInv
<1> SUFFICES ASSUME Init PROVE IInv
  OBVIOUS
<1>1. <<>> \in Maps
  <2>1. <<>> \in [{} -> Creator \cup Customs] /\ {} \in SUBSET OTScheme
    OBVIOUS
  <2> QED  BY <2>1 DEF Maps
<1>2. TypeOK
  BY <1>1, RegistrarsAre, CustomsAssumption DEF Init, TypeOK
<1>3. OnlyProvided
  BY RegistrarsAre DEF Init, OnlyProvided
<1>4. InitialisedProvide
  BY DEF Init, InitialisedProvide
<1> QED  BY <1>2, <1>3, <1>4 DEF IInv

\* The registrar of the header adds its scheme or finds its own creator there.
LEMMA InitialiseKeeps ==
    ASSUME IInv, NEW u \in Units, Initialise(u)
    PROVE  IInv'
<1> DEFINE k == initialised[u] + 1
           r == Registrars[k]
<1>1. k \in 1 .. 6 /\ initialised' = [initialised EXCEPT ![u] = k] /\ customs' = customs
  BY RegistrarsAre DEF Initialise, IInv, TypeOK
<1>2. /\ r.interface \in Interface /\ r.scheme \in OTScheme /\ r.creator \in Creator
      /\ RegisterVerse(r.interface, r.scheme, r.creator)
  BY <1>1, RegistrarsAre DEF Initialise
<1> HIDE DEF k, r
<1>3. /\ creator_map_' \in [Interface -> Maps]
      /\ \A J \in Interface : \A s \in DOMAIN creator_map_[J] :
             s \in DOMAIN creator_map_'[J] /\ creator_map_'[J][s] = creator_map_[J][s]
      /\ r.scheme \in DOMAIN creator_map_'[r.interface]
      /\ \A J \in Interface : \A s \in DOMAIN creator_map_'[J] :
             s \notin DOMAIN creator_map_[J] =>
                 J = r.interface /\ s = r.scheme /\ creator_map_'[J][s] = r.creator
  BY <1>2, RegisterVerseKeeps DEF IInv
<1>4. TypeOK'
  BY <1>1, <1>3, RegistrarsAre DEF IInv, TypeOK
<1>5. OnlyProvided'
  <2> SUFFICES ASSUME NEW n \in 1 .. 6,
                      Registrars[n].scheme \in DOMAIN creator_map_'[Registrars[n].interface]
               PROVE  creator_map_'[Registrars[n].interface][Registrars[n].scheme]
                          = Registrars[n].creator
    BY DEF OnlyProvided
  <2>1. CASE Registrars[n].scheme \in DOMAIN creator_map_[Registrars[n].interface]
    BY <1>3, <2>1, RegistrarsAre DEF IInv, OnlyProvided
  <2>2. CASE Registrars[n].scheme \notin DOMAIN creator_map_[Registrars[n].interface]
    <3>1. /\ Registrars[n].scheme = r.scheme
          /\ creator_map_'[Registrars[n].interface][Registrars[n].scheme] = r.creator
      BY <1>3, <2>2, RegistrarsAre
    <3>2. n = k
      BY <1>1, <3>1, RegistrarsAre DEF r
    <3> QED  BY <3>1, <3>2 DEF r
  <2> QED  BY <2>1, <2>2
<1>6. InitialisedProvide'
  <2> SUFFICES ASSUME NEW v \in Units, NEW n \in 1 .. initialised'[v]
               PROVE  /\ Registrars[n].scheme \in DOMAIN creator_map_'[Registrars[n].interface]
                      /\ creator_map_'[Registrars[n].interface][Registrars[n].scheme]
                             = Registrars[n].creator
    BY DEF InitialisedProvide
  <2>1. n \in 1 .. 6 /\ (n \in 1 .. initialised[v] \/ n = k)
    BY <1>1, <1>4, RegistrarsAre DEF IInv, TypeOK, k
  <2>2. CASE n \in 1 .. initialised[v]
    BY <1>3, <2>1, <2>2, RegistrarsAre DEF IInv, InitialisedProvide
  <2>3. CASE n = k
    BY <1>3, <1>5, <2>1, <2>3 DEF OnlyProvided, r
  <2> QED  BY <2>1, <2>2, <2>3
<1> QED  BY <1>4, <1>5, <1>6 DEF IInv

\* A program's registration finds all of the library's schemes registered.
LEMMA RegisterCustomKeeps ==
    ASSUME IInv, NEW u \in Units, RegisterCustom(u)
    PROVE  IInv'
<1>1. PICK T \in Interface, scheme \in OTScheme, creator \in Customs :
          RegisterVerse(T, scheme, creator)
  BY DEF RegisterCustom
<1>2. initialised' = initialised /\ initialised[u] = 6 /\ customs' \in 0 .. MaxCustoms
  BY RegistrarsAre, CustomsAssumption DEF RegisterCustom, Ready, IInv, TypeOK
<1>3. /\ creator_map_' \in [Interface -> Maps]
      /\ \A J \in Interface : \A s \in DOMAIN creator_map_[J] :
             s \in DOMAIN creator_map_'[J] /\ creator_map_'[J][s] = creator_map_[J][s]
  BY <1>1, RegisterVerseKeeps DEF IInv
<1>4. TypeOK'
  BY <1>2, <1>3 DEF IInv, TypeOK
<1>5. \A n \in 1 .. 6 :
          /\ Registrars[n].interface \in Interface
          /\ Registrars[n].scheme \in DOMAIN creator_map_[Registrars[n].interface]
  BY <1>2, RegistrarsAre DEF IInv, InitialisedProvide
<1>6. OnlyProvided'
  BY <1>3, <1>5 DEF IInv, OnlyProvided
<1>7. InitialisedProvide'
  <2>1. \A v \in Units : \A n \in 1 .. initialised[v] : n \in 1 .. 6
    BY RegistrarsAre DEF IInv, TypeOK
  <2> QED  BY <1>2, <1>3, <1>5, <2>1 DEF IInv, InitialisedProvide
<1> QED  BY <1>4, <1>6, <1>7 DEF IInv

-----------------------------------------------------------------------------

\* The inductive invariant of the factories.
THEOREM Invariance == Spec => []IInv
<1>1. ASSUME IInv, [Next]_vars
      PROVE  IInv'
  <2>1. CASE Next
    <3>1. PICK u \in Units : Initialise(u) \/ RegisterCustom(u)
      BY <2>1 DEF Next
    <3> QED  BY <1>1, <3>1, InitialiseKeeps, RegisterCustomKeeps
  <2>2. CASE UNCHANGED vars
    BY <1>1, <2>2 DEF vars, IInv, TypeOK, OnlyProvided, InitialisedProvide
  <2> QED  BY <1>1, <2>1, <2>2
<1> QED  BY <1>1, InitInvariant, PTL DEF Spec

\* Every factory maps schemes to creators (register_verse).
THEOREM TypeCorrectness == Spec => []TypeOK
<1>1. IInv => TypeOK
  BY DEF IInv
<1> QED  BY <1>1, Invariance, PTL

\* build gives the code of an initialised unit the library's protocols, in every
\* order of initialisation and whatever programs register.
THEOREM BuildsLibraryHolds == Spec => []BuildsLibrary
<1>1. IInv => BuildsLibrary
  <2> SUFFICES ASSUME IInv, NEW u \in Units, Ready(u), NEW p \in Provided
               PROVE  Build(p.interface, p.scheme) = p.creator
    BY DEF BuildsLibrary
  <2>1. PICK n \in 1 .. 6 : p = Registrars[n]
    BY RegistrarsAre
  <2>2. n \in 1 .. initialised[u]
    BY RegistrarsAre DEF Ready
  <2> QED  BY <2>1, <2>2 DEF IInv, InitialisedProvide, Build
<1> QED  BY <1>1, Invariance, PTL
=============================================================================
