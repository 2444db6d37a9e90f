------------------------- MODULE ProvingServerProofs -------------------------
(***************************************************************************)
(* Theorems about the proving server for every set of calls, circuits and  *)
(* inputs, whatever keys and files it finds and however often it crashes.  *)
(***************************************************************************)
EXTENDS ProvingServer, TLAPS

Values == Circuits \cup Nat \cup {Nobody}

\* A call is only where calls of its kind get.
KindFits ==
    \A c \in Calls :
        /\ pc[c] \in {"locking", "proving", "writing"} => Proves(c)
        /\ pc[c] = "checking" => Kind(c) = "evm"
        /\ pc[c] \in Loading => Proves(c) \/ Kind(c) = "load"
        /\ pc[c] = "loaded" => Kind(c) = "load"
        /\ pc[c] \in {"clear srs", "clear pinning", "clear pk"} => Kind(c) = "reset"

\* What a call has loaded is what belongs to its circuit.
HasPinning == {"insert pinning", "srs", "insert srs", "pk", "insert pk",
               "loaded", "proving", "writing"}
HasSrs == HasPinning \ {"insert pinning", "srs"}
HasKey == HasSrs \ {"insert srs", "pk"}
GotTrue ==
    /\ got \in [Calls -> [pinning : Values, srs : Values, pk : Values]]
    /\ \A c \in Calls :
          /\ pc[c] \in HasPinning => got[c].pinning = Id(c)
          /\ pc[c] \in HasSrs => got[c].srs = K[Id(c)]
          /\ pc[c] \in HasKey => got[c].pk = Id(c)

\* A file is whole, or being written, or cut; and there is one wherever a proof
\* has been computed.
FilesTrue ==
    \A p \in Paths :
        /\ file[p] \in {Absent, Partial, Whole(p)}
        /\ file[p] = Partial =>
              p \in cut \/ \E c \in Calls : pc[c] = "writing" /\ Path(c) = p
ProvedFiled ==
    OutDir => \A p \in Paths \ cut :
        proved[p] <= 1 /\ (file[p] = Absent => proved[p] = 0)

\* The check for a file holds until the proof is computed.
CheckHolds ==
    OutDir => \A c \in Calls :
        Kind(c) = "evm" /\ pc[c] \in Loading \cup {"proving"}
            => file[Path(c)] = Absent

DiskTrue == FilesTrue /\ ProvedFiled /\ CheckHolds
Inv == TypeOK /\ KindFits /\ GotTrue /\ MutexHeldByProver /\ DiskTrue /\ AnswersAreOwn

Places == Loading \cup Ended \cup
    {"new", "locking", "checking", "loaded", "proving", "writing",
     "clear srs", "clear pinning", "clear pk"}

LEMMA CallTypes ==
  ASSUME NEW c \in Calls
  PROVE  /\ Id(c) \in Circuits /\ K[Id(c)] \in Nat /\ Kind(c) \in Kinds
         /\ CallOf[c] \in Paths /\ Path(c) = CallOf[c]
  BY ServerAssumption DEF Id, Kind, Paths, Path

LEMMA Initially == Init => Inv
  <1> SUFFICES ASSUME Init PROVE Inv
    OBVIOUS
  <1> USE DEF Init
  <1>1. DOMAIN Empty = {}
    BY DEF Empty
  <1>2. TypeOK
    BY <1>1, ServerAssumption DEF TypeOK, CachesTrue
  <1>3. KindFits
    BY DEF KindFits, Loading
  <1>4. GotTrue
    BY DEF GotTrue, Nothing, Values, HasPinning, HasSrs, HasKey
  <1>5. MutexHeldByProver
    BY ServerAssumption DEF MutexHeldByProver, UnderMutex, Loading
  <1>6. DiskTrue
    BY ServerAssumption DEF DiskTrue, FilesTrue, ProvedFiled, CheckHolds, Loading
  <1>7. AnswersAreOwn
    BY DEF AnswersAreOwn
  <1>8. QED
    BY <1>2, <1>3, <1>4, <1>5, <1>6, <1>7 DEF Inv

-----------------------------------------------------------------------------
(* A call moves on, with the mutex and the disk as they are.               *)

MovesOn(c, w) ==
    /\ pc' = [pc EXCEPT ![c] = w]
    /\ w \in Places \ {"writing", "answered"} /\ pc[c] # "writing"
    /\ UNCHANGED <<mutex, disk, answer, crashes>>
    /\ UnderMutex(c) <=> Proves(c) /\ w \in Loading \cup {"checking", "proving"}
    /\ OutDir /\ Kind(c) = "evm" /\ w \in Loading \cup {"proving"}
          => file[Path(c)] = Absent
    /\ /\ w \in {"locking", "proving"} => Proves(c)
       /\ w = "checking" => Kind(c) = "evm"
       /\ w \in Loading => Proves(c) \/ Kind(c) = "load"
       /\ w = "loaded" => Kind(c) = "load"
       /\ w \in {"clear srs", "clear pinning", "clear pk"} => Kind(c) = "reset"

LEMMA MovesOnKeeps ==
  ASSUME Inv, NEW c \in Calls, NEW w, MovesOn(c, w)
  PROVE  KindFits' /\ MutexHeldByProver' /\ DiskTrue' /\ AnswersAreOwn'
         /\ pc' \in [Calls -> Places]
  <1> USE DEF Inv, MovesOn
  <1>1. /\ pc' \in [Calls -> Places]
        /\ \A d \in Calls : pc'[d] = IF d = c THEN w ELSE pc[d]
    BY DEF TypeOK, Places
  <1>2. KindFits'
    BY <1>1 DEF KindFits, Proves, Kind
  <1>3. MutexHeldByProver'
    BY <1>1 DEF MutexHeldByProver, UnderMutex, Proves, Kind
  <1>4. FilesTrue'
    BY <1>1 DEF DiskTrue, FilesTrue, disk, Path
  <1>5. ProvedFiled'
    BY DEF DiskTrue, ProvedFiled, disk
  <1>6. CheckHolds'
    BY <1>1 DEF DiskTrue, CheckHolds, disk, Kind, Path
  <1>7. AnswersAreOwn'
    BY <1>1 DEF AnswersAreOwn, disk, Proves, Kind, Path
  <1>8. QED
    BY <1>1, <1>2, <1>3, <1>4, <1>5, <1>6, <1>7 DEF DiskTrue

LEMMA GotKeeps ==
  ASSUME Inv, NEW c \in Calls, NEW w,
         NEW g \in [pinning : Values, srs : Values, pk : Values],
         pc' = [pc EXCEPT ![c] = w], got' = [got EXCEPT ![c] = g],
         w \in HasPinning => g.pinning = Id(c),
         w \in HasSrs => g.srs = K[Id(c)],
         w \in HasKey => g.pk = Id(c)
  PROVE  GotTrue'
  <1> USE DEF Inv
  <1>1. got' \in [Calls -> [pinning : Values, srs : Values, pk : Values]]
    BY DEF GotTrue
  <1>2. \A d \in Calls : /\ pc'[d] = IF d = c THEN w ELSE pc[d]
                         /\ got'[d] = IF d = c THEN g ELSE got[d]
    BY DEF TypeOK, GotTrue
  <1>3. QED
    BY <1>1, <1>2 DEF GotTrue, Id

\* A cache that has under each key what belongs there still does after an insertion.
LEMMA PutTrue ==
  ASSUME NEW f, NEW S, DOMAIN f \subseteq S, \A y \in DOMAIN f : f[y] = y, NEW x \in S
  PROVE  /\ DOMAIN Put(f, x, x) \subseteq S
         /\ \A y \in DOMAIN Put(f, x, x) : Put(f, x, x)[y] = y
  BY DEF Put

LEMMA TypesKeep ==
  ASSUME Inv, pc' \in [Calls -> Places], CachesTrue', UNCHANGED <<mutex, disk, answer, crashes>>
  PROVE  TypeOK'
  BY DEF Inv, TypeOK, disk, Places

LEMMA PostKeeps ==
  ASSUME Inv, NEW c \in Calls, Post(c)
  PROVE  Inv'
  <1> USE DEF Inv
  <1>1. PICK w \in {"locking", "pinning", "clear srs"} :
           /\ pc[c] = "new" /\ pc' = [pc EXCEPT ![c] = w]
           /\ w = "locking" => Proves(c)
           /\ w = "pinning" => Kind(c) = "load"
           /\ w = "clear srs" => Kind(c) = "reset"
    BY CallTypes DEF Post, Goto, Kinds, Proves
  <1>2. UNCHANGED <<mutex, caches, got, disk, answer, crashes>>
    BY DEF Post
  <1>3. MovesOn(c, w)
    BY <1>1, <1>2 DEF MovesOn, Places, Loading, UnderMutex, Proves
  <1>4. got' = [got EXCEPT ![c] = got[c]] /\
        got[c] \in [pinning : Values, srs : Values, pk : Values]
    BY <1>2 DEF GotTrue
  <1>5. GotTrue'
    BY <1>1, <1>4, GotKeeps DEF HasPinning, HasSrs, HasKey
  <1>6. CachesTrue'
    BY <1>2 DEF TypeOK, CachesTrue, caches
  <1>7. QED
    BY <1>2, <1>3, <1>5, <1>6, MovesOnKeeps, TypesKeep

LEMMA PinningKeeps ==
  ASSUME Inv, NEW c \in Calls, LookUpPinning(c) \/ InsertPinning(c)
  PROVE  Inv'
  <1> USE DEF Inv
  <1>1. UNCHANGED <<mutex, srs, pk, disk, answer, crashes>>
    BY DEF LookUpPinning, InsertPinning, caches
  <1>2. /\ pc[c] \in {"pinning", "insert pinning"}
        /\ Proves(c) \/ Kind(c) = "load"
        /\ UnderMutex(c) <=> Proves(c)
        /\ OutDir /\ Kind(c) = "evm" => file[Path(c)] = Absent
    BY DEF LookUpPinning, InsertPinning, KindFits, DiskTrue, CheckHolds, Loading, UnderMutex
  <1>3. got[c] \in [pinning : Values, srs : Values, pk : Values] /\ Id(c) \in Values
    BY CallTypes DEF GotTrue, Values
  <1>4. CASE LookUpPinning(c)
    <2>1. PICK w \in {"srs", "insert pinning"} :
             /\ pc' = [pc EXCEPT ![c] = w]
             /\ got' = [got EXCEPT ![c] = [got[c] EXCEPT !.pinning = Id(c)]]
      BY <1>4 DEF LookUpPinning, Have, Goto, TypeOK, CachesTrue
    <2>2. MovesOn(c, w)
      BY <1>1, <1>2, <2>1 DEF MovesOn, Places, Loading
    <2>3. [got[c] EXCEPT !.pinning = Id(c)] \in [pinning : Values, srs : Values, pk : Values]
      BY <1>3
    <2>4. GotTrue'
      BY <1>3, <2>1, <2>3, GotKeeps DEF HasPinning, HasSrs, HasKey
    <2>5. CachesTrue'
      BY <1>4 DEF LookUpPinning, TypeOK, CachesTrue, caches
    <2>6. QED
      BY <1>1, <2>2, <2>4, <2>5, MovesOnKeeps, TypesKeep
  <1>5. CASE InsertPinning(c)
    <2>1. /\ pc[c] = "insert pinning" /\ pc' = [pc EXCEPT ![c] = "srs"]
          /\ pinning' = Put(pinning, Id(c), got[c].pinning)
          /\ got' = [got EXCEPT ![c] = got[c]] /\ got[c].pinning = Id(c)
      BY <1>5 DEF InsertPinning, Goto, GotTrue, HasPinning
    <2>2. MovesOn(c, "srs")
      BY <1>1, <1>2, <2>1 DEF MovesOn, Places, Loading
    <2>3. GotTrue'
      BY <1>3, <2>1, GotKeeps DEF HasPinning, HasSrs, HasKey
    <2>4. CachesTrue'
      <3>1. Id(c) \in Circuits /\ pinning' = Put(pinning, Id(c), Id(c))
        BY <2>1, CallTypes
      <3>2. DOMAIN pinning \subseteq Circuits /\ \A id \in DOMAIN pinning : pinning[id] = id
        BY DEF TypeOK, CachesTrue
      <3>3. QED
        BY <1>1, <3>1, <3>2, PutTrue DEF TypeOK, CachesTrue
    <2>5. QED
      BY <1>1, <2>2, <2>3, <2>4, MovesOnKeeps, TypesKeep
  <1>6. QED
    BY <1>4, <1>5

LEMMA SrsKeeps ==
  ASSUME Inv, NEW c \in Calls, LookUpSrs(c) \/ InsertSrs(c)
  PROVE  Inv'
  <1> USE DEF Inv
  <1>1. UNCHANGED <<mutex, pinning, pk, disk, answer, crashes>>
    BY DEF LookUpSrs, InsertSrs, caches
  <1>2. /\ pc[c] \in {"srs", "insert srs"}
        /\ Proves(c) \/ Kind(c) = "load"
        /\ UnderMutex(c) <=> Proves(c)
        /\ OutDir /\ Kind(c) = "evm" => file[Path(c)] = Absent
    BY DEF LookUpSrs, InsertSrs, KindFits, DiskTrue, CheckHolds, Loading, UnderMutex
  <1>3. /\ got[c] \in [pinning : Values, srs : Values, pk : Values]
        /\ got[c].pinning = Id(c) /\ K[Id(c)] \in Values /\ K[Id(c)] \in Nat
    BY <1>2, CallTypes DEF GotTrue, Values, HasPinning
  <1>4. CASE LookUpSrs(c)
    <2>1. PICK w \in {"pk", "insert srs"} :
             /\ pc' = [pc EXCEPT ![c] = w]
             /\ got' = [got EXCEPT ![c] = [got[c] EXCEPT !.srs = K[Id(c)]]]
      BY <1>3, <1>4 DEF LookUpSrs, Have, Goto, TypeOK, CachesTrue
    <2>2. MovesOn(c, w)
      BY <1>1, <1>2, <2>1 DEF MovesOn, Places, Loading
    <2>3. /\ [got[c] EXCEPT !.srs = K[Id(c)]] \in [pinning : Values, srs : Values, pk : Values]
          /\ [got[c] EXCEPT !.srs = K[Id(c)]].pinning = Id(c)
          /\ [got[c] EXCEPT !.srs = K[Id(c)]].srs = K[Id(c)]
      BY <1>3
    <2>4. GotTrue'
      BY <2>1, <2>3, GotKeeps DEF HasPinning, HasSrs, HasKey
    <2>5. CachesTrue'
      BY <1>4 DEF LookUpSrs, TypeOK, CachesTrue, caches
    <2>6. QED
      BY <1>1, <2>2, <2>4, <2>5, MovesOnKeeps, TypesKeep
  <1>5. CASE InsertSrs(c)
    <2>1. /\ pc[c] = "insert srs" /\ pc' = [pc EXCEPT ![c] = "pk"]
          /\ srs' = Put(srs, got[c].srs, got[c].srs)
          /\ got' = [got EXCEPT ![c] = got[c]] /\ got[c].srs = K[Id(c)]
      BY <1>5 DEF InsertSrs, Goto, GotTrue, HasPinning, HasSrs
    <2>2. MovesOn(c, "pk")
      BY <1>1, <1>2, <2>1 DEF MovesOn, Places, Loading
    <2>3. GotTrue'
      BY <1>3, <2>1, GotKeeps DEF HasPinning, HasSrs, HasKey
    <2>4. CachesTrue'
      <3>1. K[Id(c)] \in Nat /\ srs' = Put(srs, K[Id(c)], K[Id(c)])
        BY <1>3, <2>1
      <3>2. DOMAIN srs \subseteq Nat /\ \A k \in DOMAIN srs : srs[k] = k
        BY DEF TypeOK, CachesTrue
      <3>3. QED
        BY <1>1, <3>1, <3>2, PutTrue DEF TypeOK, CachesTrue
    <2>5. QED
      BY <1>1, <2>2, <2>3, <2>4, MovesOnKeeps, TypesKeep
  <1>6. QED
    BY <1>4, <1>5

LEMMA KeyKeeps ==
  ASSUME Inv, NEW c \in Calls, LookUpKey(c) \/ InsertKey(c)
  PROVE  Inv'
  <1> USE DEF Inv
  <1>1. UNCHANGED <<mutex, pinning, srs, disk, answer, crashes>>
    BY DEF LookUpKey, InsertKey, caches
  <1>2. /\ pc[c] \in {"pk", "insert pk"}
        /\ Proves(c) \/ Kind(c) = "load"
        /\ UnderMutex(c) <=> Proves(c)
        /\ OutDir /\ Kind(c) = "evm" => file[Path(c)] = Absent
    BY DEF LookUpKey, InsertKey, KindFits, DiskTrue, CheckHolds, Loading, UnderMutex
  <1>3. /\ got[c] \in [pinning : Values, srs : Values, pk : Values]
        /\ got[c].pinning = Id(c) /\ got[c].srs = K[Id(c)]
        /\ Id(c) \in Values /\ Id(c) \in Circuits
    BY <1>2, CallTypes DEF GotTrue, Values, HasPinning, HasSrs
  <1>4. \A w \in {Built(c), "insert pk"} :
           pc' = [pc EXCEPT ![c] = w] => MovesOn(c, w)
    BY <1>1, <1>2 DEF MovesOn, Places, Loading, Built, Proves
  <1>5. CASE LookUpKey(c)
    <2>1. PICK w \in {Built(c), "insert pk"} :
             /\ pc' = [pc EXCEPT ![c] = w]
             /\ got' = [got EXCEPT ![c] = [got[c] EXCEPT !.pk = Id(c)]]
      BY <1>5 DEF LookUpKey, Have, Goto, TypeOK, CachesTrue
    <2>2. MovesOn(c, w)
      BY <1>4, <2>1
    <2>3. /\ [got[c] EXCEPT !.pk = Id(c)] \in [pinning : Values, srs : Values, pk : Values]
          /\ [got[c] EXCEPT !.pk = Id(c)].pinning = Id(c)
          /\ [got[c] EXCEPT !.pk = Id(c)].srs = K[Id(c)]
          /\ [got[c] EXCEPT !.pk = Id(c)].pk = Id(c)
      BY <1>3
    <2>4. GotTrue'
      BY <2>1, <2>3, GotKeeps
    <2>5. CachesTrue'
      BY <1>5 DEF LookUpKey, TypeOK, CachesTrue, caches
    <2>6. QED
      BY <1>1, <2>2, <2>4, <2>5, MovesOnKeeps, TypesKeep
  <1>6. CASE InsertKey(c)
    <2>1. /\ pc[c] = "insert pk" /\ pc' = [pc EXCEPT ![c] = Built(c)]
          /\ pk' = Put(pk, Id(c), got[c].pk)
          /\ got' = [got EXCEPT ![c] = got[c]] /\ got[c].pk = Id(c)
      BY <1>6 DEF InsertKey, Goto, GotTrue, HasPinning, HasSrs, HasKey
    <2>2. MovesOn(c, Built(c))
      BY <1>4, <2>1
    <2>3. GotTrue'
      BY <1>3, <2>1, GotKeeps
    <2>4. CachesTrue'
      <3>1. Id(c) \in Circuits /\ pk' = Put(pk, Id(c), Id(c))
        BY <1>3, <2>1
      <3>2. DOMAIN pk \subseteq Circuits /\ \A id \in DOMAIN pk : pk[id] = id
        BY DEF TypeOK, CachesTrue
      <3>3. QED
        BY <1>1, <3>1, <3>2, PutTrue DEF TypeOK, CachesTrue
    <2>5. QED
      BY <1>1, <2>2, <2>3, <2>4, MovesOnKeeps, TypesKeep
  <1>7. QED
    BY <1>5, <1>6

-----------------------------------------------------------------------------
(* The mutex, and a call that ends.                                        *)

LEMMA LockKeeps ==
  ASSUME Inv, NEW c \in Calls, Lock(c)
  PROVE  Inv'
  <1> USE DEF Inv
  <1>1. PICK w \in {"checking", "pinning"} :
           /\ pc' = [pc EXCEPT ![c] = w]
           /\ w = "checking" <=> Kind(c) = "evm"
    BY DEF Lock, Goto
  <1>2. /\ pc[c] = "locking" /\ mutex = Nobody /\ mutex' = c /\ Proves(c)
        /\ UNCHANGED <<caches, got, disk, answer, crashes>>
    BY DEF Lock, KindFits
  <1>3. /\ pc' \in [Calls -> Places]
        /\ \A d \in Calls : pc'[d] = IF d = c THEN w ELSE pc[d]
    BY <1>1 DEF TypeOK, Places, Loading
  <1>4. \A d \in Calls : ~ UnderMutex(d)
    BY <1>2, ServerAssumption DEF MutexHeldByProver
  <1>5. TypeOK'
    BY <1>2, <1>3 DEF TypeOK, CachesTrue, Places, caches, disk
  <1>6. KindFits'
    BY <1>1, <1>2, <1>3 DEF KindFits, Proves, Kind
  <1>7. GotTrue'
    BY <1>2, <1>3 DEF GotTrue, HasPinning, HasSrs, HasKey, Id
  <1>8. MutexHeldByProver'
    BY <1>2, <1>3, <1>4 DEF MutexHeldByProver, UnderMutex, Proves, Kind, Loading
  <1>9. FilesTrue' /\ ProvedFiled'
    BY <1>2, <1>3 DEF DiskTrue, FilesTrue, ProvedFiled, disk, Path
  <1>10. CheckHolds'
    BY <1>1, <1>2, <1>3 DEF DiskTrue, CheckHolds, disk, Kind, Path, Loading
  <1>11. AnswersAreOwn'
    BY <1>2, <1>3 DEF AnswersAreOwn, disk, Proves, Kind, Path
  <1>12. QED
    BY <1>5, <1>6, <1>7, <1>8, <1>9, <1>10, <1>11 DEF DiskTrue

\* A call ends with an answer that is its own, if it is one that proves.
Own(c, proof) ==
    proof = Whole(CallOf[c]) \/ (proof = Partial /\ Path(c) \in cut)
Ends(c, how) ==
    /\ Return(c, how) /\ how \in {"answered", "failed"}
    /\ DOMAIN answer' = Calls
    /\ \A d \in Calls \ {c} : answer'[d] = answer[d]
    /\ Proves(c) /\ how = "answered" => Own(c, answer'[c])
    /\ cut \subseteq cut' /\ crashes' = crashes

LEMMA EndsKeeps ==
  ASSUME Inv, NEW c \in Calls, NEW how, Ends(c, how)
  PROVE  /\ pc' \in [Calls -> Places] /\ mutex' \in Calls \cup {Nobody}
         /\ \A d \in Calls : pc'[d] = IF d = c THEN how ELSE pc[d]
         /\ KindFits' /\ GotTrue' /\ MutexHeldByProver' /\ AnswersAreOwn'
  <1> USE DEF Inv
  <1>1. /\ pc' \in [Calls -> Places]
        /\ \A d \in Calls : pc'[d] = IF d = c THEN how ELSE pc[d]
    BY DEF TypeOK, Places, Ends, Return, Goto, Ended
  <1>2. how \in {"answered", "failed"} /\ mutex' = IF mutex = c THEN Nobody ELSE mutex
    BY DEF Ends, Return
  <1>3. mutex' \in Calls \cup {Nobody}
    BY <1>2 DEF TypeOK
  <1>4. KindFits'
    BY <1>1, <1>2 DEF KindFits, Proves, Kind, Loading
  <1>5. GotTrue'
    <2>1. Nothing \in [pinning : Values, srs : Values, pk : Values]
      BY DEF Nothing, Values
    <2>2. pc' = [pc EXCEPT ![c] = how] /\ got' = [got EXCEPT ![c] = Nothing]
      BY DEF Ends, Return, Goto
    <2>3. QED
      BY <1>2, <2>1, <2>2, GotKeeps DEF HasPinning, HasSrs, HasKey
  <1>6. MutexHeldByProver'
    <2>1. \A d \in Calls : d # Nobody
      BY ServerAssumption
    <2>2. ~ UnderMutex(c)'
      BY <1>1, <1>2 DEF UnderMutex, Loading
    <2>3. \A d \in Calls \ {c} : UnderMutex(d)' <=> UnderMutex(d)
      BY <1>1 DEF UnderMutex, Proves, Kind
    <2>4. QED
      BY <1>2, <2>1, <2>2, <2>3 DEF MutexHeldByProver
  <1>7. AnswersAreOwn'
    <2>1. \A d \in Calls : Proves(d)' = Proves(d)
      BY DEF Proves, Kind
    <2>2. SUFFICES ASSUME NEW d \in Calls, Proves(d), pc'[d] = "answered"
                   PROVE  answer'[d] = Whole(CallOf[d])
                          \/ (answer'[d] = Partial /\ Path(d) \in cut')
      BY <2>1 DEF AnswersAreOwn, Whole, Path
    <2>3. CASE d = c
      BY <1>1, <2>2, <2>3 DEF Ends, Own
    <2>4. CASE d # c
      BY <1>1, <2>2, <2>4 DEF Ends, AnswersAreOwn
    <2>5. QED
      BY <2>3, <2>4
  <1>8. QED
    BY <1>1, <1>3, <1>4, <1>5, <1>6, <1>7

\* Ending without a change of the files.
LEMMA ReturnKeeps ==
  ASSUME Inv, NEW c \in Calls, NEW how, Ends(c, how), pc[c] # "writing",
         CachesTrue', UNCHANGED disk
  PROVE  Inv'
  <1> USE DEF Inv
  <1>1. \A d \in Calls : pc'[d] = IF d = c THEN how ELSE pc[d]
    BY EndsKeeps
  <1>2. TypeOK'
    BY EndsKeeps DEF TypeOK, Places, disk, Ends
  <1>3. FilesTrue' /\ ProvedFiled'
    BY <1>1 DEF DiskTrue, FilesTrue, ProvedFiled, disk, Path
  <1>4. CheckHolds'
    BY <1>1 DEF DiskTrue, CheckHolds, disk, Kind, Path, Ends, Loading
  <1>5. QED
    BY <1>2, <1>3, <1>4, EndsKeeps DEF DiskTrue

\* Of a proof nobody is writing, there is all, nothing or a piece that was cut.
LEMMA NoneWriting ==
  ASSUME Inv, NEW c \in Calls, mutex = c, pc[c] # "writing", NEW p \in Paths
  PROVE  file[p] \in {Absent, Whole(p)} \/ (file[p] = Partial /\ p \in cut)
  <1>1. \A d \in Calls : pc[d] # "writing"
    BY DEF Inv, MutexHeldByProver, UnderMutex, KindFits
  <1>2. QED
    BY <1>1 DEF Inv, DiskTrue, FilesTrue

LEMMA CheckFileKeeps ==
  ASSUME Inv, NEW c \in Calls, CheckFile(c)
  PROVE  Inv'
  <1> USE DEF Inv
  <1>1. /\ pc[c] = "checking" /\ UNCHANGED <<caches, disk, crashes>>
        /\ Kind(c) = "evm" /\ Proves(c) /\ UnderMutex(c) /\ mutex = c
    BY DEF CheckFile, KindFits, Proves, UnderMutex, MutexHeldByProver
  <1>2. CachesTrue'
    BY <1>1 DEF TypeOK, CachesTrue, caches
  <1>3. CASE OutDir /\ file[Path(c)] # Absent
    <2>1. Answer(c, file[Path(c)])
      BY <1>3 DEF CheckFile
    <2>2. Own(c, file[Path(c)])
      BY <1>1, <1>3, NoneWriting, CallTypes DEF Own
    <2>3. Ends(c, "answered")
      BY <1>1, <2>1, <2>2 DEF Ends, Answer, TypeOK, disk
    <2>4. QED
      BY <1>1, <1>2, <2>3, ReturnKeeps
  <1>4. CASE ~ (OutDir /\ file[Path(c)] # Absent)
    <2>1. pc' = [pc EXCEPT ![c] = "pinning"] /\ UNCHANGED <<mutex, got, answer>>
      BY <1>4 DEF CheckFile, Goto
    <2>2. MovesOn(c, "pinning")
      BY <1>1, <1>4, <2>1 DEF MovesOn, Places, Loading
    <2>3. got' = [got EXCEPT ![c] = got[c]] /\
          got[c] \in [pinning : Values, srs : Values, pk : Values]
      BY <2>1 DEF GotTrue
    <2>4. GotTrue'
      BY <2>1, <2>3, GotKeeps DEF HasPinning, HasSrs, HasKey
    <2>5. QED
      BY <1>1, <1>2, <2>1, <2>2, <2>4, MovesOnKeeps, TypesKeep
  <1>5. QED
    BY <1>3, <1>4

\* An error, the end of /internal/circuit-data, and reset.
LEMMA OthersKeep ==
  ASSUME Inv, NEW c \in Calls,
         LoadFails(c) \/ ProveFails(c) \/ CircuitLoaded(c) \/ Clear(c)
  PROVE  Inv'
  <1> USE DEF Inv
  <1>1. UNCHANGED <<disk, answer, crashes>>
    BY DEF LoadFails, ProveFails, CircuitLoaded, Clear
  <1>2. CachesTrue'
    BY DEF LoadFails, ProveFails, CircuitLoaded, Clear, TypeOK, CachesTrue, caches, Empty
  <1>3. CASE LoadFails(c) \/ ProveFails(c)
    <2>1. Ends(c, "failed") /\ pc[c] # "writing"
      BY <1>1, <1>3 DEF LoadFails, ProveFails, Ends, TypeOK, disk
    <2>2. QED
      BY <1>1, <1>2, <2>1, ReturnKeeps
  <1>4. CASE CircuitLoaded(c)
    <2>1. Ends(c, "answered") /\ pc[c] # "writing"
      BY <1>1, <1>4 DEF CircuitLoaded, Ends, TypeOK, disk, KindFits, Proves
    <2>2. QED
      BY <1>1, <1>2, <2>1, ReturnKeeps
  <1>5. CASE Clear(c) /\ pc[c] = "clear pk"
    <2>1. Ends(c, "answered") /\ pc[c] # "writing"
      BY <1>1, <1>5 DEF Clear, Ends, TypeOK, disk, KindFits, Proves
    <2>2. QED
      BY <1>1, <1>2, <2>1, ReturnKeeps
  <1>6. CASE Clear(c) /\ pc[c] # "clear pk"
    <2>1. /\ Kind(c) = "reset" /\ UNCHANGED <<mutex, got>>
          /\ pc[c] \in {"clear srs", "clear pinning"}
      BY <1>6 DEF Clear, KindFits
    <2>2. PICK w \in {"clear pinning", "clear pk"} : pc' = [pc EXCEPT ![c] = w]
      BY <1>6 DEF Clear, Goto
    <2>3. MovesOn(c, w)
      BY <1>1, <2>1, <2>2 DEF MovesOn, Places, Loading, UnderMutex, Proves
    <2>4. got' = [got EXCEPT ![c] = got[c]] /\
          got[c] \in [pinning : Values, srs : Values, pk : Values]
      BY <2>1 DEF GotTrue
    <2>5. GotTrue'
      BY <2>2, <2>4, GotKeeps DEF HasPinning, HasSrs, HasKey
    <2>6. QED
      BY <1>1, <1>2, <2>1, <2>3, <2>5, MovesOnKeeps, TypesKeep
  <1>7. QED
    BY <1>3, <1>4, <1>5, <1>6

-----------------------------------------------------------------------------
(* Proving, writing and crashing.                                          *)

\* The call that holds the mutex has loaded what belongs to its circuit.
LEMMA AtProof ==
  ASSUME Inv, NEW c \in Calls, pc[c] \in {"proving", "writing"}
  PROVE  /\ Proves(c) /\ mutex = c /\ Path(c) \in Paths /\ Path(c) = CallOf[c]
         /\ Proof(got[c], Path(c)) = Whole(CallOf[c])
         /\ \A d \in Calls \ {c} : ~ UnderMutex(d)
         /\ \A d \in Calls \ {c} : pc[d] # "writing"
  <1> USE DEF Inv
  <1>1. Proves(c) /\ UnderMutex(c) /\ mutex = c
    BY DEF KindFits, UnderMutex, MutexHeldByProver
  <1>2. \A d \in Calls \ {c} : ~ UnderMutex(d)
    BY <1>1 DEF MutexHeldByProver
  <1>3. \A d \in Calls \ {c} : pc[d] # "writing"
    BY <1>2 DEF KindFits, UnderMutex
  <1>4. /\ got[c].pinning = Id(c) /\ got[c].srs = K[Id(c)] /\ got[c].pk = Id(c)
    BY DEF GotTrue, HasPinning, HasSrs, HasKey
  <1>5. Proof(got[c], Path(c)) = Whole(CallOf[c])
    BY <1>4 DEF Proof, Whole, Path, Id
  <1>6. QED
    BY <1>1, <1>2, <1>3, <1>5, CallTypes

\* ComputeProof, called when no file holds the proof.
LEMMA ComputeKeeps ==
  ASSUME Inv, NEW c \in Calls, pc[c] = "proving", ComputeProof(c),
         OutDir => file[Path(c)] \in {Absent, Partial}
  PROVE  Inv'
  <1> USE DEF Inv
  <1> DEFINE p == Path(c)
  <1>1. /\ Proves(c) /\ mutex = c /\ p \in Paths /\ p = CallOf[c]
        /\ Proof(got[c], p) = Whole(CallOf[c])
        /\ \A d \in Calls \ {c} : ~ UnderMutex(d)
        /\ \A d \in Calls \ {c} : pc[d] # "writing"
    BY AtProof
  <1>2. /\ proved' = [proved EXCEPT ![p] = @ + 1]
        /\ UNCHANGED <<caches, crashes, cut>>
    BY DEF ComputeProof, Compute
  <1>3. /\ proved' \in [Paths -> Nat]
        /\ \A q \in Paths : proved'[q] = IF q = p THEN proved[p] + 1 ELSE proved[q]
    <2>1. proved \in [Paths -> Nat]
      BY DEF TypeOK
    <2>2. p \in Paths /\ proved[p] + 1 \in Nat
      BY <1>1, <2>1
    <2>3. proved' = [proved EXCEPT ![p] = proved[p] + 1]
      BY <1>2
    <2> HIDE DEF p, Inv
    <2>4. QED
      BY <2>1, <2>2, <2>3
  <1>4. CachesTrue'
    BY <1>2 DEF TypeOK, CachesTrue, caches
  <1>5. CASE OutDir
    <2>1. /\ file' = [file EXCEPT ![p] = Partial]
          /\ pc' = [pc EXCEPT ![c] = "writing"]
          /\ UNCHANGED <<mutex, got, answer>>
      BY <1>5 DEF ComputeProof, Goto
    <2>2. /\ pc' \in [Calls -> Places]
          /\ \A d \in Calls : pc'[d] = IF d = c THEN "writing" ELSE pc[d]
      BY <2>1 DEF TypeOK, Places
    <2>3. /\ DOMAIN file' = Paths
          /\ \A q \in Paths : file'[q] = IF q = p THEN Partial ELSE file[q]
      BY <2>1 DEF TypeOK
    <2>4. TypeOK'
      BY <1>2, <1>3, <1>4, <2>1, <2>2, <2>3 DEF TypeOK, Places
    <2>5. KindFits'
      BY <1>1, <2>2 DEF KindFits, Proves, Kind, Loading
    <2>6. GotTrue'
      BY <2>1, <2>2 DEF GotTrue, HasPinning, HasSrs, HasKey, Id
    <2>7. MutexHeldByProver'
      BY <1>1, <2>1, <2>2 DEF MutexHeldByProver, UnderMutex, Proves, Kind
    <2>8. FilesTrue'
      <3>1. \A q \in Paths : file'[q] \in {Absent, Partial, Whole(q)}
        BY <2>3 DEF DiskTrue, FilesTrue
      <3>2. ASSUME NEW q \in Paths, file'[q] = Partial
            PROVE  q \in cut \/ \E d \in Calls : pc'[d] = "writing" /\ Path(d) = q
        <4>1. CASE q = p
          BY <2>2, <4>1
        <4>2. CASE q # p
          <5>1. q \in cut \/ \E d \in Calls : pc[d] = "writing" /\ Path(d) = q
            BY <2>3, <3>2, <4>2 DEF DiskTrue, FilesTrue
          <5>2. QED
            BY <2>2, <5>1
        <4>3. QED
          BY <4>1, <4>2
      <3>3. QED
        BY <1>2, <3>1, <3>2 DEF FilesTrue, Path, Whole
    <2>9. ProvedFiled'
      <3>1. SUFFICES ASSUME NEW q \in Paths \ cut
                     PROVE  proved'[q] <= 1 /\ (file'[q] = Absent => proved'[q] = 0)
        BY <1>2 DEF ProvedFiled, Paths
      <3>2. CASE q = p
        <4>1. file[p] = Absent
          BY <1>1, <1>5, <3>2, NoneWriting, AtProof DEF DiskTrue, FilesTrue
        <4>2. proved[p] = 0
          BY <1>1, <1>5, <3>2, <4>1 DEF DiskTrue, ProvedFiled
        <4>3. QED
          BY <1>3, <2>3, <3>2, <4>2, ServerAssumption, <1>1
      <3>3. CASE q # p
        BY <1>3, <1>5, <2>3, <3>3 DEF DiskTrue, ProvedFiled
      <3>4. QED
        BY <3>2, <3>3
    <2>10. CheckHolds'
      BY <1>1, <2>2, <2>7 DEF CheckHolds, UnderMutex, Proves, Kind, Loading
    <2>11. AnswersAreOwn'
      BY <1>2, <2>1, <2>2 DEF AnswersAreOwn, Proves, Kind, Path, Whole
    <2>12. QED
      BY <2>4, <2>5, <2>6, <2>7, <2>8, <2>9, <2>10, <2>11 DEF DiskTrue
  <1>6. CASE ~ OutDir
    <2>1. Answer(c, Whole(CallOf[c])) /\ UNCHANGED file
      BY <1>1, <1>6 DEF ComputeProof
    <2>2. Ends(c, "answered")
      BY <1>2, <2>1 DEF Ends, Answer, TypeOK, Own
    <2>3. \A d \in Calls : pc'[d] = IF d = c THEN "answered" ELSE pc[d]
      BY <2>2, EndsKeeps
    <2>4. TypeOK'
      BY <1>2, <1>3, <1>4, <2>1, <2>2, EndsKeeps DEF TypeOK, Places, Ends
    <2>5. FilesTrue'
      BY <1>2, <2>1, <2>3 DEF DiskTrue, FilesTrue, Path, Whole
    <2>6. ProvedFiled' /\ CheckHolds'
      BY <1>6 DEF ProvedFiled, CheckHolds
    <2>7. QED
      BY <2>2, <2>4, <2>5, <2>6, EndsKeeps DEF DiskTrue
  <1>7. QED
    BY <1>5, <1>6

LEMMA ProveKeeps ==
  ASSUME Inv, NEW c \in Calls, ProveEvm(c) \/ ProveSnark(c)
  PROVE  Inv'
  <1> USE DEF Inv
  <1>1. pc[c] = "proving"
    BY DEF ProveEvm, ProveSnark
  <1>2. /\ Proves(c) /\ mutex = c /\ Path(c) \in Paths /\ Path(c) = CallOf[c]
    BY <1>1, AtProof
  <1>3. CASE ProveEvm(c)
    <2>1. OutDir => file[Path(c)] = Absent
      BY <1>1, <1>3 DEF ProveEvm, DiskTrue, CheckHolds
    <2>2. QED
      BY <1>1, <1>3, <2>1, ComputeKeeps DEF ProveEvm
  <1>4. CASE ProveSnark(c) /\ file[Path(c)] \in {Absent, Partial}
    BY <1>1, <1>4, ComputeKeeps DEF ProveSnark
  <1>5. CASE ProveSnark(c) /\ file[Path(c)] \notin {Absent, Partial}
    <2>1. Answer(c, file[Path(c)]) /\ UNCHANGED <<caches, disk, crashes>>
      BY <1>5 DEF ProveSnark
    <2>2. file[Path(c)] = Whole(CallOf[c])
      BY <1>2, <1>5 DEF DiskTrue, FilesTrue
    <2>3. Ends(c, "answered")
      BY <2>1, <2>2 DEF Ends, Answer, TypeOK, Own, disk
    <2>4. CachesTrue'
      BY <2>1 DEF TypeOK, CachesTrue, caches
    <2>5. QED
      BY <1>1, <2>1, <2>3, <2>4, ReturnKeeps
  <1>6. QED
    BY <1>3, <1>4, <1>5

LEMMA WriteKeeps ==
  ASSUME Inv, NEW c \in Calls, WriteProof(c) \/ WriteFails(c)
  PROVE  Inv'
  <1> USE DEF Inv
  <1> DEFINE p == Path(c)
  <1>1. pc[c] = "writing" /\ UNCHANGED <<caches, proved, crashes>>
    BY DEF WriteProof, WriteFails
  <1>2. /\ p \in Paths /\ p = CallOf[c] /\ Proof(got[c], p) = Whole(p)
        /\ \A d \in Calls \ {c} : ~ UnderMutex(d)
        /\ \A d \in Calls \ {c} : pc[d] # "writing"
    BY <1>1, AtProof
  <1>3. PICK how \in {"answered", "failed"} :
           /\ Ends(c, how) /\ DOMAIN file' = Paths /\ cut' \subseteq Paths
           /\ \A q \in Paths \ {p} : file'[q] = file[q]
           /\ \/ file'[p] = Whole(p) /\ UNCHANGED cut
              \/ file'[p] = file[p] /\ cut' = cut \cup {p}
    <2>1. CASE WriteProof(c)
      <3>1. file' = [file EXCEPT ![p] = Whole(p)] /\ Answer(c, Whole(p)) /\ UNCHANGED cut
        BY <1>2, <2>1 DEF WriteProof
      <3>2. Ends(c, "answered")
        BY <1>1, <1>2, <3>1 DEF Ends, Answer, TypeOK, Own
      <3>3. QED
        BY <1>2, <3>1, <3>2 DEF TypeOK
    <2>2. CASE WriteFails(c)
      <3>1. UNCHANGED <<file, answer>> /\ Return(c, "failed") /\ cut' = cut \cup {p}
        BY <2>2 DEF WriteFails
      <3>2. Ends(c, "failed")
        BY <1>1, <3>1 DEF Ends, TypeOK
      <3>3. QED
        BY <1>2, <3>1, <3>2 DEF TypeOK
    <2>3. QED
      BY <2>1, <2>2
  <1>4. \A d \in Calls : pc'[d] = IF d = c THEN how ELSE pc[d]
    BY <1>3, EndsKeeps
  <1>5. CachesTrue'
    BY <1>1 DEF TypeOK, CachesTrue, caches
  <1>6. TypeOK'
    <2>1. Ends(c, how) /\ pc' \in [Calls -> Places] /\ mutex' \in Calls \cup {Nobody}
      BY <1>3, EndsKeeps
    <2>2. DOMAIN answer' = Calls
      BY <2>1 DEF Ends
    <2>3. QED
      BY <1>1, <1>3, <1>5, <2>1, <2>2 DEF TypeOK, Places
  <1>7. FilesTrue'
    <2>1. \A q \in Paths : file'[q] \in {Absent, Partial, Whole(q)}
      BY <1>2, <1>3 DEF DiskTrue, FilesTrue
    <2>2. ASSUME NEW q \in Paths, file'[q] = Partial
          PROVE  q \in cut' \/ \E d \in Calls : pc'[d] = "writing" /\ Path(d) = q
      <3>1. CASE q = p
        BY <1>2, <1>3, <2>2, <3>1, ProofAssumption
      <3>2. CASE q # p
        <4>1. q \in cut \/ \E d \in Calls : pc[d] = "writing" /\ Path(d) = q
          BY <1>3, <2>2, <3>2 DEF DiskTrue, FilesTrue
        <4>2. QED
          BY <1>3, <1>4, <3>2, <4>1
      <3>3. QED
        BY <3>1, <3>2
    <2>3. QED
      BY <2>1, <2>2 DEF FilesTrue, Path, Whole
  <1>8. ProvedFiled'
    <2>1. SUFFICES ASSUME OutDir, NEW q \in Paths \ cut'
                   PROVE  proved[q] <= 1 /\ (file'[q] = Absent => proved[q] = 0)
      BY <1>1 DEF ProvedFiled, Paths
    <2>2. proved[q] <= 1 /\ (file[q] = Absent => proved[q] = 0)
      BY <1>3, <2>1 DEF DiskTrue, ProvedFiled
    <2>3. QED
      BY <1>2, <1>3, <2>2, ProofAssumption
  <1>9. CheckHolds'
    BY <1>2, <1>3, <1>4 DEF CheckHolds, UnderMutex, Proves, Kind, Loading
  <1>10. QED
    BY <1>3, <1>6, <1>7, <1>8, <1>9, EndsKeeps DEF DiskTrue

LEMMA CrashKeeps ==
  ASSUME Inv, Crash
  PROVE  Inv'
  <1> USE DEF Inv, Crash
  <1>1. /\ pc' \in [Calls -> Places]
        /\ \A c \in Calls : /\ pc'[c] \in Ended \cup {"new"}
                            /\ pc'[c] = "answered" => pc[c] = "answered"
    BY DEF TypeOK, Places, UnderWay, Ended
  <1>2. \A p \in Paths : p \in cut' <=>
           p \in cut \/ \E c \in Calls : pc[c] = "writing" /\ Path(c) = p
    OBVIOUS
  <1>3. TypeOK'
    <2>1. DOMAIN Empty = {}
      BY DEF Empty
    <2>2. \A c \in Calls : Path(c) \in Paths
      BY CallTypes
    <2>3. cut' \subseteq Paths
      BY <2>2 DEF TypeOK
    <2>4. crashes' \in 0 .. MaxCrashes
      <3>1. crashes \in 0 .. MaxCrashes /\ crashes < MaxCrashes /\ crashes' = crashes + 1
        BY DEF TypeOK
      <3>2. MaxCrashes \in Nat
        BY ServerAssumption
      <3> HIDE DEF Inv, Crash
      <3>3. QED
        BY <3>1, <3>2
    <2>5. CachesTrue'
      BY <2>1 DEF CachesTrue
    <2>6. QED
      BY <1>1, <2>3, <2>4, <2>5 DEF TypeOK, Places
  <1>4. KindFits'
    BY <1>1 DEF KindFits, Loading, Ended
  <1>5. GotTrue'
    BY <1>1 DEF GotTrue, Nothing, Values, HasPinning, HasSrs, HasKey, Ended
  <1>6. MutexHeldByProver'
    BY <1>1, ServerAssumption DEF MutexHeldByProver, UnderMutex, Loading, Ended
  <1>7. FilesTrue'
    BY <1>2 DEF DiskTrue, FilesTrue, Path, Whole
  <1>8. ProvedFiled'
    BY <1>2 DEF DiskTrue, ProvedFiled
  <1>9. CheckHolds'
    BY <1>1 DEF CheckHolds, Loading, Ended
  <1>10. AnswersAreOwn'
    BY <1>1 DEF AnswersAreOwn, Proves, Kind, Path, Whole
  <1>11. QED
    BY <1>3, <1>4, <1>5, <1>6, <1>7, <1>8, <1>9, <1>10 DEF DiskTrue

-----------------------------------------------------------------------------
LEMMA Preserved == Inv /\ [Next]_vars => Inv'
  <1> SUFFICES ASSUME Inv, [Next]_vars PROVE Inv'
    OBVIOUS
  <1>1. CASE Crash
    BY <1>1, CrashKeeps
  <1>2. CASE \E c \in Calls : Post(c) \/ Step(c) \/ Fail(c)
    <2>1. PICK c \in Calls : Post(c) \/ Step(c) \/ Fail(c)
      BY <1>2
    <2>2. CASE Load(c)
      BY <2>2, PinningKeeps, SrsKeeps, KeyKeeps, OthersKeep DEF Load
    <2>3. QED
      BY <2>1, <2>2, PostKeeps, LockKeeps, CheckFileKeeps, OthersKeep, ProveKeeps, WriteKeeps
         DEF Step, Fail
  <1>3. CASE UNCHANGED vars
    <2>1. /\ UNCHANGED <<pc, mutex, pinning, srs, pk, got>>
          /\ UNCHANGED <<file, answer, proved, crashes, cut>>
      BY <1>3 DEF vars
    <2>2. (TypeOK /\ KindFits /\ GotTrue)'
      BY <2>1 DEF Inv, TypeOK, CachesTrue, KindFits, GotTrue, Proves, Kind, Id
    <2>3. (MutexHeldByProver /\ AnswersAreOwn)'
      BY <2>1 DEF Inv, MutexHeldByProver, UnderMutex, AnswersAreOwn, Proves, Kind, Path, Whole
    <2>4. DiskTrue'
      BY <2>1 DEF Inv, DiskTrue, FilesTrue, ProvedFiled, CheckHolds, Path, Kind, Whole
    <2>5. QED
      BY <2>2, <2>3, <2>4 DEF Inv
  <1>4. QED
    BY <1>1, <1>2, <1>3 DEF Next

LEMMA Invariant == Spec => []Inv
  BY Initially, Preserved, PTL DEF Spec

\* The variables keep their types, and a cache has under each key what the file of
\* that key held, however its look-up, load and insertion interleave with a reset.
THEOREM TypeCorrect == Spec => []TypeOK
  <1>1. Inv => TypeOK
    BY DEF Inv
  <1>2. QED
    BY <1>1, Invariant, PTL

\* proof_mutex is held exactly while its holder proves.
THEOREM OneProofAtATime == Spec => []MutexHeldByProver
  <1>1. Inv => MutexHeldByProver
    BY DEF Inv
  <1>2. QED
    BY <1>1, Invariant, PTL

\* A call is answered with the proof it asked for, made with the pinning, setup and
\* key of its circuit, or with what is left of a write that was cut.
THEOREM AnswersBelong == Spec => []AnswersAreOwn
  <1>1. Inv => AnswersAreOwn
    BY DEF Inv
  <1>2. QED
    BY <1>1, Invariant, PTL

\* With an out_dir a proof is computed once however often it is asked for.
THEOREM ComputedOnce == Spec => []ProvedOnce
  <1>1. Inv => ProvedOnce
    BY DEF Inv, DiskTrue, ProvedFiled, ProvedOnce
  <1>2. QED
    BY <1>1, Invariant, PTL
=============================================================================
