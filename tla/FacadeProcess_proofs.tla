------------------------ MODULE FacadeProcess_proofs ------------------------
(***************************************************************************)
(* Proofs about FacadeProcess, for any number of threads and stores, any   *)
(* nesting and whatever stores their sinks call.                           *)
(***************************************************************************)
EXTENDS FacadeProcess, FiniteSetTheorems, TLAPS

(* What one element more or less makes of a count.                         *)
LEMMA OneMore ==
    ASSUME NEW A, NEW B, NEW x, IsFiniteSet(A), x \notin A, B = A \cup {x}
    PROVE  Cardinality(B) = Cardinality(A) + 1
BY FS_AddElement

(* And one element less.                                                    *)
LEMMA OneLess ==
    ASSUME NEW A, NEW B, NEW x, IsFiniteSet(A), x \in A, B = A \ {x}
    PROVE  Cardinality(B) = Cardinality(A) - 1 /\ IsFiniteSet(B)
BY FS_RemoveElement

(* A count is zero exactly when nobody is left.                             *)
LEMMA NoneLeft ==
    ASSUME NEW A, IsFiniteSet(A)
    PROVE  Cardinality(A) \in Nat /\ (Cardinality(A) = 0 <=> A = {})
BY FS_CardinalityType, FS_EmptySet

(* The holders of a reference, and those about to drop one, can be counted. *)
LEMMA UsersFinite ==
    ASSUME NEW l
    PROVE  IsFiniteSet(Holders(l)) /\ IsFiniteSet(Droppers(l))
<1>1. /\ IsFiniteSet({ t \in Thread : handle[t] = l })
      /\ IsFiniteSet({ s \in Store : m_pLibrary[s] = l })
      /\ IsFiniteSet(Droppers(l))
  BY FS_Subset, ProcessAssumption DEF Droppers
<1> QED
  BY <1>1, FS_Union DEF Holders

(***************************************************************************)
(* The library, one kind of step at a time.                                *)
(***************************************************************************)
LibraryTypeOK ==
    /\ s_pInstance \in Lib \cup {None}
    /\ oCSectInstance \in Thread \cup {None}
    /\ m_cRef \in [Lib -> Nat]
    /\ allocated \subseteq Lib
    /\ handle \in [Thread -> Lib \cup {None}]
    /\ m_pLibrary \in [Store -> Lib \cup {None}]
    /\ dropping \in [Thread -> Lib \cup {None}]
    /\ at \in [Thread -> {"outside", "acquire", "release", "free"}]

LibraryGood == LibraryTypeOK /\ LibraryInv

(* Somebody who waits for the section changes nothing that counts.         *)
LEMMA CallCreateLibraryKeeps ==
    ASSUME LibraryGood, NEW t \in Thread, CallCreateLibrary(t)
    PROVE  LibraryGood'
<1> USE DEF LibraryGood, LibraryInv, LibraryTypeOK, CallCreateLibrary, MayCall, Running
<1>1. \A l \in Lib : Holders(l)' = Holders(l) /\ Droppers(l)' = Droppers(l)
  BY DEF Holders, Droppers
<1>2. LibraryTypeOK'
  OBVIOUS
<1>3. DropOK'
  BY ProcessAssumption DEF DropOK
<1>4. LibraryOutlivesItsUsers'
  BY <1>1 DEF LibraryOutlivesItsUsers
<1>5. OneLibrary'
  BY <1>1 DEF OneLibrary
<1> QED
  BY <1>2, <1>3, <1>4, <1>5

(* A reference more, on a library that is there or on a new one.           *)
LEMMA AcquireKeeps ==
    ASSUME LibraryGood, NEW t \in Thread, Acquire(t)
    PROVE  LibraryGood'
<1> USE DEF LibraryGood, LibraryInv, LibraryTypeOK
<1>1. PICK l \in Lib :
        /\ IF s_pInstance = None
           THEN /\ l \notin allocated
                /\ m_cRef' = [m_cRef EXCEPT ![l] = 1]
           ELSE /\ l = s_pInstance
                /\ m_cRef' = [m_cRef EXCEPT ![l] = @ + 1]
        /\ s_pInstance' = l
        /\ allocated' = allocated \cup {l}
        /\ handle' = [handle EXCEPT ![t] = l]
  BY DEF Acquire
<1>2. /\ at[t] = "acquire" /\ oCSectInstance = None
      /\ at' = [at EXCEPT ![t] = "outside"]
      /\ UNCHANGED <<oCSectInstance, m_pLibrary, dropping>>
  BY DEF Acquire
<1>3. handle[t] = None /\ dropping[t] = None /\ None \notin Lib
  BY <1>2, ProcessAssumption DEF DropOK
<1>4. allocated' = {l}
  BY <1>1, <1>3 DEF OneLibrary
<1>5. /\ Holders(l)' = Holders(l) \cup {t} /\ t \notin Holders(l)
      /\ \A k \in Lib \ {l} : Holders(k)' = Holders(k)
  BY <1>1, <1>2, <1>3, ProcessAssumption DEF Holders
<1>6. \A k \in Lib : Droppers(k)' = Droppers(k)
  BY <1>2 DEF Droppers
<1>7. LibraryTypeOK'
  BY <1>1, <1>2
<1>8. DropOK'
  BY <1>1, <1>2, <1>3, ProcessAssumption DEF DropOK
<1>9. LibraryOutlivesItsUsers'
  <2>1. \A k \in Lib \ {l} : Holders(k)' \cup Droppers(k)' = {}
    BY <1>1, <1>4, <1>5, <1>6 DEF LibraryOutlivesItsUsers
  <2>2. m_cRef'[l] = Cardinality(Holders(l)') + Cardinality(Droppers(l)')
    <3>1. /\ Cardinality(Holders(l)') = Cardinality(Holders(l)) + 1
          /\ Cardinality(Holders(l)) \in Nat /\ Cardinality(Droppers(l)) \in Nat
          /\ (Holders(l) = {} => Cardinality(Holders(l)) = 0)
          /\ (Droppers(l) = {} => Cardinality(Droppers(l)) = 0)
      BY <1>5, UsersFinite, OneMore, NoneLeft
    <3>2. CASE s_pInstance = None
      BY <1>1, <1>6, <3>1, <3>2 DEF LibraryOutlivesItsUsers
    <3>3. CASE s_pInstance # None
      <4>1. l \in allocated
        BY <1>1, <3>3 DEF OneLibrary
      <4> QED
        BY <1>1, <1>6, <3>1, <3>3, <4>1 DEF LibraryOutlivesItsUsers
    <3> QED
      BY <3>2, <3>3
  <2> QED
    BY <1>4, <2>1, <2>2 DEF LibraryOutlivesItsUsers
<1>10. OneLibrary'
  BY <1>1, <1>3, <1>4, <1>5 DEF OneLibrary
<1> QED
  BY <1>7, <1>8, <1>9, <1>10

(* The constructor's AddRef needs no lock: its caller's reference keeps the *)
(* library from going.                                                      *)
LEMMA CreateStoreKeeps ==
    ASSUME LibraryGood, NEW t \in Thread, NEW s \in Store, CreateStore(t, s)
    PROVE  LibraryGood'
<1> USE DEF LibraryGood, LibraryInv, LibraryTypeOK
<1>0. PICK l \in Lib : l = handle[t]
  BY DEF CreateStore
<1>1. /\ l \in Lib /\ m_pLibrary[s] = None /\ None \notin Lib
      /\ m_pLibrary' = [m_pLibrary EXCEPT ![s] = l]
      /\ m_cRef' = [m_cRef EXCEPT ![l] = @ + 1]
      /\ UNCHANGED <<s_pInstance, oCSectInstance, allocated, handle, dropping, at>>
  BY <1>0, ProcessAssumption DEF CreateStore
<1>2. /\ Holders(l)' = Holders(l) \cup {s} /\ s \notin Holders(l) /\ t \in Holders(l)
      /\ \A k \in Lib \ {l} : Holders(k)' = Holders(k)
  BY <1>0, <1>1, ProcessAssumption DEF Holders
<1>3. \A k \in Lib : Droppers(k)' = Droppers(k)
  BY <1>0, <1>1 DEF Droppers
<1>4. l \in allocated
  BY <1>0, <1>1, <1>2 DEF LibraryOutlivesItsUsers
<1>5. /\ Cardinality(Holders(l)') = Cardinality(Holders(l)) + 1
      /\ Cardinality(Holders(l)) \in Nat /\ Cardinality(Droppers(l)) \in Nat
      /\ Cardinality(Holders(l)) # 0
  BY <1>2, UsersFinite, OneMore, NoneLeft
<1>6. m_cRef[l] = Cardinality(Holders(l)) + Cardinality(Droppers(l))
  BY <1>0, <1>1, <1>4 DEF LibraryOutlivesItsUsers
<1>7. LibraryTypeOK'
  BY <1>0, <1>1
<1>8. DropOK'
  BY <1>0, <1>1, <1>5, <1>6 DEF DropOK
<1>9. LibraryOutlivesItsUsers'
  <2>1. /\ Holders(l)' \cup Droppers(l)' # {} => l \in allocated'
        /\ l \in allocated' =>
             m_cRef'[l] = Cardinality(Holders(l)') + Cardinality(Droppers(l)')
    BY <1>1, <1>3, <1>4, <1>5, <1>6 DEF LibraryOutlivesItsUsers
  <2>2. ASSUME NEW k \in Lib \ {l}
        PROVE  /\ Holders(k)' \cup Droppers(k)' # {} => k \in allocated'
               /\ k \in allocated' =>
                    m_cRef'[k] = Cardinality(Holders(k)') + Cardinality(Droppers(k)')
    BY <1>1, <1>2, <1>3 DEF LibraryOutlivesItsUsers
  <2> QED
    BY <2>1, <2>2 DEF LibraryOutlivesItsUsers
<1>10. OneLibrary'
  BY <1>0, <1>1, <1>2, <1>3 DEF OneLibrary
<1> QED
  BY <1>7, <1>8, <1>9, <1>10

(* A client or a store turns its reference into one about to be dropped.    *)
LEMMA HandedOver ==
    ASSUME LibraryGood, NEW t \in Thread, NEW l \in Lib, NEW x,
           at[t] = "outside", x \in Holders(l), t \notin Droppers(l),
           Holders(l)' = Holders(l) \ {x}, Droppers(l)' = Droppers(l) \cup {t},
           \A k \in Lib \ {l} : Holders(k)' = Holders(k) /\ Droppers(k)' = Droppers(k),
           dropping' = [dropping EXCEPT ![t] = l], at' = [at EXCEPT ![t] = "release"],
           \A u \in Thread : handle'[u] \in {handle[u], None},
           UNCHANGED <<s_pInstance, oCSectInstance, m_cRef, allocated>>
    PROVE  LibraryInv'
<1> USE DEF LibraryGood, LibraryInv, LibraryTypeOK
<1>1. None \notin Lib /\ None \notin Thread
  BY ProcessAssumption
<1>2. /\ Cardinality(Holders(l)') = Cardinality(Holders(l)) - 1
      /\ Cardinality(Droppers(l)') = Cardinality(Droppers(l)) + 1
      /\ Cardinality(Holders(l)) \in Nat /\ Cardinality(Droppers(l)) \in Nat
  BY UsersFinite, OneMore, OneLess, NoneLeft
<1>3. DropOK'
  BY <1>1 DEF DropOK
<1>4. LibraryOutlivesItsUsers'
  <2>1. /\ Holders(l)' \cup Droppers(l)' # {} => l \in allocated'
        /\ l \in allocated' =>
             m_cRef'[l] = Cardinality(Holders(l)') + Cardinality(Droppers(l)')
    BY <1>2 DEF LibraryOutlivesItsUsers
  <2>2. ASSUME NEW k \in Lib \ {l}
        PROVE  /\ Holders(k)' \cup Droppers(k)' # {} => k \in allocated'
               /\ k \in allocated' =>
                    m_cRef'[k] = Cardinality(Holders(k)') + Cardinality(Droppers(k)')
    BY DEF LibraryOutlivesItsUsers
  <2> QED
    BY <2>1, <2>2 DEF LibraryOutlivesItsUsers
<1>5. OneLibrary'
  BY DEF OneLibrary
<1> QED
  BY <1>3, <1>4, <1>5

(* A client's reference becomes one about to be dropped.                    *)
LEMMA CallReleaseKeeps ==
    ASSUME LibraryGood, NEW t \in Thread, CallRelease(t)
    PROVE  LibraryGood'
<1> USE DEF LibraryGood, LibraryTypeOK, CallRelease, MayCall, Running
<1>0. PICK l \in Lib : l = handle[t]
  BY DEF CallRelease
<1>1. at[t] = "outside" /\ dropping[t] = None /\ None \notin Lib
  BY ProcessAssumption DEF LibraryInv, DropOK
<1>2. LibraryTypeOK'
  BY <1>0, <1>1
<1>3. /\ t \in Holders(l) /\ t \notin Droppers(l)
      /\ Holders(l)' = Holders(l) \ {t}
      /\ \A k \in Lib \ {l} : Holders(k)' = Holders(k)
  BY <1>0, <1>1, ProcessAssumption DEF Holders, Droppers
<1>4. /\ Droppers(l)' = Droppers(l) \cup {t}
      /\ \A k \in Lib \ {l} : Droppers(k)' = Droppers(k)
  BY <1>0, <1>1 DEF Droppers
<1>5. LibraryInv'
  BY <1>0, <1>1, <1>3, <1>4, HandedOver
<1> QED
  BY <1>2, <1>5

(* So does that of a store, in its destructor.                              *)
LEMMA ReleaseStoreKeeps ==
    ASSUME LibraryGood, NEW t \in Thread, NEW s \in Store, ReleaseStore(t, s)
    PROVE  LibraryGood'
<1> USE DEF LibraryGood, LibraryTypeOK, ReleaseStore, MayCall, Running
<1>0. PICK l \in Lib : l = m_pLibrary[s]
  BY DEF ReleaseStore
<1>1. at[t] = "outside" /\ dropping[t] = None /\ None \notin Lib
  BY ProcessAssumption DEF LibraryInv, DropOK
<1>2. LibraryTypeOK'
  BY <1>0, <1>1
<1>3. /\ s \in Holders(l) /\ t \notin Droppers(l)
      /\ Holders(l)' = Holders(l) \ {s}
      /\ \A k \in Lib \ {l} : Holders(k)' = Holders(k)
  BY <1>0, <1>1, ProcessAssumption DEF Holders, Droppers
<1>4. /\ Droppers(l)' = Droppers(l) \cup {t}
      /\ \A k \in Lib \ {l} : Droppers(k)' = Droppers(k)
  BY <1>0, <1>1 DEF Droppers
<1>5. LibraryInv'
  BY <1>0, <1>1, <1>3, <1>4, HandedOver
<1> QED
  BY <1>2, <1>5

(* The last reference leaves the section held and nobody else concerned.    *)
LEMMA ReleaseRefKeeps ==
    ASSUME LibraryGood, NEW t \in Thread, ReleaseRef(t)
    PROVE  LibraryGood'
<1> USE DEF LibraryGood, LibraryInv, LibraryTypeOK
<1>0. PICK l \in Lib : l = dropping[t]
  BY DEF ReleaseRef, DropOK
<1>1. /\ at[t] = "release" /\ oCSectInstance = None
      /\ m_cRef' = [m_cRef EXCEPT ![l] = @ - 1]
      /\ IF m_cRef[l] = 1
         THEN /\ at' = [at EXCEPT ![t] = "free"]
              /\ oCSectInstance' = t
              /\ dropping' = dropping
         ELSE /\ at' = [at EXCEPT ![t] = "outside"]
              /\ dropping' = [dropping EXCEPT ![t] = None]
              /\ oCSectInstance' = oCSectInstance
      /\ UNCHANGED <<s_pInstance, allocated, handle, m_pLibrary>>
  BY <1>0 DEF ReleaseRef
<1>2. l \in Lib /\ None \notin Lib /\ None \notin Thread
  BY <1>0, <1>1, ProcessAssumption DEF DropOK
<1>3. \A k \in Lib : Holders(k)' = Holders(k)
  BY <1>0, <1>1 DEF Holders
<1>4. /\ t \in Droppers(l) /\ Droppers(l)' = Droppers(l) \ {t}
      /\ \A k \in Lib \ {l} : Droppers(k)' = Droppers(k)
  BY <1>0, <1>1, <1>2 DEF Droppers
<1>5. l \in allocated
  BY <1>2, <1>4 DEF LibraryOutlivesItsUsers
<1>6. /\ Cardinality(Droppers(l)') = Cardinality(Droppers(l)) - 1
      /\ Cardinality(Droppers(l)) \in Nat /\ Cardinality(Droppers(l)) # 0
      /\ Cardinality(Holders(l)) \in Nat
      /\ Cardinality(Droppers(l)') = 0 <=> Droppers(l)' = {}
      /\ Cardinality(Holders(l)) = 0 <=> Holders(l) = {}
  <2>1. Cardinality(Droppers(l)') = Cardinality(Droppers(l)) - 1 /\ IsFiniteSet(Droppers(l)')
    BY <1>4, UsersFinite, OneLess
  <2> QED
    BY <1>4, <2>1, UsersFinite, NoneLeft
<1>7. m_cRef[l] = Cardinality(Holders(l)) + Cardinality(Droppers(l))
  BY <1>2, <1>5 DEF LibraryOutlivesItsUsers
<1>8. LibraryTypeOK'
  BY <1>0, <1>1, <1>2, <1>6, <1>7
<1>9. DropOK'
  BY <1>0, <1>1, <1>2, <1>5 DEF DropOK
<1>10. LibraryOutlivesItsUsers'
  <2>1. /\ Holders(l)' \cup Droppers(l)' # {} => l \in allocated'
        /\ l \in allocated' =>
             m_cRef'[l] = Cardinality(Holders(l)') + Cardinality(Droppers(l)')
    BY <1>1, <1>3, <1>5, <1>6, <1>7 DEF LibraryOutlivesItsUsers
  <2>2. ASSUME NEW k \in Lib \ {l}
        PROVE  /\ Holders(k)' \cup Droppers(k)' # {} => k \in allocated'
               /\ k \in allocated' =>
                    m_cRef'[k] = Cardinality(Holders(k)') + Cardinality(Droppers(k)')
    BY <1>1, <1>3, <1>4 DEF LibraryOutlivesItsUsers
  <2> QED
    BY <2>1, <2>2 DEF LibraryOutlivesItsUsers
<1>11. OneLibrary'
  <2>1. allocated' = {s_pInstance'} \ {None}
    BY <1>0, <1>1 DEF OneLibrary
  <2>2. ASSUME oCSectInstance' = None, NEW k \in allocated'
        PROVE  Holders(k)' \cup Droppers(k)' # {}
    <3>1. CASE k = l
      BY <1>0, <1>1, <1>2, <1>3, <1>6, <1>7, <2>2, <3>1
    <3>2. CASE k # l
      BY <1>0, <1>1, <1>3, <1>4, <2>2, <3>2 DEF OneLibrary
    <3> QED
      BY <3>1, <3>2
  <2> QED
    BY <2>1, <2>2 DEF OneLibrary
<1> QED
  BY <1>8, <1>9, <1>10, <1>11

(* The library that is freed is the one there is, and nobody's.             *)
LEMMA FreeLibraryKeeps ==
    ASSUME LibraryGood, NEW t \in Thread, FreeLibrary(t)
    PROVE  LibraryGood'
<1> USE DEF LibraryGood, LibraryInv, LibraryTypeOK
<1>0. PICK l \in Lib : l = dropping[t]
  BY DEF FreeLibrary, DropOK
<1>1. /\ at[t] = "free"
      /\ s_pInstance' = IF s_pInstance = l THEN None ELSE s_pInstance
      /\ allocated' = allocated \ {l}
      /\ oCSectInstance' = None
      /\ dropping' = [dropping EXCEPT ![t] = None]
      /\ at' = [at EXCEPT ![t] = "outside"]
      /\ UNCHANGED <<m_cRef, handle, m_pLibrary>>
  BY <1>0 DEF FreeLibrary
<1>2. /\ l \in allocated /\ l \in Lib /\ m_cRef[l] = 0 /\ oCSectInstance = t
      /\ None \notin Lib /\ None \notin Thread
  BY <1>0, <1>1, ProcessAssumption DEF DropOK
<1>3. \A k \in Lib : Holders(k)' = Holders(k) /\ Droppers(k)' = Droppers(k)
  BY <1>0, <1>1, <1>2 DEF Holders, Droppers
<1>4. Holders(l) = {} /\ Droppers(l) = {}
  <2>1. /\ Cardinality(Holders(l)) \in Nat /\ Cardinality(Droppers(l)) \in Nat
        /\ Cardinality(Holders(l)) = 0 <=> Holders(l) = {}
        /\ Cardinality(Droppers(l)) = 0 <=> Droppers(l) = {}
    BY UsersFinite, NoneLeft
  <2>2. Cardinality(Holders(l)) + Cardinality(Droppers(l)) = 0
    BY <1>2 DEF LibraryOutlivesItsUsers
  <2> QED
    BY <2>1, <2>2
<1>5. s_pInstance' = None /\ allocated' = {}
  BY <1>0, <1>1, <1>2 DEF OneLibrary
<1>6. LibraryTypeOK'
  BY <1>0, <1>1, <1>5
<1>7. DropOK'
  BY <1>0, <1>1, <1>2 DEF DropOK
<1>8. LibraryOutlivesItsUsers'
  <2>1. \A k \in Lib : Holders(k)' \cup Droppers(k)' = {}
    BY <1>2, <1>3, <1>4 DEF LibraryOutlivesItsUsers, OneLibrary
  <2> QED
    BY <1>5, <2>1 DEF LibraryOutlivesItsUsers
<1>9. OneLibrary'
  BY <1>5 DEF OneLibrary
<1> QED
  BY <1>6, <1>7, <1>8, <1>9

(* Calls on stores leave the library alone.                                 *)
LEMMA LibraryStays ==
    ASSUME LibraryGood, UNCHANGED library
    PROVE  LibraryGood'
<1>1. \A l \in Lib : Holders(l)' = Holders(l) /\ Droppers(l)' = Droppers(l)
  BY DEF library, Holders, Droppers
<1> QED
  BY <1>1 DEF library, LibraryGood, LibraryTypeOK, LibraryInv, DropOK,
              LibraryOutlivesItsUsers, OneLibrary

(***************************************************************************)
(* The critical sections.                                                  *)
(***************************************************************************)
SectionsTypeOK ==
    /\ owner \in [Store -> Thread \cup {None}]
    /\ depth \in [Store -> Nat]
    /\ want \in [Thread -> Store \cup {None}]
    /\ stack \in [Thread -> Seq(Frame)]

SectionsGood == SectionsTypeOK /\ DepthOK

(* Marking the innermost frame moves no entry.                             *)
LEMMA MarkedFrame ==
    ASSUME NEW q \in Seq(Frame), q # <<>>, NEW v \in {"sink", "called"}
    PROVE  LET r == [q EXCEPT ![Len(q)] = [@ EXCEPT !.is = v]] IN
           r \in Seq(Frame) /\ \A s \in Store : Entries(r, s) = Entries(q, s)
<1>1. Len(q) \in DOMAIN q /\ q[Len(q)] \in Frame /\ DOMAIN q = 1..Len(q)
  OBVIOUS
<1>2. PICK f : f = [q[Len(q)] EXCEPT !.is = v]
  OBVIOUS
<1>3. f \in Frame /\ f.on = q[Len(q)].on
  BY <1>1, <1>2 DEF Frame
<1> DEFINE r == [q EXCEPT ![Len(q)] = [@ EXCEPT !.is = v]]
<1>4. r = [q EXCEPT ![Len(q)] = f]
  BY <1>2
<1>5. r \in Seq(Frame) /\ DOMAIN r = DOMAIN q /\ \A i \in DOMAIN q : r[i].on = q[i].on
  BY <1>1, <1>3, <1>4
<1> QED
  BY <1>5 DEF Entries

(* Entering a store adds an entry to it.                                    *)
LEMMA EnteredFrame ==
    ASSUME NEW q \in Seq(Frame), NEW s \in Store
    PROVE  LET r == Append(q, [on |-> s, is |-> "in"]) IN
           /\ r \in Seq(Frame)
           /\ Len(q) + 1 \notin Entries(q, s)
           /\ Entries(r, s) = Entries(q, s) \cup {Len(q) + 1}
           /\ \A k \in Store \ {s} : Entries(r, k) = Entries(q, k)
BY DEF Entries, Frame

(* Returning takes the entry away, and only that one.                       *)
LEMMA LeftFrame ==
    ASSUME NEW q \in Seq(Frame), q # <<>>
    PROVE  LET r == SubSeq(q, 1, Len(q) - 1)
               s == q[Len(q)].on
           IN  /\ r \in Seq(Frame)
               /\ s \in Store /\ Len(q) \in Entries(q, s)
               /\ Entries(r, s) = Entries(q, s) \ {Len(q)}
               /\ \A k \in Store \ {s} : Entries(r, k) = Entries(q, k)
<1>1. /\ Len(q) \in DOMAIN q /\ q[Len(q)] \in Frame
      /\ SubSeq(q, 1, Len(q) - 1) \in Seq(Frame)
      /\ DOMAIN SubSeq(q, 1, Len(q) - 1) = DOMAIN q \ {Len(q)}
      /\ \A i \in DOMAIN q \ {Len(q)} : SubSeq(q, 1, Len(q) - 1)[i] = q[i]
  OBVIOUS
<1> QED
  BY <1>1 DEF Entries, Frame

(* The entries of one stack can be counted.                                *)
LEMMA EntriesFinite ==
    ASSUME NEW q \in Seq(Frame), NEW s
    PROVE  IsFiniteSet(Entries(q, s))
<1>1. IsFiniteSet(1..Len(q)) /\ Entries(q, s) \subseteq 1..Len(q)
  BY FS_Interval DEF Entries
<1> QED
  BY <1>1, FS_Subset

(* A step that enters no section and leaves none.                          *)
LEMMA MarkedKeeps ==
    ASSUME SectionsGood, UNCHANGED <<owner, depth>>, want' \in [Thread -> Store \cup {None}],
           NEW t \in Thread,
           \/ stack' = stack
           \/ /\ stack[t] # <<>>
              /\ \E v \in {"sink", "called"} :
                    stack' = [stack EXCEPT ![t][Len(stack[t])].is = v]
    PROVE  SectionsGood'
<1> USE DEF SectionsGood, SectionsTypeOK
<1>1. CASE stack' = stack
  BY <1>1 DEF DepthOK
<1>2. CASE stack' # stack
  <2>1. PICK v \in {"sink", "called"} :
          stack[t] # <<>> /\ stack' = [stack EXCEPT ![t][Len(stack[t])].is = v]
    BY <1>2
  <2>2. PICK r : r = [stack[t] EXCEPT ![Len(stack[t])].is = v]
    OBVIOUS
  <2>3. stack' = [stack EXCEPT ![t] = r]
    BY <2>1, <2>2
  <2>4. r \in Seq(Frame) /\ \A s \in Store : Entries(r, s) = Entries(stack[t], s)
    <3>1. PICK q \in Seq(Frame) : q = stack[t]
      OBVIOUS
    <3>2. q # <<>> /\ r = [q EXCEPT ![Len(q)] = [@ EXCEPT !.is = v]]
      BY <2>1, <2>2, <3>1
    <3>3. r \in Seq(Frame) /\ \A s \in Store : Entries(r, s) = Entries(q, s)
      BY <3>2, MarkedFrame
    <3> QED
      BY <3>1, <3>3
  <2>5. /\ stack' \in [Thread -> Seq(Frame)]
        /\ \A u \in Thread, s \in Store : Entries(stack'[u], s) = Entries(stack[u], s)
    BY <2>3, <2>4
  <2> QED
    BY <2>5 DEF DepthOK
<1> QED
  BY <1>1, <1>2

(* The owner's entries and its depth grow together.                         *)
LEMMA LockKeeps ==
    ASSUME SectionsGood, NEW t \in Thread, Lock(t)
    PROVE  SectionsGood'
<1> USE DEF SectionsGood, SectionsTypeOK
<1>1. PICK s \in Store : s = want[t]
  BY DEF Lock
<1>2. PICK q : q = Append(stack[t], [on |-> s, is |-> "in"])
  OBVIOUS
<1>3. /\ owner[s] \in {None, t}
      /\ owner' = [owner EXCEPT ![s] = t]
      /\ depth' = [depth EXCEPT ![s] = @ + 1]
      /\ want' = [want EXCEPT ![t] = None]
      /\ stack' = [stack EXCEPT ![t] = q]
  BY <1>1, <1>2 DEF Lock
<1>4. /\ Len(stack[t]) + 1 \notin Entries(stack[t], s)
      /\ Entries(q, s) = Entries(stack[t], s) \cup {Len(stack[t]) + 1}
      /\ \A k \in Store \ {s} : Entries(q, k) = Entries(stack[t], k)
      /\ q \in Seq(Frame)
  <2>1. PICK p \in Seq(Frame) : p = stack[t]
    OBVIOUS
  <2>2. q = Append(p, [on |-> s, is |-> "in"])
    BY <1>2, <2>1
  <2>3. /\ Len(p) + 1 \notin Entries(p, s)
        /\ Entries(q, s) = Entries(p, s) \cup {Len(p) + 1}
        /\ \A k \in Store \ {s} : Entries(q, k) = Entries(p, k)
        /\ q \in Seq(Frame)
    BY <2>2, EnteredFrame
  <2> QED
    BY <2>1, <2>3
<1>5. /\ Cardinality(Entries(q, s)) = Cardinality(Entries(stack[t], s)) + 1
      /\ Entries(stack[t], s) = {} => Cardinality(Entries(stack[t], s)) = 0
  BY <1>4, EntriesFinite, OneMore, NoneLeft
<1>6. t # None
  BY ProcessAssumption
<1>7. depth[s] = Cardinality(Entries(stack[t], s))
  BY <1>3, <1>5, <1>6 DEF DepthOK
<1>8. \A u \in Thread \ {t} : Entries(stack'[u], s) = {}
  <2>1. \A u \in Thread \ {t} : owner[s] # u /\ stack'[u] = stack[u]
    BY <1>3, ProcessAssumption
  <2> QED
    BY <2>1 DEF DepthOK
<1>9. DepthOK'
  <2>1. ASSUME NEW k \in Store \ {s}
        PROVE  /\ owner'[k] = None => depth'[k] = 0
               /\ \A u \in Thread : IF owner'[k] = u
                  THEN Entries(stack'[u], k) # {} /\ depth'[k] = Cardinality(Entries(stack'[u], k))
                  ELSE Entries(stack'[u], k) = {}
    <3>1. \A u \in Thread : Entries(stack'[u], k) = Entries(stack[u], k)
      BY <1>3, <1>4
    <3> QED
      BY <1>3, <3>1 DEF DepthOK
  <2>2. /\ owner'[s] = t /\ stack'[t] = q
        /\ Entries(q, s) # {} /\ depth'[s] = Cardinality(Entries(q, s))
    BY <1>3, <1>4, <1>5, <1>7
  <2> QED
    BY <1>6, <1>8, <2>1, <2>2 DEF DepthOK
<1> QED
  BY <1>3, <1>4, <1>9

(* They shrink together, and the section is free when none is left.         *)
LEMMA ReturnKeeps ==
    ASSUME SectionsGood, NEW t \in Thread, Return(t)
    PROVE  SectionsGood'
<1> USE DEF SectionsGood, SectionsTypeOK
<1>1. stack[t] # <<>>
  BY DEF Return, InA
<1>2. PICK s : s = stack[t][Len(stack[t])].on
  OBVIOUS
<1>3. PICK q : q = SubSeq(stack[t], 1, Len(stack[t]) - 1)
  OBVIOUS
<1>4. /\ depth' = [depth EXCEPT ![s] = @ - 1]
      /\ owner' = [owner EXCEPT ![s] = IF depth[s] = 1 THEN None ELSE @]
      /\ stack' = [stack EXCEPT ![t] = q]
      /\ UNCHANGED want
  BY <1>2, <1>3 DEF Return, Top
<1>5. /\ q \in Seq(Frame) /\ s \in Store
      /\ Len(stack[t]) \in Entries(stack[t], s)
      /\ Entries(q, s) = Entries(stack[t], s) \ {Len(stack[t])}
      /\ \A k \in Store \ {s} : Entries(q, k) = Entries(stack[t], k)
  BY <1>1, <1>2, <1>3, LeftFrame
<1>6. /\ Cardinality(Entries(q, s)) = Cardinality(Entries(stack[t], s)) - 1
      /\ Cardinality(Entries(stack[t], s)) \in Nat
      /\ Cardinality(Entries(q, s)) \in Nat
      /\ Cardinality(Entries(q, s)) = 0 <=> Entries(q, s) = {}
  BY <1>5, EntriesFinite, OneLess, NoneLeft
<1>7. /\ owner[s] = t /\ t # None
      /\ depth[s] = Cardinality(Entries(stack[t], s))
      /\ \A u \in Thread \ {t} : Entries(stack[u], s) = {}
  BY <1>5, ProcessAssumption DEF DepthOK
<1>8. SectionsTypeOK'
  BY <1>4, <1>5, <1>6, <1>7
<1>9. DepthOK'
  <2>1. ASSUME NEW k \in Store \ {s}
        PROVE  /\ owner'[k] = None => depth'[k] = 0
               /\ \A u \in Thread : IF owner'[k] = u
                  THEN Entries(stack'[u], k) # {} /\ depth'[k] = Cardinality(Entries(stack'[u], k))
                  ELSE Entries(stack'[u], k) = {}
    <3>1. \A u \in Thread : Entries(stack'[u], k) = Entries(stack[u], k)
      BY <1>4, <1>5
    <3> QED
      BY <1>4, <3>1 DEF DepthOK
  <2>2. /\ depth'[s] = Cardinality(Entries(q, s)) /\ stack'[t] = q
        /\ \A u \in Thread \ {t} : Entries(stack'[u], s) = {}
    BY <1>4, <1>5, <1>6, <1>7
  <2>3. IF depth[s] = 1 THEN owner'[s] = None /\ Entries(q, s) = {}
                        ELSE owner'[s] = t /\ Entries(q, s) # {}
    BY <1>4, <1>5, <1>6, <1>7
  <2>4. /\ owner'[s] = None => depth'[s] = 0
        /\ \A u \in Thread : IF owner'[s] = u
           THEN Entries(stack'[u], s) # {} /\ depth'[s] = Cardinality(Entries(stack'[u], s))
           ELSE Entries(stack'[u], s) = {}
    BY <1>6, <1>7, <2>2, <2>3, ProcessAssumption
  <2> QED
    BY <2>1, <2>4 DEF DepthOK
<1> QED
  BY <1>8, <1>9

(***************************************************************************)
(* The whole process.                                                      *)
(***************************************************************************)
Good == LibraryGood /\ SectionsGood

(* The two halves, library and sections, are the whole.                     *)
LEMMA GoodIs == TypeOK /\ IInv <=> Good
BY DEF TypeOK, IInv, Good, LibraryGood, LibraryTypeOK, SectionsGood, SectionsTypeOK

(* Nobody holds anything, nobody is inside a store.                         *)
LEMMA InitGood == Init => Good
<1> SUFFICES ASSUME Init PROVE Good
  OBVIOUS
<1> USE DEF Init
<1>1. LibraryTypeOK /\ SectionsTypeOK
  BY DEF LibraryTypeOK, SectionsTypeOK
<1>2. DropOK
  BY ProcessAssumption DEF DropOK
<1>3. \A l \in Lib : Holders(l) = {} /\ Droppers(l) = {}
  BY ProcessAssumption DEF Holders, Droppers
<1>4. LibraryOutlivesItsUsers /\ OneLibrary
  BY <1>3 DEF LibraryOutlivesItsUsers, OneLibrary
<1>5. DepthOK
  BY ProcessAssumption DEF DepthOK, Entries
<1> QED
  BY <1>1, <1>2, <1>4, <1>5 DEF Good, LibraryGood, LibraryInv, SectionsGood

(* One step for each action, the library's first.                           *)
LEMMA NextGood == Good /\ [Next]_vars => Good'
<1> SUFFICES ASSUME Good, [Next]_vars PROVE Good'
  OBVIOUS
<1> USE DEF Good
<1> DEFINE Marked(t) == \/ stack' = stack
                       \/ /\ stack[t] # <<>>
                          /\ \E v \in {"sink", "called"} :
                                stack' = [stack EXCEPT ![t][Len(stack[t])].is = v]
<1>1. ASSUME NEW t \in Thread, UNCHANGED sections, Marked(t)
      PROVE  SectionsGood'
  <2>1. UNCHANGED <<owner, depth>> /\ want' \in [Thread -> Store \cup {None}]
    BY <1>1 DEF sections, SectionsGood, SectionsTypeOK
  <2> QED
    BY <1>1, <2>1, MarkedKeeps
<1>2. ASSUME NEW t \in Thread, CallCreateLibrary(t) \/ Acquire(t) \/ CallRelease(t)
                               \/ ReleaseRef(t) \/ FreeLibrary(t)
      PROVE  Good'
  <2>1. LibraryGood'
    BY <1>2, CallCreateLibraryKeeps, AcquireKeeps, CallReleaseKeeps, ReleaseRefKeeps,
       FreeLibraryKeeps
  <2>2. UNCHANGED sections /\ Marked(t)
    BY <1>2 DEF CallCreateLibrary, Acquire, CallRelease, ReleaseRef, FreeLibrary, CallsFrom
  <2> QED
    BY <1>1, <2>1, <2>2
<1>3. ASSUME NEW t \in Thread, NEW s \in Store, CreateStore(t, s) \/ ReleaseStore(t, s)
      PROVE  Good'
  <2>1. LibraryGood'
    BY <1>3, CreateStoreKeeps, ReleaseStoreKeeps
  <2>2. UNCHANGED sections /\ Marked(t)
    BY <1>3 DEF CreateStore, ReleaseStore, CallsFrom
  <2> QED
    BY <1>1, <2>1, <2>2
<1>4. ASSUME NEW t \in Thread, NEW s \in Store, Call(t, s)
      PROVE  Good'
  <2>1. /\ UNCHANGED library /\ UNCHANGED <<owner, depth>> /\ Marked(t)
        /\ want' \in [Thread -> Store \cup {None}]
    BY <1>4 DEF Call, CallsFrom, SectionsGood, SectionsTypeOK
  <2> QED
    BY <2>1, LibraryStays, MarkedKeeps
<1>5. ASSUME NEW t \in Thread, Fire(t) \/ SinkIsDone(t)
      PROVE  Good'
  <2>1. UNCHANGED library /\ UNCHANGED sections /\ Marked(t)
    BY <1>5 DEF Fire, SinkIsDone, InA
  <2> QED
    BY <1>1, <2>1, LibraryStays
<1>6. ASSUME NEW t \in Thread, Lock(t) \/ Return(t)
      PROVE  Good'
  <2>1. UNCHANGED library
    BY <1>6 DEF Lock, Return
  <2> QED
    BY <1>6, <2>1, LibraryStays, LockKeeps, ReturnKeeps
<1>7. CASE UNCHANGED vars
  <2>1. UNCHANGED library /\ SectionsGood'
    BY <1>7 DEF vars, sections, SectionsGood, SectionsTypeOK, DepthOK
  <2> QED
    BY <2>1, LibraryStays
<1> QED
  BY <1>2, <1>3, <1>4, <1>5, <1>6, <1>7 DEF Next

(* Type correctness and the inductive invariant: who drops a reference and  *)
(* who holds one, which library there is, and who is inside which store.    *)
THEOREM ProcessInvariant == Spec => [](TypeOK /\ IInv)
<1>1. Spec => []Good
  BY InitGood, NextGood, PTL DEF Spec
<1> QED
  BY <1>1, GoodIs, PTL

(* The library is there for as long as a client or a store may call it, and *)
(* its count is the number of those who still have a reference to give up,  *)
(* although a store's constructor adds its own without the lock.            *)
THEOREM LibraryIsThere == Spec => []LibraryOutlivesItsUsers
<1>1. IInv => LibraryOutlivesItsUsers
  BY DEF IInv, LibraryInv
<1> QED
  BY <1>1, ProcessInvariant, PTL

(* There is never a second library, nobody who holds the lock finds one     *)
(* half deleted, and the last reference leaves none.                        *)
THEOREM LibraryIsOne == Spec => []OneLibrary
<1>1. IInv => OneLibrary
  BY DEF IInv, LibraryInv
<1> QED
  BY <1>1, ProcessInvariant, PTL

(* However deep sinks call back into stores, their own or another's, one    *)
(* thread at a time is inside a store, and its lock is free exactly when    *)
(* nobody is.                                                               *)
THEOREM OneThreadPerStore == Spec => []SectionsNest
<1>1. TypeOK /\ IInv => SectionsNest
  <2> SUFFICES ASSUME TypeOK, IInv PROVE SectionsNest
    OBVIOUS
  <2>1. \A t \in Thread, s \in Store : s \in Inside(t) <=> Entries(stack[t], s) # {}
    BY DEF Inside, Entries
  <2>2. \A t \in Thread, s \in Store : s \in Inside(t) <=> owner[s] = t
    BY <2>1 DEF IInv, DepthOK
  <2>3. \A t \in Thread : Inside(t) \subseteq Store
    <3>1. \A q \in Seq(Frame) : \A i \in DOMAIN q : q[i] \in Frame
      OBVIOUS
    <3>2. \A t \in Thread : \A i \in DOMAIN stack[t] : stack[t][i].on \in Store
      BY <3>1 DEF TypeOK, Frame
    <3> QED
      BY <3>2 DEF Inside
  <2>4. \A s \in Store : owner[s] # None <=> \E t \in Thread : owner[s] = t
    BY ProcessAssumption DEF TypeOK
  <2> QED
    BY <2>2, <2>3, <2>4 DEF SectionsNest
<1> QED
  BY <1>1, ProcessInvariant, PTL

=============================================================================
