----------------------------- MODULE RecordsProofs -----------------------------
(***************************************************************************)
(* What Services guarantees, for any values of its constants, of what the  *)
(* user keeps: the image history, the view that pages through it and the   *)
(* requests on it, the documents that are indexed or attached, and the     *)
(* backups of the database.  For each there is its inductive invariant,    *)
(* the lemmas that it holds at the start and after every step, and what    *)
(* follows.                                                                *)
(***************************************************************************)
EXTENDS Services, Sequences, Ordered, SequenceTheorems, FiniteSetTheorems, WellFoundedInduction, TLAPS

-----------------------------------------------------------------------------
(* Finite sets.                                                             *)

\* Of finitely many things with a number each, one has the least.
LEMMA Oldest ==
  ASSUME NEW K, IsFiniteSet(K), K # {}, NEW f, \A x \in K : f[x] \in Nat
  PROVE  \E b \in K : \A x \in K : f[b] <= f[x]
<1> DEFINE older(b) == {x \in K : f[x] < f[b]}
           T == {older(b) : b \in K}
<1>1. IsWellFoundedOn(StrictSubsetOrdering(K), FiniteSubsetsOf(K))
  BY FS_StrictSubsetOrderingWellFounded
<1>2. T \subseteq FiniteSubsetsOf(K) /\ T # {}
  <2>1. \A b \in K : older(b) \in SUBSET K
    OBVIOUS
  <2>2. \A b \in K : IsFiniteSet(older(b))
    <3> HIDE DEF older
    <3> QED
      BY <2>1, FS_Subset
  <2> QED
    BY <2>1, <2>2 DEF FiniteSubsetsOf
<1>3. PICK s \in T : \A t \in T : ~(<<t, s>> \in StrictSubsetOrdering(K))
  <2> HIDE DEF T
  <2> QED
    BY <1>1, <1>2, WFMin
<1>4. PICK b \in K : s = older(b)
  BY <1>3
<1>5. ASSUME NEW x \in K, f[x] < f[b] PROVE FALSE
  <2>1. older(x) \subseteq older(b) /\ x \in older(b) /\ x \notin older(x)
    BY <1>5
  <2>2. <<older(x), older(b)>> \in StrictSubsetOrdering(K)
    BY <2>1 DEF StrictSubsetOrdering
  <2> QED
    BY <1>3, <1>4, <2>2
<1>6. \A x \in K : f[b] <= f[x]
  BY <1>4, <1>5
<1> QED
  BY <1>4, <1>6

-----------------------------------------------------------------------------
(* The image history.                                                      *)

Entry == [pic : Pics, thumb : BOOLEAN, missing : BOOLEAN]

LEMMA SameCount == \A S : History!Cardinality(S) = Cardinality(S)
  BY DEF History!Cardinality, History!IsFiniteSet, Cardinality, IsFiniteSet

\* As many names as there are free ids are told apart by an id each.
LEMMA Places ==
  ASSUME NEW S, NEW T, IsFiniteSet(S), IsFiniteSet(T), Cardinality(S) <= Cardinality(T)
  PROVE  \E f \in [S -> T] : \A a, b \in S : f[a] = f[b] => a = b
<1>1. Cardinality(S) \in Nat /\ Cardinality(T) \in Nat
  BY FS_CardinalityType
<1>2. PICK g \in Bijection(1..Cardinality(S), S) : TRUE
  BY FS_CardinalityType DEF ExistsBijection
<1>3. PICK h \in Bijection(1..Cardinality(T), T) : TRUE
  BY FS_CardinalityType DEF ExistsBijection
<1> DEFINE n == Cardinality(S)
           m == Cardinality(T)
           index(a) == CHOOSE i \in 1..n : g[i] = a
           f == [a \in S |-> h[index(a)]]
<1>4. \A a \in S : index(a) \in 1..n /\ g[index(a)] = a
  <2>1. \A a \in S : \E i \in 1..n : g[i] = a
    BY <1>2 DEF Bijection, Surjection
  <2> QED
    BY <2>1
<1>5. 1..n \subseteq 1..m
  BY <1>1
<1> HIDE DEF index, n, m
<1>6. h \in [1..m -> T] /\ \A i, j \in 1..m : h[i] = h[j] => i = j
  BY <1>3 DEF Bijection, Injection, IsInjective, m
<1>7. f \in [S -> T]
  BY <1>4, <1>5, <1>6
<1>8. \A a, b \in S : f[a] = f[b] => a = b
  <2> SUFFICES ASSUME NEW a \in S, NEW b \in S, f[a] = f[b] PROVE a = b
    OBVIOUS
  <2>1. h[index(a)] = h[index(b)]
    OBVIOUS
  <2>2. index(a) = index(b)
    BY <1>4, <1>5, <1>6, <2>1
  <2> QED
    BY <1>4, <2>2
<1> QED
  BY <1>7, <1>8

\* Rows that are inserted take ids that were free, one each, and the others stay.
LEMMA InsertedRows ==
  ASSUME History!GalleryAssumption, NEW tab, NEW new, IsFiniteSet(new), None \notin new,
         Cardinality(new) <= Cardinality({i \in History!RowIds : tab[i] = None})
  PROVE  /\ History!Inserted(tab, new) = [i \in History!RowIds |-> History!Inserted(tab, new)[i]]
         /\ \A i \in History!RowIds : tab[i] # None => History!Inserted(tab, new)[i] = tab[i]
         /\ \A i \in History!RowIds : tab[i] = None => History!Inserted(tab, new)[i] \in new \cup {None}
         /\ \A i, j \in History!RowIds :
              /\ tab[i] = None /\ tab[j] = None /\ History!Inserted(tab, new)[i] # None
              /\ History!Inserted(tab, new)[i] = History!Inserted(tab, new)[j]
              => i = j
<1> DEFINE free == {i \in History!RowIds : tab[i] = None}
           place == CHOOSE f \in [new -> free] : \A a, b \in new : f[a] = f[b] => a = b
           made(i) == CHOOSE a \in new : place[a] = i
<1>1. IsFiniteSet(free)
  <2>1. IsFiniteSet(History!RowIds)
    BY FS_Interval DEF History!RowIds, History!GalleryAssumption
  <2> QED
    BY <2>1, FS_Subset
<1>2. place \in [new -> free] /\ \A a, b \in new : place[a] = place[b] => a = b
  <2>1. \E f \in [new -> free] : \A a, b \in new : f[a] = f[b] => a = b
    <3> HIDE DEF free
    <3>1. Cardinality(new) <= Cardinality(free)
      BY DEF free
    <3> QED
      BY <1>1, <3>1, Places
  <2> HIDE DEF free
  <2> QED
    BY <2>1
<1>3. History!Inserted(tab, new) = [i \in History!RowIds |-> IF \E a \in new : place[a] = i THEN made(i) ELSE tab[i]]
  BY DEF History!Inserted
<1> HIDE DEF place
<1>4. \A i \in History!RowIds : (\E a \in new : place[a] = i) => made(i) \in new /\ place[made(i)] = i /\ tab[i] = None
  <2>1. \A i \in History!RowIds : (\E a \in new : place[a] = i) => made(i) \in new /\ place[made(i)] = i
    OBVIOUS
  <2> HIDE DEF made
  <2> QED
    BY <1>2, <2>1
<1> HIDE DEF made, free
<1> DEFINE result == History!Inserted(tab, new)
<1>5. \A i \in History!RowIds : result[i] = IF \E a \in new : place[a] = i THEN made(i) ELSE tab[i]
  BY <1>3
<1> HIDE DEF result
<1>6. result = [i \in History!RowIds |-> result[i]]
  BY <1>3 DEF result
<1>7. \A i \in History!RowIds : tab[i] # None => result[i] = tab[i]
  BY <1>4, <1>5
<1>8. \A i \in History!RowIds : tab[i] = None => result[i] \in new \cup {None}
  BY <1>4, <1>5
<1>9. \A i, j \in History!RowIds : tab[i] = None /\ tab[j] = None /\ result[i] # None /\ result[i] = result[j] => i = j
  BY <1>4, <1>5
<1> QED
  BY <1>6, <1>7, <1>8, <1>9 DEF result

HistoryTyped ==
  /\ serving \in BOOLEAN /\ busy \in BOOLEAN /\ crashes \in 0..MaxCrashes
  /\ png \subseteq Pics /\ side \subseteq Pics /\ thumb \subseteq Pics /\ produced \subseteq Pics
  /\ raced \subseteq Pics /\ gone \subseteq Pics
  /\ IsFiniteSet(png) /\ IsFiniteSet(produced)
  /\ row \in [History!RowIds -> Entry \cup {None, Dropped}]
  /\ writing \in Pics \X {"side", "thumb"} \cup {None}
  /\ writing # None \/ produced # {} => busy
  /\ deleting \in [Deleters -> History!RowIds \cup {None}] /\ clean \in [Deleters -> BOOLEAN]

\* What a reconciliation knows and will write, and who scans.
Doctored ==
  /\ doctor \in [History!Scanners -> {"new", "scan", "commit"}]
  /\ known \in [History!Scanners -> SUBSET (History!RowIds \X Entry)]
  /\ adds \in [History!Scanners -> SUBSET Entry]
  /\ DOMAIN sets = History!Scanners
  /\ \A d \in History!Scanners :
       /\ doctor[d] = "scan" <=> scanning = d
       /\ IsFiniteSet(adds[d])
       /\ \A i \in DOMAIN sets[d] : i \in History!RowIds /\ sets[d][i] \in Entry
       /\ doctor[d] # "commit" => adds[d] = {} /\ DOMAIN sets[d] = {}

\* The picture of a row; that which its job has under way.
Of(i, p) == row[i] \notin {None, Dropped} /\ row[i].pic = p
Listed(p) == \E i \in History!RowIds : Of(i, p)
Saving(p) == p \in produced \/ (writing # None /\ writing[1] = p)

\* A row that a reconciliation has read, or will update, is that picture's or is deleted.
ReadStays ==
  \A d \in History!Scanners :
    /\ \A k \in known[d] : row[k[1]] = Dropped \/ Of(k[1], k[2].pic)
    /\ \A i \in DOMAIN sets[d] : row[i] = Dropped \/ Of(i, sets[d][i].pic)

\* A picture has one row, or will have, unless its name raced: what is to be recovered
\* and what is being saved have none, and no other has either under way.
One == \A p \in Pics \ raced, i, j \in History!RowIds : Of(i, p) /\ Of(j, p) => i = j
Coming ==
  \A d \in History!Scanners : \A a \in adds[d] : a.pic \notin raced =>
    /\ ~Listed(a.pic) /\ a.pic \in png /\ a.pic \notin gone /\ ~Saving(a.pic)
    /\ \A e \in History!Scanners : \A b \in adds[e] : b.pic = a.pic => e = d /\ b = a
Made == \A p \in Pics \ raced : Saving(p) => ~Listed(p) /\ p \notin gone

\* Of a deleted image no file is left that a scan would recover.
GoneStays == \A p \in gone \ raced : ~Listed(p) /\ p \notin png \cup side

HistorySafe == HistoryTyped /\ Doctored /\ ReadStays /\ One /\ Coming /\ Made /\ GoneStays

LEMMA HistoryInit == History!GalleryAssumption /\ History!Init => HistorySafe
<1> SUFFICES ASSUME History!GalleryAssumption, History!Init PROVE HistorySafe
  OBVIOUS
<1> USE DEF History!Init
<1>1. HistoryTyped
  <2>1. IsFiniteSet({})
    BY FS_EmptySet
  <2>2. row \in [History!RowIds -> Entry \cup {None, Dropped}] /\ crashes \in 0..MaxCrashes
    BY DEF History!GalleryAssumption
  <2> QED
    BY <2>1, <2>2 DEF HistoryTyped
<1>2. Doctored
  BY FS_EmptySet DEF Doctored, History!GalleryAssumption, History!NoSets
<1>3. \A p : ~Listed(p)
  BY DEF Listed, Of
<1>4. ReadStays /\ Coming /\ GoneStays
  BY DEF ReadStays, Coming, GoneStays, History!NoSets
<1>5. One /\ Made
  BY <1>3 DEF One, Made, Saving, Listed
<1> QED
  BY <1>1, <1>2, <1>4, <1>5 DEF HistorySafe

LEMMA HistoryRests == HistorySafe /\ UNCHANGED historyVars => HistorySafe'
<1> SUFFICES ASSUME HistorySafe, UNCHANGED historyVars PROVE HistorySafe'
  OBVIOUS
<1>1. UNCHANGED <<serving, png, side, thumb, row, writing, produced, busy, doctor, known, adds, sets, scanning,
                  deleting, clean, crashes, raced, gone>>
  BY DEF historyVars
<1>2. HistoryTyped' /\ Doctored'
  BY <1>1 DEF HistorySafe, HistoryTyped, Doctored
<1>3. ReadStays' /\ One' /\ Made' /\ GoneStays'
  BY <1>1 DEF HistorySafe, ReadStays, One, Made, GoneStays, Of, Listed, Saving
<1>4. Coming'
  BY <1>1 DEF HistorySafe, Coming, Of, Listed, Saving
<1> QED
  BY <1>2, <1>3, <1>4 DEF HistorySafe

\* What rows that are inserted, into a table whose rows were updated, list.
LEMMA RowsArrive ==
  ASSUME History!GalleryAssumption, HistorySafe, NEW tab, NEW new, new \subseteq Entry, IsFiniteSet(new),
         Cardinality(new) <= Cardinality({i \in History!RowIds : row[i] = None}),
         \A i \in History!RowIds : tab[i] = row[i] \/ (tab[i] \in Entry /\ Of(i, tab[i].pic)),
         \A a \in new : a.pic \notin raced => ~Listed(a.pic) /\ \A b \in new : b.pic = a.pic => b = a,
         row' = History!Inserted(tab, new), raced' = raced
  PROVE  /\ row' \in [History!RowIds -> Entry \cup {None, Dropped}]
         /\ \A i \in History!RowIds : row[i] = Dropped => row'[i] = Dropped
         /\ \A i \in History!RowIds : \A p : Of(i, p) => Of(i, p)'
         /\ \A p : Listed(p)' => Listed(p) \/ \E a \in new : a.pic = p
         /\ One'
<1>1. None \notin Entry /\ Dropped \notin Entry /\ None # Dropped
  BY DEF History!GalleryAssumption, Entry
<1>2. \A i \in History!RowIds : row[i] \in Entry \cup {None, Dropped}
  BY DEF HistorySafe, HistoryTyped
<1>3. \A i \in History!RowIds : /\ tab[i] = None <=> row[i] = None
                                /\ tab[i] \in Entry \cup {None, Dropped}
                                /\ row[i] = Dropped => tab[i] = Dropped
  BY <1>1, <1>2 DEF Of
<1>4. {i \in History!RowIds : tab[i] = None} = {i \in History!RowIds : row[i] = None}
  BY <1>3
<1>5. /\ row' = [i \in History!RowIds |-> row'[i]]
      /\ \A i \in History!RowIds : tab[i] # None => row'[i] = tab[i]
      /\ \A i \in History!RowIds : tab[i] = None => row'[i] \in new \cup {None}
      /\ \A i, j \in History!RowIds :
           tab[i] = None /\ tab[j] = None /\ row'[i] # None /\ row'[i] = row'[j] => i = j
  BY <1>1, <1>4, InsertedRows
<1>6. row' \in [History!RowIds -> Entry \cup {None, Dropped}]
  <2>1. \A i \in History!RowIds : row'[i] \in Entry \cup {None, Dropped}
    BY <1>3, <1>5
  <2> QED
    BY <1>5, <2>1
<1>7. \A i \in History!RowIds : row[i] = Dropped => row'[i] = Dropped
  BY <1>1, <1>3, <1>5
<1>8. \A i \in History!RowIds : \A p : Of(i, p) => Of(i, p)'
  BY <1>1, <1>3, <1>5 DEF Of
<1>9. \A i \in History!RowIds : \A p : Of(i, p)' => Of(i, p) \/ (row[i] = None /\ row'[i] \in new /\ row'[i].pic = p)
  <2> SUFFICES ASSUME NEW i \in History!RowIds, NEW p, Of(i, p)'
               PROVE  Of(i, p) \/ (row[i] = None /\ row'[i] \in new /\ row'[i].pic = p)
    OBVIOUS
  <2>1. row'[i] \notin {None, Dropped} /\ row'[i].pic = p
    BY DEF Of
  <2>2. CASE row[i] = None
    BY <1>3, <1>5, <2>1, <2>2
  <2>3. CASE row[i] # None
    <3>1. row'[i] = tab[i]
      BY <1>3, <1>5, <2>3
    <3>2. CASE tab[i] = row[i]
      BY <2>1, <3>1, <3>2 DEF Of
    <3>3. CASE Of(i, tab[i].pic)
      BY <2>1, <3>1, <3>3
    <3> QED
      BY <3>2, <3>3
  <2> QED
    BY <2>2, <2>3
<1>10. \A p : Listed(p)' => Listed(p) \/ \E a \in new : a.pic = p
  BY <1>9 DEF Listed
<1>11. One'
  <2> SUFFICES ASSUME NEW p \in Pics \ raced, NEW i \in History!RowIds, NEW j \in History!RowIds, Of(i, p)', Of(j, p)'
               PROVE  i = j
    BY DEF One
  <2>1. CASE Of(i, p) /\ Of(j, p)
    BY <2>1 DEF HistorySafe, One
  <2>2. CASE row[i] = None /\ row'[i] \in new /\ row'[i].pic = p
    <3>1. ~Listed(p)
      BY <2>2
    <3>2. row[j] = None /\ row'[j] \in new /\ row'[j].pic = p
      BY <1>9, <3>1 DEF Listed
    <3>3. row'[i] = row'[j]
      BY <2>2, <3>2
    <3> QED
      BY <1>1, <1>3, <1>5, <2>2, <3>2, <3>3
  <2>3. CASE row[j] = None /\ row'[j] \in new /\ row'[j].pic = p
    <3>1. ~Listed(p)
      BY <2>3
    <3>2. row[i] = None /\ row'[i] \in new /\ row'[i].pic = p
      BY <1>9, <3>1 DEF Listed
    <3>3. row'[i] = row'[j]
      BY <2>3, <3>2
    <3> QED
      BY <1>1, <1>3, <1>5, <2>3, <3>2, <3>3
  <2> QED
    BY <1>9, <2>1, <2>2, <2>3
<1> QED
  BY <1>6, <1>7, <1>8, <1>10, <1>11

\* A job saves its pictures file by file, or ends halfway.
LEMMA JobSafe ==
  ASSUME History!GalleryAssumption, HistorySafe,
         \/ History!StartJob \/ (\E p \in Pics : History!SavePng(p)) \/ History!SaveSidecar
         \/ History!SaveThumb \/ History!JobEnds
  PROVE  HistorySafe'
<1>0. None \notin Pics \X {"side", "thumb"}
  BY DEF History!GalleryAssumption
<1>1. UNCHANGED <<row, doctor, known, adds, sets, scanning, deleting, clean, gone>>
  BY DEF History!StartJob, History!SavePng, History!SaveSidecar, History!SaveThumb, History!JobEnds, History!doctorVars,
     History!deleteVars
<1>2. /\ \A i, p : Of(i, p)' = Of(i, p)
      /\ \A p : Listed(p)' = Listed(p)
  BY <1>1 DEF Of, Listed
<1>3. Doctored' /\ ReadStays'
  <2>1. Doctored'
    BY <1>1 DEF HistorySafe, Doctored
  <2> QED
    BY <1>1, <1>2, <2>1 DEF HistorySafe, ReadStays
<1>4. /\ raced \subseteq raced' /\ raced' \subseteq Pics /\ png \subseteq png'
  BY DEF HistorySafe, HistoryTyped, History!StartJob, History!SavePng, History!SaveSidecar, History!SaveThumb, History!JobEnds,
     History!fileVars
<1>5. One'
  BY <1>2, <1>4 DEF HistorySafe, One
<1>6. HistoryTyped'
  <2>1. CASE History!StartJob \/ History!JobEnds
    BY <1>1, <2>1, FS_EmptySet DEF HistorySafe, HistoryTyped, History!StartJob, History!JobEnds, History!fileVars
  <2>2. ASSUME NEW p \in Pics, History!SavePng(p) PROVE HistoryTyped'
    <3>1. IsFiniteSet(png \cup {p})
      BY FS_AddElement DEF HistorySafe, HistoryTyped
    <3> QED
      BY <1>1, <1>4, <2>2, <3>1 DEF HistorySafe, HistoryTyped, History!SavePng
  <2>3. CASE History!SaveSidecar
    BY <1>1, <2>3 DEF HistorySafe, HistoryTyped, History!SaveSidecar
  <2>4. CASE History!SaveThumb
    <3>1. IsFiniteSet(produced \cup {writing[1]})
      BY FS_AddElement DEF HistorySafe, HistoryTyped
    <3> QED
      BY <1>1, <2>4, <3>1 DEF HistorySafe, HistoryTyped, History!SaveThumb
  <2> QED
    BY <2>1, <2>2, <2>3, <2>4
<1>7. ASSUME NEW p \in Pics, Saving(p)', p \notin raced'
      PROVE  \/ Saving(p)
             \/ p \notin png \cup side \cup gone /\ ~Listed(p)
  <2>1. CASE History!StartJob
    BY <1>7, <2>1 DEF Saving, History!StartJob, HistorySafe, HistoryTyped
  <2>2. ASSUME NEW q \in Pics, History!SavePng(q) PROVE Saving(p) \/ (p \notin png \cup side \cup gone /\ ~Listed(p))
    <3>1. CASE p = q
      BY <1>7, <2>2, <3>1 DEF History!SavePng, Listed, Of, History!RowsOf, History!Rows
    <3>2. CASE p # q
      BY <1>7, <2>2, <3>2 DEF Saving, History!SavePng
    <3> QED
      BY <3>1, <3>2
  <2>3. CASE History!SaveSidecar \/ History!SaveThumb
    BY <1>7, <2>3 DEF Saving, History!SaveSidecar, History!SaveThumb
  <2>4. CASE History!JobEnds
    BY <1>7, <2>4 DEF Saving, History!JobEnds
  <2> QED
    BY <2>1, <2>2, <2>3, <2>4
<1>8. Made'
  BY <1>1, <1>2, <1>4, <1>7 DEF HistorySafe, Made
<1>9. Coming'
  <2> SUFFICES ASSUME NEW d \in History!Scanners, NEW a \in adds[d], a.pic \notin raced'
               PROVE  /\ ~Listed(a.pic)' /\ a.pic \in png' /\ a.pic \notin gone' /\ ~Saving(a.pic)'
                      /\ \A e \in History!Scanners : \A b \in adds[e] : b.pic = a.pic => e = d /\ b = a
    BY <1>1 DEF Coming
  <2>1. a.pic \in Pics
    BY DEF HistorySafe, Doctored, Entry
  <2>2. /\ ~Listed(a.pic) /\ a.pic \in png /\ a.pic \notin gone /\ ~Saving(a.pic)
        /\ \A e \in History!Scanners : \A b \in adds[e] : b.pic = a.pic => e = d /\ b = a
    BY <1>4 DEF HistorySafe, Coming
  <2> QED
    BY <1>1, <1>2, <1>4, <1>7, <2>1, <2>2
<1>10. GoneStays'
  <2> SUFFICES ASSUME NEW p \in gone \ raced' PROVE ~Listed(p) /\ p \notin png' \cup side'
    BY <1>1, <1>2 DEF GoneStays
  <2>1. ~Listed(p) /\ p \notin png \cup side /\ p \in Pics
    BY <1>4 DEF HistorySafe, GoneStays, HistoryTyped
  <2>2. ~Saving(p)
    BY <1>4, <2>1 DEF HistorySafe, Made
  <2>3. \A q \in Pics : History!SavePng(q) => p # q
    BY DEF History!SavePng
  <2>4. p \notin png' \cup side'
    BY <2>1, <2>2, <2>3 DEF Saving, History!StartJob, History!SavePng, History!SaveSidecar, History!SaveThumb, History!JobEnds,
       History!fileVars
  <2> QED
    BY <2>1, <2>4
<1> QED
  BY <1>3, <1>5, <1>6, <1>8, <1>9, <1>10 DEF HistorySafe

\* The images of a job get their rows, which nobody else has for them.
LEMMA FinishSafe == ASSUME History!GalleryAssumption, HistorySafe, History!FinishImage PROVE HistorySafe'
<1> DEFINE new == {History!Row(p, TRUE) : p \in produced}
<1>1. /\ UNCHANGED <<serving, png, side, thumb, writing, doctor, known, adds, sets, scanning, deleting, clean, crashes,
                     raced, gone>>
      /\ busy /\ writing = None /\ busy' = FALSE /\ produced' = {}
      /\ row' = History!Inserted(row, new) /\ History!Room(produced)
  BY DEF History!FinishImage, History!fileVars, History!doctorVars, History!deleteVars
<1>2. IsFiniteSet(new) /\ Cardinality(new) <= Cardinality(produced)
  <2> DEFINE f == [p \in produced |-> History!Row(p, TRUE)]
  <2>1. f \in Surjection(produced, new)
    BY DEF Surjection
  <2> HIDE DEF f, new
  <2>2. IsFiniteSet(produced)
    BY DEF HistorySafe, HistoryTyped
  <2> QED
    BY <2>1, <2>2, FS_Surjection
<1>3. new \subseteq Entry /\ \A a \in new : a.pic \in produced /\ \A b \in new : b.pic = a.pic => b = a
  <2>1. \A p \in produced : History!Row(p, TRUE) \in Entry /\ History!Row(p, TRUE).pic = p
    BY DEF HistorySafe, HistoryTyped, History!Row, Entry
  <2> QED
    BY <2>1
<1> HIDE DEF new
<1>4. Cardinality(new) <= Cardinality({i \in History!RowIds : row[i] = None})
  <2>1. Cardinality(produced) <= Cardinality({i \in History!RowIds : row[i] = None})
    BY <1>1, SameCount DEF History!Room
  <2>2. /\ Cardinality(new) \in Nat /\ Cardinality(produced) \in Nat
        /\ Cardinality({i \in History!RowIds : row[i] = None}) \in Nat
    <3>1. IsFiniteSet(produced)
      BY DEF HistorySafe, HistoryTyped
    <3>2. IsFiniteSet({i \in History!RowIds : row[i] = None})
      <4>1. IsFiniteSet(History!RowIds)
        BY FS_Interval DEF History!RowIds, History!GalleryAssumption
      <4> QED
        BY <4>1, FS_Subset
    <3> QED
      BY <1>2, <3>1, <3>2, FS_CardinalityType
  <2> QED
    BY <1>2, <2>1, <2>2
<1>5. \A a \in new : Saving(a.pic) /\ a.pic \in Pics
  BY <1>3 DEF Saving, Entry
<1>6. /\ row' \in [History!RowIds -> Entry \cup {None, Dropped}]
      /\ \A i \in History!RowIds : row[i] = Dropped => row'[i] = Dropped
      /\ \A i \in History!RowIds : \A p : Of(i, p) => Of(i, p)'
      /\ \A p : Listed(p)' => Listed(p) \/ \E a \in new : a.pic = p
      /\ One'
  <2>1. \A a \in new : a.pic \notin raced => ~Listed(a.pic) /\ \A b \in new : b.pic = a.pic => b = a
    BY <1>3, <1>5 DEF HistorySafe, Made
  <2> QED
    BY <1>1, <1>2, <1>3, <1>4, <2>1, RowsArrive
<1>7. HistoryTyped' /\ Doctored'
  BY <1>1, <1>6, FS_EmptySet DEF HistorySafe, HistoryTyped, Doctored
<1>8. ReadStays'
  <2>1. \A d \in History!Scanners : /\ \A k \in known[d] : k[1] \in History!RowIds
                                    /\ \A i \in DOMAIN sets[d] : i \in History!RowIds
    BY DEF HistorySafe, Doctored
  <2> QED
    BY <1>1, <1>6, <2>1 DEF HistorySafe, ReadStays
<1>9. Coming'
  <2> SUFFICES ASSUME NEW d \in History!Scanners, NEW a \in adds[d], a.pic \notin raced
               PROVE  /\ ~Listed(a.pic)' /\ a.pic \in png /\ a.pic \notin gone /\ ~Saving(a.pic)'
                      /\ \A e \in History!Scanners : \A b \in adds[e] : b.pic = a.pic => e = d /\ b = a
    BY <1>1 DEF Coming
  <2>1. /\ ~Listed(a.pic) /\ a.pic \in png /\ a.pic \notin gone /\ ~Saving(a.pic)
        /\ \A e \in History!Scanners : \A b \in adds[e] : b.pic = a.pic => e = d /\ b = a
    BY DEF HistorySafe, Coming
  <2>2. ~Saving(a.pic)'
    BY <1>1 DEF Saving
  <2>3. ~Listed(a.pic)'
    BY <1>5, <1>6, <2>1
  <2> QED
    BY <2>1, <2>2, <2>3
<1>10. Made'
  BY <1>1 DEF Made, Saving
<1>11. GoneStays'
  <2> SUFFICES ASSUME NEW p \in gone \ raced PROVE ~Listed(p)'
    BY <1>1 DEF HistorySafe, GoneStays
  <2>1. ~Listed(p) /\ ~Saving(p)
    BY DEF HistorySafe, GoneStays, Made, HistoryTyped
  <2> QED
    BY <1>5, <1>6, <2>1
<1> QED
  BY <1>6, <1>7, <1>8, <1>9, <1>10, <1>11 DEF HistorySafe

\* A deletion takes the files of the one row that its picture has, and then the row.
LEMMA DeletionSafe ==
  ASSUME History!GalleryAssumption, HistorySafe, NEW d \in Deleters,
         \/ \E i \in History!RowIds : History!BeginDelete(d, i)
         \/ \E K \in SUBSET {"png", "side", "thumb"} : History!Unlink(d, K)
         \/ History!EndDelete(d)
  PROVE  HistorySafe'
<1>1. UNCHANGED <<serving, writing, produced, busy, doctor, known, adds, sets, scanning, crashes, raced>>
  BY DEF History!BeginDelete, History!Unlink, History!EndDelete, History!jobVars, History!doctorVars
<1>2. \A p : Saving(p)' = Saving(p)
  BY <1>1 DEF Saving
<1>3. Doctored'
  BY <1>1 DEF HistorySafe, Doctored
<1>4. CASE \E i \in History!RowIds : History!BeginDelete(d, i)
  <2>1. UNCHANGED <<png, side, thumb, row, gone>>
    BY <1>4 DEF History!BeginDelete, History!fileVars
  <2>2. HistoryTyped'
    BY <1>1, <1>4, <2>1 DEF HistorySafe, HistoryTyped, History!BeginDelete
  <2>3. \A i, p : Of(i, p)' = Of(i, p)
    BY <2>1 DEF Of
  <2>4. \A p : Listed(p)' = Listed(p)
    BY <2>3 DEF Listed
  <2>5. ReadStays' /\ One'
    BY <1>1, <2>1, <2>3 DEF HistorySafe, ReadStays, One
  <2>6. Coming' /\ Made' /\ GoneStays'
    BY <1>1, <1>2, <2>1, <2>4 DEF HistorySafe, Coming, Made, GoneStays
  <2> QED
    BY <1>3, <2>2, <2>5, <2>6 DEF HistorySafe
<1>5. ASSUME NEW K \in SUBSET {"png", "side", "thumb"}, History!Unlink(d, K) PROVE HistorySafe'
  <2> DEFINE i == deleting[d]
             p == row[i].pic
  <2>1. /\ UNCHANGED <<row, gone, deleting>> /\ i \in History!Rows
        /\ png' \in {png, png \ {p}} /\ side' \in {side, side \ {p}} /\ thumb' \in {thumb, thumb \ {p}}
        /\ clean' = [clean EXCEPT ![d] = TRUE]
    BY <1>5 DEF History!Unlink
  <2> HIDE DEF i
  <2>2. Listed(p)
    BY <2>1 DEF History!Rows, Listed, Of
  <2>3. HistoryTyped'
    <3>1. IsFiniteSet(png \ {p})
      BY FS_Subset DEF HistorySafe, HistoryTyped
    <3> HIDE DEF p
    <3>2. IsFiniteSet(png')
      BY <2>1, <3>1 DEF HistorySafe, HistoryTyped
    <3>3. png' \subseteq Pics /\ side' \subseteq Pics /\ thumb' \subseteq Pics /\ clean' \in [Deleters -> BOOLEAN]
      BY <2>1 DEF HistorySafe, HistoryTyped
    <3> QED
      BY <1>1, <2>1, <3>2, <3>3 DEF HistorySafe, HistoryTyped
  <2>4. \A j, q : Of(j, q)' = Of(j, q)
    BY <2>1 DEF Of
  <2>5. \A q : Listed(q)' = Listed(q)
    BY <2>4 DEF Listed
  <2> HIDE DEF p
  <2>6. ReadStays' /\ One'
    BY <1>1, <2>1, <2>4 DEF HistorySafe, ReadStays, One
  <2>7. Made' /\ GoneStays'
    BY <1>1, <1>2, <2>1, <2>5 DEF HistorySafe, Made, GoneStays
  <2>8. Coming'
    <3> SUFFICES ASSUME NEW e \in History!Scanners, NEW a \in adds[e], a.pic \notin raced
                 PROVE  /\ ~Listed(a.pic)' /\ a.pic \in png' /\ a.pic \notin gone' /\ ~Saving(a.pic)'
                        /\ \A f \in History!Scanners : \A b \in adds[f] : b.pic = a.pic => f = e /\ b = a
      BY <1>1 DEF Coming
    <3>1. /\ ~Listed(a.pic) /\ a.pic \in png /\ a.pic \notin gone /\ ~Saving(a.pic)
          /\ \A f \in History!Scanners : \A b \in adds[f] : b.pic = a.pic => f = e /\ b = a
      BY DEF HistorySafe, Coming
    <3>2. a.pic # p
      BY <2>2, <3>1
    <3> QED
      BY <1>2, <2>1, <2>5, <3>1, <3>2
  <2> QED
    BY <1>3, <2>3, <2>6, <2>7, <2>8 DEF HistorySafe
<1>6. CASE History!EndDelete(d)
  <2>2. PICK i \in History!RowIds : deleting[d] = i
    BY <1>6 DEF HistorySafe, HistoryTyped, History!EndDelete
  <2> DEFINE pic == row[i].pic
  <2>13. PICK p : p = pic
    OBVIOUS
  <2>1. /\ UNCHANGED <<png, side, thumb>>
        /\ row' = [row EXCEPT ![i] = Dropped]
        /\ gone' = gone \/ (i \in History!Rows /\ p \notin png \cup side /\ gone' = gone \cup {p})
        /\ deleting' = [deleting EXCEPT ![d] = None] /\ clean' = [clean EXCEPT ![d] = FALSE]
    BY <1>6, <2>2, <2>13 DEF History!EndDelete, History!fileVars
  <2>3. /\ row' \in [History!RowIds -> Entry \cup {None, Dropped}] /\ row'[i] = Dropped
        /\ \A j \in History!RowIds \ {i} : row'[j] = row[j]
    BY <2>1, <2>2 DEF HistorySafe, HistoryTyped
  <2>4. \A j \in History!RowIds : /\ j # i => \A q : Of(j, q)' = Of(j, q)
                                  /\ \A q : ~Of(i, q)'
    BY <2>3 DEF Of
  <2>5. \A q : Listed(q)' => Listed(q)
    BY <2>4 DEF Listed
  <2>6. i \in History!Rows => Of(i, p) /\ Listed(p) /\ p \in Pics
    BY <2>2, <2>13 DEF History!Rows, Of, Listed, HistorySafe, HistoryTyped, Entry
  <2>7. HistoryTyped'
    BY <1>1, <2>1, <2>3, <2>6 DEF HistorySafe, HistoryTyped
  <2>8. ReadStays'
    <3>1. \A e \in History!Scanners : /\ \A k \in known[e] : k[1] \in History!RowIds
                                      /\ \A j \in DOMAIN sets[e] : j \in History!RowIds
      BY DEF HistorySafe, Doctored
    <3> QED
      BY <1>1, <2>3, <2>4, <3>1 DEF HistorySafe, ReadStays
  <2>9. One'
    BY <1>1, <2>4 DEF HistorySafe, One
  <2>10. Made'
    BY <1>1, <1>2, <2>1, <2>5, <2>6 DEF HistorySafe, Made
  <2>11. Coming'
    <3> SUFFICES ASSUME NEW e \in History!Scanners, NEW a \in adds[e], a.pic \notin raced
                 PROVE  /\ ~Listed(a.pic)' /\ a.pic \in png' /\ a.pic \notin gone' /\ ~Saving(a.pic)'
                        /\ \A f \in History!Scanners : \A b \in adds[f] : b.pic = a.pic => f = e /\ b = a
      BY <1>1 DEF Coming
    <3>1. /\ ~Listed(a.pic) /\ a.pic \in png /\ a.pic \notin gone /\ ~Saving(a.pic)
          /\ \A f \in History!Scanners : \A b \in adds[f] : b.pic = a.pic => f = e /\ b = a
      BY DEF HistorySafe, Coming
    <3>2. a.pic \notin gone'
      BY <2>1, <2>6, <3>1
    <3> QED
      BY <1>2, <2>1, <2>5, <3>1, <3>2
  <2>12. GoneStays'
    <3>1. \A q \in gone \ raced : ~Listed(q) /\ q \notin png \cup side
      BY DEF HistorySafe, GoneStays
    <3>2. i \in History!Rows /\ p \notin raced => ~Listed(p)'
      <4> SUFFICES ASSUME i \in History!Rows, p \notin raced, NEW j \in History!RowIds, Of(j, p)' PROVE FALSE
        BY DEF Listed
      <4>1. j # i /\ Of(j, p)
        BY <2>4
      <4> QED
        BY <2>2, <2>6, <4>1 DEF HistorySafe, One
    <3> QED
      BY <1>1, <2>1, <2>5, <3>1, <3>2 DEF GoneStays
  <2> QED
    BY <1>3, <2>7, <2>8, <2>9, <2>10, <2>11, <2>12 DEF HistorySafe
<1> QED
  BY <1>4, <1>5, <1>6

\* A reconciliation reads the rows, and what it does not recover it forgets.
LEMMA ReadSafe ==
  ASSUME History!GalleryAssumption, HistorySafe, NEW d \in History!Scanners,
         History!BeginReconcile(d) \/ History!RollBack(d)
  PROVE  HistorySafe'
<1>1. UNCHANGED <<serving, png, side, thumb, row, writing, produced, busy, deleting, clean, crashes, raced, gone>>
  BY DEF History!BeginReconcile, History!RollBack, History!fileVars, History!jobVars, History!deleteVars
<1>2. /\ \A i, p : Of(i, p)' = Of(i, p)
      /\ \A p : Saving(p)' = Saving(p)
  BY <1>1 DEF Of, Saving
<1>3. \A p : Listed(p)' = Listed(p)
  BY <1>2 DEF Listed
<1>4. HistoryTyped'
  BY <1>1 DEF HistorySafe, HistoryTyped
<1>5. One' /\ Made' /\ GoneStays'
  BY <1>1, <1>2, <1>3 DEF HistorySafe, One, Made, GoneStays
<1>6. CASE History!BeginReconcile(d)
  <2> DEFINE rows == {<<i, row[i]>> : i \in History!Rows}
  <2>1. /\ UNCHANGED <<adds, sets>> /\ doctor[d] = "new" /\ scanning = None /\ scanning' = d
        /\ doctor' = [doctor EXCEPT ![d] = "scan"] /\ known' = [known EXCEPT ![d] = rows]
    BY <1>6 DEF History!BeginReconcile
  <2>2. rows \subseteq History!RowIds \X Entry /\ \A k \in rows : Of(k[1], k[2].pic)
    BY DEF History!Rows, Of, HistorySafe, HistoryTyped
  <2> HIDE DEF rows
  <2>3. /\ doctor' \in [History!Scanners -> {"new", "scan", "commit"}] /\ doctor'[d] = "scan"
        /\ \A e \in History!Scanners \ {d} : doctor'[e] = doctor[e]
        /\ known' \in [History!Scanners -> SUBSET (History!RowIds \X Entry)] /\ known'[d] = rows
        /\ \A e \in History!Scanners \ {d} : known'[e] = known[e]
    BY <2>1, <2>2 DEF HistorySafe, Doctored
  <2>4. Doctored'
    <3>1. None \notin History!Scanners
      BY DEF History!GalleryAssumption
    <3> QED
      BY <2>1, <2>3, <3>1 DEF HistorySafe, Doctored
  <2>5. ReadStays'
    BY <1>1, <1>2, <2>1, <2>2, <2>3 DEF HistorySafe, ReadStays
  <2>6. Coming'
    BY <1>1, <1>2, <1>3, <2>1 DEF HistorySafe, Coming
  <2> QED
    BY <1>4, <1>5, <2>4, <2>5, <2>6 DEF HistorySafe
<1>7. CASE History!RollBack(d)
  <2>1. /\ UNCHANGED scanning /\ doctor[d] = "commit"
        /\ doctor' = [doctor EXCEPT ![d] = "new"] /\ known' = [known EXCEPT ![d] = {}]
        /\ adds' = [adds EXCEPT ![d] = {}] /\ sets' = [sets EXCEPT ![d] = History!NoSets]
        /\ DOMAIN History!NoSets = {}
    BY <1>7 DEF History!RollBack, History!NoSets
  <2>2. /\ doctor' \in [History!Scanners -> {"new", "scan", "commit"}] /\ doctor'[d] = "new"
        /\ \A e \in History!Scanners \ {d} : doctor'[e] = doctor[e]
        /\ known' \in [History!Scanners -> SUBSET (History!RowIds \X Entry)] /\ known'[d] = {}
        /\ \A e \in History!Scanners \ {d} : known'[e] = known[e]
        /\ adds' \in [History!Scanners -> SUBSET Entry] /\ adds'[d] = {}
        /\ \A e \in History!Scanners \ {d} : adds'[e] = adds[e]
        /\ DOMAIN sets' = History!Scanners /\ DOMAIN sets'[d] = {}
        /\ \A e \in History!Scanners \ {d} : sets'[e] = sets[e]
    BY <2>1 DEF HistorySafe, Doctored
  <2>3. Doctored'
    <3>1. scanning # d
      BY <2>1 DEF HistorySafe, Doctored
    <3> QED
      BY <2>1, <2>2, <3>1, FS_EmptySet DEF HistorySafe, Doctored
  <2>4. ReadStays'
    BY <1>1, <1>2, <2>2 DEF HistorySafe, ReadStays
  <2>5. Coming'
    BY <1>1, <1>2, <1>3, <2>2 DEF HistorySafe, Coming
  <2> QED
    BY <1>4, <1>5, <2>3, <2>4, <2>5 DEF HistorySafe
<1> QED
  BY <1>6, <1>7

\* What it recovers has no row and no one else who would give it one, unless its name
\* raced: neither a job, nor a reconciliation, nor a row that came after it had read.
LEMMA ScanSafe ==
  ASSUME History!GalleryAssumption, HistorySafe, NEW d \in History!Scanners, History!Scan(d)
  PROVE  HistorySafe'
<1> DEFINE found == History!Recovered(d)
<1>1. /\ UNCHANGED <<serving, png, side, row, writing, produced, busy, known, deleting, clean, crashes, gone>>
      /\ doctor[d] = "scan" /\ doctor' = [doctor EXCEPT ![d] = "commit"] /\ scanning' = None
      /\ raced' = raced \cup {p \in found :
           \/ History!RowsOf(p) \ {k[1] : k \in known[d]} # {} \/ p \in produced \cup History!Pending(d)
           \/ (writing # None /\ writing[1] = p)}
  BY DEF History!Scan, History!jobVars, History!deleteVars
<1>2. PICK T \in SUBSET (png \ thumb) :
        /\ thumb' = thumb \cup T
        /\ adds' = [adds EXCEPT ![d] = {History!Row(p, p \in thumb \cup T) : p \in found}]
        /\ sets' = [sets EXCEPT ![d] =
             LET changed == {k \in known[d] : History!Probed(k[2], T) # k[2]}
             IN [i \in {k[1] : k \in changed} |-> History!Probed((CHOOSE k \in changed : k[1] = i)[2], T)]]
  BY DEF History!Scan
<1>3. found \subseteq png /\ found \subseteq side /\ found \subseteq Pics /\ IsFiniteSet(found)
  <2>1. IsFiniteSet(png)
    BY DEF HistorySafe, HistoryTyped
  <2>2. found \subseteq png /\ found \subseteq side
    BY DEF History!Recovered
  <2> HIDE DEF found
  <2> QED
    BY <2>1, <2>2, FS_Subset DEF HistorySafe, HistoryTyped
<1>4. \A p \in found : \A k \in known[d] : k[2].pic # p
  BY DEF History!Recovered
<1> HIDE DEF found
<1> DEFINE new == {History!Row(p, p \in thumb \cup T) : p \in found}
           changed == {k \in known[d] : History!Probed(k[2], T) # k[2]}
           updates == [i \in {k[1] : k \in changed} |-> History!Probed((CHOOSE k \in changed : k[1] = i)[2], T)]
<1>5. /\ new \subseteq Entry /\ \A a \in new : a.pic \in found /\ \A b \in new : b.pic = a.pic => b = a
      /\ IsFiniteSet(new)
  <2>1. \A p \in found : History!Row(p, p \in thumb \cup T) \in Entry /\ History!Row(p, p \in thumb \cup T).pic = p
    BY <1>3 DEF History!Row, Entry
  <2>2. \A a \in new : a \in Entry /\ a.pic \in found /\ a = History!Row(a.pic, a.pic \in thumb \cup T)
    BY <2>1
  <2> DEFINE f == [p \in found |-> History!Row(p, p \in thumb \cup T)]
  <2>3. f \in Surjection(found, new)
    BY DEF Surjection
  <2> HIDE DEF f, new
  <2>4. IsFiniteSet(new)
    BY <1>3, <2>3, FS_Surjection
  <2> QED
    BY <2>2, <2>4
<1>6. \A i \in DOMAIN updates : \E k \in known[d] :
        k[1] = i /\ i \in History!RowIds /\ updates[i] \in Entry /\ updates[i].pic = k[2].pic
  <2> SUFFICES ASSUME NEW i \in {k[1] : k \in changed}
               PROVE  \E k \in known[d] :
                        k[1] = i /\ i \in History!RowIds /\ updates[i] \in Entry /\ updates[i].pic = k[2].pic
    OBVIOUS
  <2> DEFINE k == CHOOSE k \in changed : k[1] = i
  <2>1. k \in changed /\ k[1] = i
    OBVIOUS
  <2>2. updates[i] = History!Probed(k[2], T)
    OBVIOUS
  <2>3. k \in known[d] /\ k \in History!RowIds \X Entry
    BY <2>1 DEF HistorySafe, Doctored
  <2> HIDE DEF k, updates, changed
  <2>4. k[2] \in Entry /\ k[1] \in History!RowIds
    BY <2>3
  <2>5. \A r \in Entry : History!Probed(r, T) \in Entry /\ History!Probed(r, T).pic = r.pic
    BY DEF History!Probed, Entry
  <2> QED
    BY <2>1, <2>2, <2>3, <2>4, <2>5
<1>7. adds' = [adds EXCEPT ![d] = new] /\ sets' = [sets EXCEPT ![d] = updates]
  BY <1>2
<1> HIDE DEF new, updates, changed
<1>8. /\ doctor' \in [History!Scanners -> {"new", "scan", "commit"}] /\ doctor'[d] = "commit"
      /\ \A e \in History!Scanners \ {d} : doctor'[e] = doctor[e]
      /\ adds' \in [History!Scanners -> SUBSET Entry] /\ adds'[d] = new
      /\ \A e \in History!Scanners \ {d} : adds'[e] = adds[e]
      /\ DOMAIN sets' = History!Scanners /\ sets'[d] = updates
      /\ \A e \in History!Scanners \ {d} : sets'[e] = sets[e]
  BY <1>1, <1>5, <1>7 DEF HistorySafe, Doctored
<1>9. /\ \A i, p : Of(i, p)' = Of(i, p)
      /\ \A p : Saving(p)' = Saving(p)
  BY <1>1 DEF Of, Saving
<1>10. \A p : Listed(p)' = Listed(p)
  BY <1>9 DEF Listed
<1>11. raced \subseteq raced' /\ raced' \subseteq Pics
  BY <1>1, <1>3 DEF HistorySafe, HistoryTyped
<1>12. HistoryTyped'
  <2>1. thumb' \subseteq Pics
    BY <1>2 DEF HistorySafe, HistoryTyped
  <2> QED
    BY <1>1, <1>11, <2>1 DEF HistorySafe, HistoryTyped
<1>13. Doctored'
  <2>1. \A e \in History!Scanners : doctor'[e] # "scan" /\ None # e
    BY <1>1, <1>8 DEF HistorySafe, Doctored, History!GalleryAssumption
  <2>2. \A e \in History!Scanners :
          /\ IsFiniteSet(adds'[e])
          /\ \A i \in DOMAIN sets'[e] : i \in History!RowIds /\ sets'[e][i] \in Entry
          /\ doctor'[e] # "commit" => adds'[e] = {} /\ DOMAIN sets'[e] = {}
    BY <1>5, <1>6, <1>8 DEF HistorySafe, Doctored
  <2>3. known' \in [History!Scanners -> SUBSET (History!RowIds \X Entry)]
    BY <1>1 DEF HistorySafe, Doctored
  <2> QED
    BY <1>1, <1>8, <2>1, <2>2, <2>3 DEF Doctored
<1>14. ReadStays'
  <2>1. \A i \in DOMAIN updates : row[i] = Dropped \/ Of(i, updates[i].pic)
    BY <1>6 DEF HistorySafe, ReadStays
  <2> QED
    BY <1>1, <1>8, <1>9, <2>1 DEF HistorySafe, ReadStays
<1>15. One' /\ Made' /\ GoneStays'
  BY <1>1, <1>9, <1>10, <1>11 DEF HistorySafe, One, Made, GoneStays
<1>16. ASSUME NEW p \in found, p \notin raced'
       PROVE  /\ ~Listed(p) /\ p \in png /\ p \notin gone /\ ~Saving(p)
              /\ \A e \in History!Scanners \ {d} : \A b \in adds[e] : b.pic # p
  <2>1. /\ History!RowsOf(p) \subseteq {k[1] : k \in known[d]}
        /\ p \notin produced \cup History!Pending(d) /\ ~(writing # None /\ writing[1] = p)
    BY <1>1, <1>16
  <2>2. ~Listed(p)
    <3> SUFFICES ASSUME NEW i \in History!RowIds, Of(i, p) PROVE FALSE
      BY DEF Listed
    <3>1. i \in History!RowsOf(p)
      BY DEF History!RowsOf, History!Rows, Of
    <3>2. PICK k \in known[d] : k[1] = i
      BY <2>1, <3>1
    <3> QED
      BY <1>4, <3>2 DEF HistorySafe, ReadStays, Of
  <2>3. p \notin gone
    BY <1>3, <1>11, <1>16 DEF HistorySafe, GoneStays
  <2>4. \A e \in History!Scanners \ {d} : \A b \in adds[e] : b.pic # p
    BY <2>1 DEF History!Pending
  <2> QED
    BY <1>3, <2>1, <2>2, <2>3, <2>4 DEF Saving
<1>17. Coming'
  <2> SUFFICES ASSUME NEW e \in History!Scanners, NEW a \in adds'[e], a.pic \notin raced'
               PROVE  /\ ~Listed(a.pic) /\ a.pic \in png /\ a.pic \notin gone /\ ~Saving(a.pic)
                      /\ \A f \in History!Scanners : \A b \in adds'[f] : b.pic = a.pic => f = e /\ b = a
    BY <1>1, <1>9, <1>10 DEF Coming
  <2>1. CASE e = d
    <3>1. a \in new /\ a.pic \in found
      BY <1>5, <1>8, <2>1
    <3> QED
      BY <1>5, <1>8, <1>16, <2>1, <3>1
  <2>2. CASE e # d
    <3>1. a \in adds[e] /\ a.pic \notin raced
      BY <1>8, <1>11, <2>2
    <3>2. /\ ~Listed(a.pic) /\ a.pic \in png /\ a.pic \notin gone /\ ~Saving(a.pic)
          /\ \A f \in History!Scanners : \A b \in adds[f] : b.pic = a.pic => f = e /\ b = a
      BY <3>1 DEF HistorySafe, Coming
    <3>3. a.pic \notin found
      BY <1>16, <2>2, <3>1
    <3> QED
      BY <1>5, <1>8, <3>2, <3>3
  <2> QED
    BY <2>1, <2>2
<1> QED
  BY <1>12, <1>13, <1>14, <1>15, <1>17 DEF HistorySafe

\* What a reconciliation writes goes to rows of the same pictures, or of none.
LEMMA CommitSafe ==
  ASSUME History!GalleryAssumption, HistorySafe, NEW d \in History!Scanners, History!Commit(d)
  PROVE  HistorySafe'
<1> DEFINE tab == [i \in History!RowIds |-> IF i \in DOMAIN sets[d] THEN sets[d][i] ELSE row[i]]
           new == adds[d]
<1>1. /\ UNCHANGED <<png, side, thumb, writing, produced, busy, scanning, deleting, clean, crashes, raced, gone>>
      /\ doctor[d] = "commit" /\ History!Fits(d) /\ History!Room(adds[d])
      /\ row' = History!Inserted(tab, new) /\ serving' = TRUE
      /\ doctor' = [doctor EXCEPT ![d] = "new"] /\ known' = [known EXCEPT ![d] = {}]
      /\ adds' = [adds EXCEPT ![d] = {}] /\ sets' = [sets EXCEPT ![d] = History!NoSets]
      /\ DOMAIN History!NoSets = {}
  BY DEF History!Commit, History!fileVars, History!jobVars, History!deleteVars, History!NoSets
<1>2. /\ doctor' \in [History!Scanners -> {"new", "scan", "commit"}] /\ doctor'[d] = "new"
      /\ \A e \in History!Scanners \ {d} : doctor'[e] = doctor[e]
      /\ known' \in [History!Scanners -> SUBSET (History!RowIds \X Entry)] /\ known'[d] = {}
      /\ \A e \in History!Scanners \ {d} : known'[e] = known[e]
      /\ adds' \in [History!Scanners -> SUBSET Entry] /\ adds'[d] = {}
      /\ \A e \in History!Scanners \ {d} : adds'[e] = adds[e]
      /\ DOMAIN sets' = History!Scanners /\ DOMAIN sets'[d] = {}
      /\ \A e \in History!Scanners \ {d} : sets'[e] = sets[e]
  BY <1>1 DEF HistorySafe, Doctored
<1>3. Doctored'
  <2>1. scanning # d
    BY <1>1 DEF HistorySafe, Doctored
  <2> QED
    BY <1>1, <1>2, <2>1, FS_EmptySet DEF HistorySafe, Doctored
<1>4. new \subseteq Entry /\ IsFiniteSet(new)
  BY DEF HistorySafe, Doctored
<1>5. \A i \in History!RowIds : tab[i] = row[i] \/ (tab[i] \in Entry /\ Of(i, tab[i].pic))
  <2> SUFFICES ASSUME NEW i \in History!RowIds, i \in DOMAIN sets[d]
               PROVE  sets[d][i] \in Entry /\ Of(i, sets[d][i].pic)
    OBVIOUS
  <2>1. row[i] # Dropped
    BY <1>1 DEF History!Fits, History!Rows
  <2> QED
    BY <2>1 DEF HistorySafe, Doctored, ReadStays
<1>6. \A a \in new : a.pic \notin raced => ~Listed(a.pic) /\ \A b \in new : b.pic = a.pic => b = a
  BY DEF HistorySafe, Coming
<1>7. Cardinality(new) <= Cardinality({i \in History!RowIds : row[i] = None})
  BY <1>1, SameCount DEF History!Room
<1> HIDE DEF tab
<1>8. /\ row' \in [History!RowIds -> Entry \cup {None, Dropped}]
      /\ \A i \in History!RowIds : row[i] = Dropped => row'[i] = Dropped
      /\ \A i \in History!RowIds : \A p : Of(i, p) => Of(i, p)'
      /\ \A p : Listed(p)' => Listed(p) \/ \E a \in new : a.pic = p
      /\ One'
  <2> HIDE DEF new
  <2> QED
    BY <1>1, <1>4, <1>5, <1>6, <1>7, RowsArrive
<1>9. HistoryTyped'
  BY <1>1, <1>8 DEF HistorySafe, HistoryTyped
<1>10. \A p : Saving(p)' = Saving(p)
  BY <1>1 DEF Saving
<1>11. ReadStays'
  <2>1. \A e \in History!Scanners : /\ \A k \in known[e] : k[1] \in History!RowIds
                                    /\ \A i \in DOMAIN sets[e] : i \in History!RowIds
    BY DEF HistorySafe, Doctored
  <2> QED
    BY <1>2, <1>8, <2>1 DEF HistorySafe, ReadStays
<1>12. \A a \in new : a.pic \notin raced => ~Saving(a.pic) /\ a.pic \notin gone
  BY DEF HistorySafe, Coming
<1>13. Made'
  <2> SUFFICES ASSUME NEW p \in Pics \ raced, Saving(p) PROVE ~Listed(p)' /\ p \notin gone
    BY <1>1, <1>10 DEF Made
  <2> QED
    BY <1>8, <1>12 DEF HistorySafe, Made
<1>14. GoneStays'
  <2> SUFFICES ASSUME NEW p \in gone \ raced PROVE ~Listed(p)'
    BY <1>1 DEF HistorySafe, GoneStays
  <2> QED
    BY <1>8, <1>12 DEF HistorySafe, GoneStays
<1>15. Coming'
  <2> SUFFICES ASSUME NEW e \in History!Scanners \ {d}, NEW a \in adds[e], a.pic \notin raced
               PROVE  /\ ~Listed(a.pic)' /\ a.pic \in png /\ a.pic \notin gone /\ ~Saving(a.pic)
                      /\ \A f \in History!Scanners : \A b \in adds'[f] : b.pic = a.pic => f = e /\ b = a
    BY <1>1, <1>2, <1>10 DEF Coming
  <2>1. /\ ~Listed(a.pic) /\ a.pic \in png /\ a.pic \notin gone /\ ~Saving(a.pic)
        /\ \A f \in History!Scanners : \A b \in adds[f] : b.pic = a.pic => f = e /\ b = a
    BY DEF HistorySafe, Coming
  <2>2. ~Listed(a.pic)'
    BY <1>8, <2>1
  <2> QED
    BY <1>2, <2>1, <2>2
<1> QED
  BY <1>3, <1>8, <1>9, <1>11, <1>13, <1>14, <1>15 DEF HistorySafe

\* After a crash nobody has anything under way.
LEMMA HistoryRestart == ASSUME History!GalleryAssumption, HistorySafe, History!Crash PROVE HistorySafe'
<1>1. /\ UNCHANGED <<png, side, thumb, row, raced, gone>> /\ crashes < MaxCrashes /\ crashes' = crashes + 1
      /\ serving' = FALSE /\ busy' = FALSE /\ writing' = None /\ produced' = {} /\ scanning' = None
      /\ doctor' = [d \in History!Scanners |-> "new"] /\ known' = [d \in History!Scanners |-> {}]
      /\ adds' = [d \in History!Scanners |-> {}] /\ sets' = [d \in History!Scanners |-> History!NoSets]
      /\ deleting' = [d \in Deleters |-> None] /\ clean' = [d \in Deleters |-> FALSE]
      /\ DOMAIN History!NoSets = {}
  BY DEF History!Crash, History!fileVars, History!NoSets
<1>2. IsFiniteSet({}) /\ None \notin History!Scanners
  BY FS_EmptySet DEF History!GalleryAssumption
<1>3. HistoryTyped'
  <2>1. crashes' \in 0..MaxCrashes
    BY <1>1 DEF HistorySafe, HistoryTyped, History!GalleryAssumption
  <2> QED
    BY <1>1, <1>2, <2>1 DEF HistorySafe, HistoryTyped
<1>4. Doctored'
  BY <1>1, <1>2 DEF Doctored
<1>5. /\ \A i, p : Of(i, p)' = Of(i, p)
      /\ \A p : ~Saving(p)'
  BY <1>1 DEF Of, Saving
<1>6. \A p : Listed(p)' = Listed(p)
  BY <1>5 DEF Listed
<1>7. One' /\ Made' /\ GoneStays'
  BY <1>1, <1>5, <1>6 DEF HistorySafe, One, Made, GoneStays
<1>8. ReadStays' /\ Coming'
  BY <1>1 DEF ReadStays, Coming
<1> QED
  BY <1>3, <1>4, <1>7, <1>8 DEF HistorySafe

LEMMA HistoryStep == History!GalleryAssumption /\ HistorySafe /\ History!Next => HistorySafe'
  BY JobSafe, FinishSafe, DeletionSafe, ReadSafe, ScanSafe, CommitSafe, HistoryRestart DEF History!Next

LEMMA HistoryKept ==
  History!GalleryAssumption /\ HistorySafe => History!OneRowPerFile /\ History!DeletedStays /\ History!TypeOK
<1> SUFFICES ASSUME History!GalleryAssumption, HistorySafe
             PROVE  History!OneRowPerFile /\ History!DeletedStays /\ History!TypeOK
  OBVIOUS
<1>1. \A p : ~Listed(p) => History!RowsOf(p) = {}
  BY DEF Listed, Of, History!RowsOf, History!Rows
<1>2. ASSUME NEW p \in Pics \ raced PROVE History!Cardinality(History!RowsOf(p)) <= 1
  <2>1. CASE History!RowsOf(p) = {}
    BY <2>1, SameCount, FS_EmptySet
  <2>2. CASE History!RowsOf(p) # {}
    <3>1. PICK i : i \in History!RowsOf(p)
      BY <2>2
    <3>2. History!RowsOf(p) = {i}
      BY <3>1 DEF HistorySafe, One, Of, History!RowsOf, History!Rows
    <3>3. Cardinality({i}) = 1
      BY FS_Singleton
    <3> QED
      BY <3>2, <3>3, SameCount
  <2> QED
    BY <2>1, <2>2
<1>3. History!DeletedStays
  BY <1>1 DEF HistorySafe, GoneStays, History!DeletedStays
<1>4. History!TypeOK
  <2>1. \A i \in History!Rows : row[i].pic \in Pics /\ row[i].thumb \in BOOLEAN /\ row[i].missing \in BOOLEAN
    BY DEF HistorySafe, HistoryTyped, Entry, History!Rows
  <2> QED
    BY <2>1 DEF HistorySafe, HistoryTyped, Doctored, History!TypeOK
<1> QED
  BY <1>2, <1>3, <1>4 DEF History!OneRowPerFile

-----------------------------------------------------------------------------
(* The documents: how a text is cut, and what is included of it.           *)

\* What holds at 0 and of the next number when of a number, of those up to n, holds of
\* all of them: the least that it does not hold of has one before it.
LEMMA UpTo ==
  ASSUME NEW n \in Nat, NEW S, 0 \in S, \A k \in 0..n : k < n /\ k \in S => k + 1 \in S
  PROVE  0..n \subseteq S
<1> SUFFICES ASSUME (0..n) \ S # {} PROVE FALSE
  OBVIOUS
<1> DEFINE K == (0..n) \ S
           f == [x \in K |-> x]
<1>1. IsFiniteSet(K)
  <2>1. IsFiniteSet(0..n)
    BY FS_Interval
  <2> QED
    BY <2>1, FS_Subset
<1>2. \A x \in K : f[x] \in Nat
  OBVIOUS
<1>3. PICK b \in K : \A x \in K : f[b] <= f[x]
  <2> HIDE DEF K, f
  <2>1. K # {}
    BY DEF K
  <2> QED
    BY <1>1, <1>2, <2>1, Oldest
<1>4. \A x \in K : b <= x
  BY <1>3
<1>5. b \in 1..n /\ b - 1 \in 0..n
  OBVIOUS
<1>6. b - 1 \notin K
  BY <1>4, <1>5
<1>7. b - 1 \in S /\ b - 1 < n /\ (b - 1) + 1 = b
  BY <1>5, <1>6
<1> QED
  BY <1>5, <1>7

\* A set of integers with bounds has a largest.
LEMMA Largest ==
  ASSUME NEW n \in Nat, NEW S, S \subseteq -1..n, S # {}
  PROVE  \E x \in S : \A y \in S : x >= y
<1> DEFINE f == [x \in S |-> n - x]
<1>1. IsFiniteSet(S)
  <2>1. IsFiniteSet(-1..n)
    BY FS_Interval
  <2> QED
    BY <2>1, FS_Subset
<1>2. \A x \in S : f[x] \in Nat
  OBVIOUS
<1>3. PICK b \in S : \A x \in S : f[b] <= f[x]
  <2> HIDE DEF f
  <2> QED
    BY <1>1, <1>2, Oldest
<1> QED
  BY <1>3

\* A text of n characters: end[s] ends the chunk that starts at s, next[s] starts the
\* one after it.
Cuts(n, most, end, next) ==
  /\ end \in [0..n -> 0..n] /\ next \in [0..n -> Nat] /\ end[n] = n
  /\ \A s \in 0..n : s < n => /\ s < end[s] /\ end[s] - s <= most
                              /\ end[s] # n => s < next[s] /\ next[s] <= end[s] /\ end[s] < end[next[s]]

\* The chunks from s on, when those that come later are rest.
Chunks(s, end, next, n, rest) ==
  <<[from |-> s, to |-> end[s]]>> \o IF end[s] = n THEN <<>> ELSE rest[next[s]]

\* Chunks that begin at s and leave out no part of the text.
From(s, n, most, chunks) ==
  /\ chunks \in Seq([from : 0..n, to : 0..n]) /\ Len(chunks) > 0
  /\ chunks[1].from = s /\ chunks[Len(chunks)].to = n
  /\ \A i \in DOMAIN chunks : chunks[i].to - chunks[i].from \in 1..most
  /\ \A i \in 1..(Len(chunks) - 1) :
       chunks[i + 1].from \in (chunks[i].from + 1)..chunks[i].to /\ chunks[i + 1].to > chunks[i].to

\* The recursion ends: each chunk starts after the one before.
LEMMA ChunksMade ==
  ASSUME NEW n \in Nat, NEW most \in Nat, NEW end, NEW next, Cuts(n, most, end, next)
  PROVE  \E f : f = [s \in 0..n |-> Chunks(s, end, next, n, f)]
<1> DEFINE some(k) == \E g : g = [s \in (n - k)..n |-> Chunks(s, end, next, n, g)]
           S == {k \in 0..n : some(k)}
<1>1. 0 \in S
  <2> DEFINE g == [s \in (n - 0)..n |-> Chunks(n, end, next, n, <<>>)]
  <2>1. g = [s \in (n - 0)..n |-> Chunks(s, end, next, n, g)]
    <3>1. end[n] = n /\ \A s \in (n - 0)..n : s = n
      BY DEF Cuts
    <3>2. Chunks(n, end, next, n, <<>>) = Chunks(n, end, next, n, g)
      BY <3>1 DEF Chunks
    <3> HIDE DEF g
    <3>3. g = [s \in (n - 0)..n |-> Chunks(n, end, next, n, <<>>)]
      BY DEF g
    <3> QED
      BY <3>1, <3>2, <3>3
  <2> HIDE DEF g
  <2> QED
    BY <2>1
<1>2. ASSUME NEW k \in 0..n, k < n, some(k) PROVE some(k + 1)
  <2>1. PICK g : g = [s \in (n - k)..n |-> Chunks(s, end, next, n, g)]
    BY <1>2
  <2> DEFINE h == [s \in (n - (k + 1))..n |-> Chunks(s, end, next, n, g)]
  <2>2. \A s \in (n - k)..n : h[s] = g[s]
    BY <2>1
  <2>3. \A s \in (n - (k + 1))..n : end[s] # n => next[s] \in (n - k)..n
    <3> SUFFICES ASSUME NEW s \in (n - (k + 1))..n, end[s] # n PROVE next[s] \in (n - k)..n
      OBVIOUS
    <3>1. s \in 0..n /\ s < n
      BY <1>2 DEF Cuts
    <3>2. s < next[s] /\ next[s] <= end[s] /\ end[s] \in 0..n /\ next[s] \in Nat
      BY <3>1 DEF Cuts
    <3> QED
      BY <1>2, <3>2
  <2>4. \A s \in (n - (k + 1))..n : Chunks(s, end, next, n, g) = Chunks(s, end, next, n, h)
    BY <2>2, <2>3 DEF Chunks
  <2>5. h = [s \in (n - (k + 1))..n |-> Chunks(s, end, next, n, h)]
    BY <2>4
  <2> QED
    BY <2>5
<1> HIDE DEF some
<1>3. 0..n \subseteq S
  <2>1. \A k \in 0..n : k < n /\ k \in S => k + 1 \in S
    BY <1>2
  <2> HIDE DEF S
  <2> QED
    BY <1>1, <2>1, UpTo
<1>4. some(n) /\ n - n = 0
  BY <1>3
<1> QED
  BY <1>4 DEF some

\* A chunk before those of the rest.
LEMMA ChunksJoin ==
  ASSUME NEW n \in Nat, NEW most \in Nat, NEW s \in 0..n, NEW e \in 0..n, e - s \in 1..most,
         NEW m \in (s + 1)..e, NEW t, From(m, n, most, t), t[1].to > e
  PROVE  From(s, n, most, <<[from |-> s, to |-> e]>> \o t)
<1> DEFINE c == [from |-> s, to |-> e]
           u == <<c>> \o t
           Spans == [from : 0..n, to : 0..n]
<1>1. c \in Spans /\ c.from = s /\ c.to = e
  OBVIOUS
<1>2. t \in Seq(Spans) /\ Len(t) \in Nat /\ Len(t) > 0
  BY DEF From
<1> HIDE DEF c, Spans
<1>3. /\ u \in Seq(Spans) /\ Len(u) = Len(t) + 1
      /\ u[1] = c /\ \A i \in 1..Len(t) : u[i + 1] = t[i]
  BY <1>1, <1>2
<1> HIDE DEF u
<1>4. DOMAIN u = 1..(Len(t) + 1) /\ DOMAIN t = 1..Len(t)
  BY <1>2, <1>3
<1>5. u[Len(u)] = t[Len(t)] /\ u[2] = t[1]
  BY <1>2, <1>3
<1>6. \A i \in DOMAIN u : u[i].to - u[i].from \in 1..most
  <2> SUFFICES ASSUME NEW i \in 1..(Len(t) + 1) PROVE u[i].to - u[i].from \in 1..most
    BY <1>4
  <2>1. CASE i = 1
    BY <1>1, <1>3, <2>1
  <2>2. CASE i # 1
    <3>1. i - 1 \in 1..Len(t) /\ (i - 1) + 1 = i
      BY <1>2, <2>2
    <3>2. u[i] = t[i - 1]
      BY <1>3, <3>1
    <3> QED
      BY <1>4, <3>1, <3>2 DEF From
  <2> QED
    BY <2>1, <2>2
<1>7. \A i \in 1..(Len(u) - 1) : u[i + 1].from \in (u[i].from + 1)..u[i].to /\ u[i + 1].to > u[i].to
  <2> SUFFICES ASSUME NEW i \in 1..Len(t) PROVE u[i + 1].from \in (u[i].from + 1)..u[i].to /\ u[i + 1].to > u[i].to
    BY <1>2, <1>3
  <2>1. CASE i = 1
    <3>1. t[1].from = m
      BY DEF From
    <3> QED
      BY <1>1, <1>3, <1>5, <2>1, <3>1
  <2>2. CASE i # 1
    <3>1. i - 1 \in 1..(Len(t) - 1) /\ (i - 1) + 1 = i /\ i - 1 \in 1..Len(t)
      BY <1>2, <2>2
    <3>2. u[i] = t[i - 1] /\ u[i + 1] = t[(i - 1) + 1]
      BY <1>3, <3>1
    <3> QED
      BY <3>1, <3>2 DEF From
  <2> QED
    BY <2>1, <2>2
<1>8. u[1].from = s /\ u[Len(u)].to = n /\ Len(u) > 0
  <2>1. t[Len(t)].to = n
    BY DEF From
  <2> QED
    BY <1>1, <1>2, <1>3, <1>5, <2>1
<1>9. From(s, n, most, u)
  BY <1>3, <1>6, <1>7, <1>8 DEF From, Spans
<1> QED
  BY <1>9 DEF u, c

\* The chunks that it makes leave out no part of the text, overlap forwards and are no
\* longer than asked.
LEMMA ChunksCoverAll ==
  ASSUME NEW n \in Nat, n > 0, NEW most \in Nat, NEW end, NEW next, Cuts(n, most, end, next),
         NEW f, f = [s \in 0..n |-> Chunks(s, end, next, n, f)]
  PROVE  From(0, n, most, f[0])
<1> DEFINE good(s) == From(s, n, most, f[s]) /\ f[s][1].to = end[s]
           S == {k \in 0..n : \A s \in (n - k)..(n - 1) : good(s)}
<1>1. ASSUME NEW k \in 0..n, k < n, \A s \in (n - k)..(n - 1) : good(s) PROVE good(n - (k + 1))
  <2> DEFINE s == n - (k + 1)
  <2>1. s \in 0..n /\ s < n
    BY <1>1
  <2> SUFFICES good(s)
    OBVIOUS
  <2>6. \A x \in 0..n : end[x] \in 0..n
    BY DEF Cuts
  <2> HIDE DEF s
  <2>2. /\ end[s] \in 0..n /\ s < end[s] /\ end[s] - s <= most /\ next[s] \in Nat
        /\ end[s] # n => s < next[s] /\ next[s] <= end[s] /\ end[s] < end[next[s]]
    BY <2>1 DEF Cuts
  <2>3. f[s] = <<[from |-> s, to |-> end[s]]>> \o IF end[s] = n THEN <<>> ELSE f[next[s]]
    BY <2>1 DEF Chunks
  <2>4. CASE end[s] = n
    <3> DEFINE c == [from |-> s, to |-> end[s]]
    <3>1. f[s] = <<c>> /\ c \in [from : 0..n, to : 0..n] /\ c.from = s /\ c.to = end[s]
      BY <2>1, <2>2, <2>3, <2>4
    <3> HIDE DEF c
    <3>2. From(s, n, most, <<c>>)
      BY <2>1, <2>2, <2>4, <3>1 DEF From
    <3>3. f[s][1].to = end[s]
      <4>1. <<c>>[1] = c
        OBVIOUS
      <4> QED
        BY <3>1, <4>1
    <3>4. From(s, n, most, f[s])
      BY <3>1, <3>2
    <3> QED
      BY <3>3, <3>4
  <2>5. CASE end[s] # n
    <3>1. next[s] \in (n - k)..(n - 1)
      BY <1>1, <2>2, <2>5 DEF s
    <3>2. From(next[s], n, most, f[next[s]]) /\ f[next[s]][1].to = end[next[s]]
      BY <1>1, <3>1
    <3>3. next[s] \in (s + 1)..end[s] /\ end[s] - s \in 1..most /\ f[next[s]][1].to > end[s]
      <4>1. end[next[s]] \in 0..n
        BY <2>6, <3>1
      <4> QED
        BY <2>1, <2>2, <2>5, <3>2, <4>1
    <3>4. From(s, n, most, <<[from |-> s, to |-> end[s]]>> \o f[next[s]])
      BY <2>1, <2>2, <3>2, <3>3, ChunksJoin
    <3>5. f[s] = <<[from |-> s, to |-> end[s]]>> \o f[next[s]]
      BY <2>3, <2>5
    <3>6. (<<[from |-> s, to |-> end[s]]>> \o f[next[s]])[1].to = end[s]
      <4>1. f[next[s]] \in Seq([from : 0..n, to : 0..n])
        BY <3>2 DEF From
      <4> QED
        BY <4>1
    <3> QED
      BY <3>4, <3>5, <3>6
  <2> QED
    BY <2>4, <2>5
<1> HIDE DEF good
<1>2. 0..n \subseteq S
  <2>1. 0 \in S
    OBVIOUS
  <2>2. ASSUME NEW k \in 0..n, k < n, k \in S PROVE k + 1 \in S
    <3>1. good(n - (k + 1))
      BY <1>1, <2>2
    <3>2. \A s \in (n - (k + 1))..(n - 1) : s = n - (k + 1) \/ s \in (n - k)..(n - 1)
      OBVIOUS
    <3> QED
      BY <2>2, <3>1, <3>2
  <2> HIDE DEF S
  <2> QED
    BY <2>1, <2>2, UpTo
<1>3. n \in S /\ 0 \in (n - n)..(n - 1)
  BY <1>2
<1>4. good(0)
  BY <1>3
<1> QED
  BY <1>4 DEF good

\* A chunk ends at its limit or in its second half, and the next one starts over
\* characters before its end.
Ends(n, most, half, end) ==
  \A s \in 0..n :
    LET last == IF n <= s + most THEN n ELSE s + most
    IN /\ end[s] \in Int
       /\ end[s] = last \/ (end[s] > s + half /\ end[s] < last /\ last # n)

Nexts(n, over, end, next) ==
  \A s \in 0..n : next[s] = IF end[s] - over >= s + 1 THEN end[s] - over ELSE s + 1

LEMMA CutsMade ==
  ASSUME NEW n \in Nat, n > 0, NEW most \in Nat, most > 0, NEW half \in Nat, 2 * half <= most,
         NEW over \in 0..half, NEW end, NEW next, DOMAIN end = 0..n, DOMAIN next = 0..n,
         end = [s \in DOMAIN end |-> end[s]], next = [s \in DOMAIN next |-> next[s]],
         Ends(n, most, half, end), Nexts(n, over, end, next)
  PROVE  Cuts(n, most, end, next)
<1>1. \A s \in 0..n : end[s] \in 0..n /\ (s < n => s < end[s] /\ end[s] - s <= most)
  <2> SUFFICES ASSUME NEW s \in 0..n
               PROVE  end[s] \in 0..n /\ (s < n => s < end[s] /\ end[s] - s <= most)
    OBVIOUS
  <2> DEFINE last == IF n <= s + most THEN n ELSE s + most
  <2>1. last \in 0..n /\ last <= s + most /\ (s < n => s < last)
    OBVIOUS
  <2>2. end[s] = last \/ (end[s] > s + half /\ end[s] < last)
    BY DEF Ends
  <2>3. end[s] \in Int
    BY DEF Ends
  <2> HIDE DEF last
  <2> QED
    BY <2>1, <2>2, <2>3
<1>2. \A s \in 0..n : next[s] = IF end[s] - over >= s + 1 THEN end[s] - over ELSE s + 1
  BY DEF Nexts
<1>3. \A s \in 0..n : next[s] \in Nat
  BY <1>1, <1>2
<1>4. end[n] = n
  BY DEF Ends
<1>5. ASSUME NEW s \in 0..n, s < n, end[s] # n
      PROVE  s < next[s] /\ next[s] <= end[s] /\ end[s] < end[next[s]]
  <2>0. /\ end[s] \in 0..n /\ s < end[s] /\ next[s] \in Nat
        /\ next[s] = IF end[s] - over >= s + 1 THEN end[s] - over ELSE s + 1
    BY <1>1, <1>2, <1>3, <1>5
  <2>1. s < next[s] /\ next[s] <= end[s] /\ next[s] + half >= end[s] /\ next[s] \in 0..n /\ end[s] < n
    BY <1>5, <2>0
  <2>2. \/ end[next[s]] = IF n <= next[s] + most THEN n ELSE next[s] + most
        \/ end[next[s]] > next[s] + half
    BY <2>1 DEF Ends
  <2>3. end[next[s]] \in 0..n /\ end[s] \in 0..n /\ next[s] < n
    BY <1>1, <2>1
  <2>4. end[s] < next[s] + most
    BY <2>1, <2>3
  <2> QED
    BY <2>1, <2>2, <2>3, <2>4
<1> QED
  BY <1>1, <1>3, <1>4, <1>5 DEF Cuts

\* Where chunk_document_text cuts.
LEMMA RagCuts ==
  ASSUME Rag!RagAssumption, NEW text \in Texts
  PROVE  From(0, text.len, RagTarget, Rag!IndexChunks(text))
<1> DEFINE n == text.len
           end == [s \in 0..n |-> Rag!ChunkEnd(text, s)]
           next == [s \in 0..n |-> Rag!NextStart(s, end[s])]
           half == RagTarget \div 2
<1>1. /\ n \in Nat /\ n > 0 /\ RagTarget \in Nat /\ RagTarget > 0 /\ RagOverlap \in Nat
      /\ text.breaks \cup text.dots \subseteq 0..(n - 2)
  BY DEF Rag!RagAssumption
<1>2. half \in Nat /\ 2 * half <= RagTarget
  BY <1>1
<1>3. \A a, b \in Int : /\ Rag!Min({a, b}) = IF a <= b THEN a ELSE b
                        /\ Rag!Max({a, b}) = IF a >= b THEN a ELSE b
  BY DEF Rag!Min, Rag!Max
<1>4. Ends(n, RagTarget, half, end)
  <2> SUFFICES ASSUME NEW s \in 0..n
               PROVE  LET last == IF n <= s + RagTarget THEN n ELSE s + RagTarget
                      IN /\ end[s] \in Int
                         /\ end[s] = last \/ (end[s] > s + half /\ end[s] < last /\ last # n)
    BY DEF Ends
  <2> DEFINE last == Rag!Min({n, s + RagTarget})
             B == {b \in text.breaks \cup text.dots : b >= s /\ b + 2 <= last} \cup {-1}
             place == Rag!Max(B)
  <2>1. place \in B
    <3>1. B \subseteq -1..n
      BY <1>1
    <3> HIDE DEF B
    <3>2. B # {}
      BY DEF B
    <3>3. \E x \in B : \A y \in B : x >= y
      BY <1>1, <3>1, <3>2, Largest
    <3> QED
      BY <3>3 DEF Rag!Max
  <2>2. last = IF n <= s + RagTarget THEN n ELSE s + RagTarget
    BY <1>1, <1>3
  <2>3. end[s] = IF last = n \/ place <= s + half THEN last
                 ELSE IF place \in text.dots THEN place + 1 ELSE place
    BY DEF Rag!ChunkEnd
  <2>4. place \in Int /\ (place = -1 \/ place + 2 <= last)
    <3>1. \A b \in B : b \in Int /\ (b = -1 \/ b + 2 <= last)
      BY <1>1
    <3> HIDE DEF B, last
    <3> QED
      BY <2>1, <3>1
  <2> HIDE DEF place, half, end, last
  <2> QED
    BY <1>1, <1>2, <2>2, <2>3, <2>4
<1> HIDE DEF end
<1> DEFINE over == IF RagOverlap <= half THEN RagOverlap ELSE half
<1>5. over \in 0..half /\ over = Rag!Min({RagOverlap, half})
  BY <1>1, <1>2, <1>3
<1>6. Nexts(n, over, end, next)
  <2> SUFFICES ASSUME NEW s \in 0..n
               PROVE  next[s] = IF end[s] - over >= s + 1 THEN end[s] - over ELSE s + 1
    BY DEF Nexts
  <2>1. next[s] = Rag!Max({end[s] - over, s + 1})
    BY <1>5 DEF Rag!NextStart
  <2>2. end[s] - over \in Int /\ s + 1 \in Int
    BY <1>2, <1>4, <1>5 DEF Ends
  <2> HIDE DEF next, over
  <2> QED
    BY <1>3, <2>1, <2>2
<1> HIDE DEF next, half, over
<1>7. Cuts(n, RagTarget, end, next)
  <2>1. /\ DOMAIN end = 0..n /\ end = [s \in DOMAIN end |-> end[s]]
        /\ DOMAIN next = 0..n /\ next = [s \in DOMAIN next |-> next[s]]
    BY DEF end, next
  <2> QED
    BY <1>1, <1>2, <1>4, <1>5, <1>6, <2>1, CutsMade
<1> DEFINE start == CHOOSE f : f = [s \in 0..n |->
             LET e == Rag!ChunkEnd(text, s)
             IN <<[from |-> s, to |-> e]>> \o IF e = text.len THEN <<>> ELSE f[Rag!NextStart(s, e)]]
<1>8. Rag!IndexChunks(text) = start[0]
  BY DEF Rag!IndexChunks
<1>9. \A s \in 0..n : end[s] = Rag!ChunkEnd(text, s) /\ next[s] = Rag!NextStart(s, Rag!ChunkEnd(text, s))
  BY DEF end, next
<1>10. ASSUME NEW f
       PROVE  [s \in 0..n |-> LET e == Rag!ChunkEnd(text, s)
                              IN <<[from |-> s, to |-> e]>> \o IF e = text.len THEN <<>> ELSE f[Rag!NextStart(s, e)]]
              = [s \in 0..n |-> Chunks(s, end, next, n, f)]
  BY <1>9 DEF Chunks
<1>11. \E f : f = [s \in 0..n |-> Chunks(s, end, next, n, f)]
  BY <1>1, <1>7, ChunksMade
<1>12. start = [s \in 0..n |-> Chunks(s, end, next, n, start)]
  BY <1>10, <1>11
<1> HIDE DEF start
<1>13. From(0, n, RagTarget, start[0])
  BY <1>1, <1>7, <1>12, ChunksCoverAll
<1> QED
  BY <1>8, <1>13

\* chunk_document_text leaves out no part of a text.
LEMMA RagCovers ==
  ASSUME Rag!RagAssumption, NEW text \in Texts
  PROVE  Rag!Covers(Rag!IndexChunks(text), text)
<1> DEFINE chunks == Rag!IndexChunks(text)
<1>1. From(0, text.len, RagTarget, chunks)
  BY RagCuts
<1> HIDE DEF chunks
<1>2. Rag!Covers(chunks, text)
  BY <1>1 DEF From, Rag!Covers, Rag!Length
<1> QED
  BY <1>2 DEF chunks

-----------------------------------------------------------------------------
(* The documents that are indexed.                                         *)

\* A request, and that what it embedded with is what it names.
Asking(q, r, went) ==
  /\ q.at \in {"new", "embedding", "searching", "found", "over"}
  /\ q.at = "embedding" => q.text \in Texts
  /\ q.at \in {"embedding", "searching", "found"} => q.model \in Rag!Models
  /\ q.at = "found" /\ r \notin went => q.vectors = q.model

\* A document has the chunks of its text, and vectors of the model that it names.
Indexed(d) ==
  /\ d.text \in Texts /\ d.chunks = Rag!IndexChunks(d.text) /\ {d.model, d.vectors} \subseteq Rag!Models
  /\ d.id \notin vanished => d.vectors = d.model

RagSafe ==
  /\ onDisk \subseteq Rag!Models /\ moves \in 0..MaxMoves /\ vanished \subseteq Indexings
  /\ \A d \in documents : Indexed(d)
  /\ indexing = [r \in Indexings |-> indexing[r]]
  /\ \A r \in Indexings : Asking(indexing[r], r, vanished)

\* The first of all models is one of those on the disk.
LEMMA FirstModel ==
  ASSUME Rag!RagAssumption, onDisk \subseteq Rag!Models, onDisk # {}
  PROVE  Rag!Default \in onDisk
<1> DEFINE K == {i \in DOMAIN ModelOrder : ModelOrder[i] \in onDisk}
           f == [i \in K |-> i]
<1>1. ModelOrder \in Seq(Rag!Models)
  BY DEF Rag!RagAssumption
<1>2. DOMAIN ModelOrder = 1..Len(ModelOrder) /\ Len(ModelOrder) \in Nat
  <2> DEFINE M == Rag!Models
  <2> HIDE DEF M
  <2>1. ModelOrder \in Seq(M)
    BY <1>1 DEF M
  <2> QED
    BY <2>1
<1>3. IsFiniteSet(K) /\ K # {} /\ \A i \in K : f[i] \in Nat
  <2>1. IsFiniteSet(DOMAIN ModelOrder)
    BY <1>2, FS_Interval
  <2>2. K # {}
    BY DEF Rag!Models
  <2> QED
    BY <1>2, <2>1, <2>2, FS_Subset
<1>4. PICK b \in K : \A i \in K : f[b] <= f[i]
  <2> HIDE DEF K, f
  <2> QED
    BY <1>3, Oldest
<1>5. \A i \in K : b <= i
  BY <1>4
<1>6. Rag!Min(K) \in K
  <2> HIDE DEF K
  <2> QED
    BY <1>4, <1>5 DEF Rag!Min
<1> QED
  BY <1>6 DEF Rag!Default

LEMMA RagInit == Rag!RagAssumption /\ Rag!Init => RagSafe
BY DEF Rag!RagAssumption, Rag!Init, RagSafe, Asking

LEMMA RagRests == RagSafe /\ UNCHANGED ragVars => RagSafe'
<1> SUFFICES ASSUME RagSafe, UNCHANGED ragVars PROVE RagSafe'
  OBVIOUS
<1> QED
  BY DEF RagSafe, ragVars, Indexed, Asking

\* What a request becomes keeps the others.
LEMMA RagAt ==
  ASSUME RagSafe, NEW r \in Indexings, NEW q, Rag!At(r, q), vanished \subseteq vanished', Asking(q, r, vanished')
  PROVE  /\ indexing' = [x \in Indexings |-> indexing'[x]]
         /\ \A x \in Indexings : Asking(indexing'[x], x, vanished')
<1>1. indexing' = [x \in Indexings |-> IF x = r THEN q ELSE indexing[x]]
  BY DEF Rag!At, RagSafe
<1>2. ASSUME NEW x \in Indexings, x # r PROVE Asking(indexing'[x], x, vanished')
  BY <1>1, <1>2 DEF RagSafe, Asking
<1> QED
  BY <1>1, <1>2

LEMMA RagStep == Rag!RagAssumption /\ RagSafe /\ Rag!Next => RagSafe'
<1> SUFFICES ASSUME Rag!RagAssumption, RagSafe, Rag!Next PROVE RagSafe'
  OBVIOUS
<1>0. onDisk # {} => Rag!Default \in Rag!Models
  BY FirstModel DEF RagSafe
<1>1. ASSUME NEW asked \in Rag!Models \cup {None}, Rag!Resolve(asked) # None
      PROVE  Rag!Resolve(asked) \in Rag!Models
  BY <1>0, <1>1 DEF Rag!Resolve
<1>2. ASSUME NEW d, Indexed(d), vanished \subseteq vanished' PROVE Indexed(d)'
  BY <1>2 DEF Indexed
<1> HIDE DEF Indexed
<1>3. ASSUME NEW r \in Indexings, NEW asked \in Rag!Models \cup {None}, NEW text \in Texts, Rag!BeginIndex(r, text, asked)
      PROVE  RagSafe'
  <2> DEFINE q == IF Rag!Resolve(asked) = None THEN [at |-> "over"]
                  ELSE [at |-> "embedding", text |-> text, model |-> Rag!Resolve(asked)]
  <2>1. Rag!At(r, q) /\ UNCHANGED <<onDisk, moves, documents, vanished>>
    BY <1>3 DEF Rag!BeginIndex
  <2>2. Asking(q, r, vanished')
    BY <1>1 DEF Asking
  <2> HIDE DEF q
  <2> QED
    BY <1>2, <2>1, <2>2, RagAt DEF RagSafe
<1>4. ASSUME NEW r \in Indexings, NEW asked \in Rag!Models \cup {None}, Rag!BeginSearch(r, asked)
      PROVE  RagSafe'
  <2> DEFINE q == IF Rag!Resolve(asked) = None THEN [at |-> "over"]
                  ELSE [at |-> "searching", rows |-> documents, model |-> Rag!Resolve(asked)]
  <2>1. Rag!At(r, q) /\ UNCHANGED <<onDisk, moves, documents, vanished>>
    BY <1>4 DEF Rag!BeginSearch
  <2>2. Asking(q, r, vanished')
    BY <1>1 DEF Asking
  <2> HIDE DEF q
  <2> QED
    BY <1>2, <2>1, <2>2, RagAt DEF RagSafe
<1>5. ASSUME NEW r \in Indexings, Rag!EndIndex(r) PROVE RagSafe'
  <2> DEFINE q == indexing[r]
             d == [id |-> r, text |-> q.text, model |-> q.model, vectors |-> Rag!Used(q.model),
                   chunks |-> Rag!IndexChunks(q.text)]
  <2>1. q.at = "embedding" /\ Rag!At(r, [at |-> "over"]) /\ UNCHANGED <<onDisk, moves>>
    BY <1>5 DEF Rag!EndIndex
  <2>2. q.text \in Texts /\ q.model \in Rag!Models
    BY <2>1 DEF RagSafe, Asking
  <2>3. Asking([at |-> "over"], r, vanished')
    BY DEF Asking
  <2>4. CASE UNCHANGED <<documents, vanished>>
    BY <1>2, <2>1, <2>3, <2>4, RagAt DEF RagSafe
  <2>5. CASE /\ onDisk # {} /\ documents' = documents \cup {d}
             /\ vanished' = IF q.model \in onDisk THEN vanished ELSE vanished \cup {r}
    <3>1. vanished \subseteq vanished' /\ vanished' \subseteq Indexings
      BY <2>5 DEF RagSafe
    <3>2. Rag!Used(q.model) \in Rag!Models /\ (r \notin vanished' => Rag!Used(q.model) = q.model)
      BY <1>0, <2>2, <2>5 DEF Rag!Used
    <3>3. PICK e : e = d
      OBVIOUS
    <3>4. /\ e.id = r /\ e.text = q.text /\ e.model = q.model /\ e.vectors = Rag!Used(q.model)
          /\ e.chunks = Rag!IndexChunks(e.text)
      <4> DEFINE c == Rag!IndexChunks(q.text)
                 u == Rag!Used(q.model)
                 g == [id |-> r, text |-> q.text, model |-> q.model, vectors |-> u, chunks |-> c]
      <4>1. g.id = r /\ g.text = q.text /\ g.model = q.model /\ g.vectors = u /\ g.chunks = c
        OBVIOUS
      <4>2. e = g
        BY <3>3
      <4> HIDE DEF g, c, u
      <4>3. e.id = r /\ e.text = q.text /\ e.model = q.model /\ e.vectors = u /\ e.chunks = c
        BY <4>1, <4>2
      <4> QED
        BY <4>3 DEF c, u
    <3>5. Indexed(e)'
      <4> HIDE DEF q
      <4> QED
        BY <2>2, <3>2, <3>4 DEF Indexed
    <3> HIDE DEF d, q
    <3>6. \A x \in documents' : Indexed(x)'
      BY <1>2, <2>5, <3>1, <3>3, <3>5 DEF RagSafe
    <3> QED
      BY <2>1, <2>3, <3>1, <3>6, RagAt DEF RagSafe
  <2> QED
    BY <1>5, <2>4, <2>5 DEF Rag!EndIndex
<1>6. ASSUME NEW r \in Indexings, Rag!EndSearch(r) PROVE RagSafe'
  <2> DEFINE q == indexing[r]
  <2>1. q.at = "searching" /\ UNCHANGED <<onDisk, moves, documents>>
    BY <1>6 DEF Rag!EndSearch
  <2>2. q.model \in Rag!Models
    BY <2>1 DEF RagSafe, Asking
  <2>3. CASE Rag!At(r, [at |-> "over"]) /\ UNCHANGED vanished
    <3>1. Asking([at |-> "over"], r, vanished')
      BY DEF Asking
    <3> QED
      BY <1>2, <2>1, <2>3, <3>1, RagAt DEF RagSafe
  <2> DEFINE f == [at |-> "found", rows |-> q.rows, model |-> q.model, vectors |-> Rag!Used(q.model)]
  <2>4. CASE /\ onDisk # {} /\ Rag!At(r, f)
             /\ vanished' = IF q.model \in onDisk THEN vanished ELSE vanished \cup {r}
    <3>1. vanished \subseteq vanished' /\ vanished' \subseteq Indexings
      BY <2>4 DEF RagSafe
    <3>2. r \notin vanished' => Rag!Used(q.model) = q.model
      BY <2>2, <2>4 DEF Rag!Used
    <3>3. Asking(f, r, vanished')
      BY <2>2, <3>2 DEF Asking
    <3> HIDE DEF f
    <3> QED
      BY <1>2, <2>1, <2>4, <3>1, <3>3, RagAt DEF RagSafe
  <2> QED
    BY <1>6, <2>3, <2>4 DEF Rag!EndSearch
<1>7. ASSUME NEW d \in documents, Rag!Delete(d) PROVE RagSafe'
  BY <1>2, <1>7 DEF Rag!Delete, RagSafe
<1>8. ASSUME NEW m \in Rag!Models, Rag!MoveModel(m) PROVE RagSafe'
  BY <1>2, <1>8 DEF Rag!MoveModel, RagSafe, Rag!RagAssumption
<1> QED
  BY <1>3, <1>4, <1>5, <1>6, <1>7, <1>8 DEF Rag!Next

\* The documents are indexed as they promise.
LEMMA RagKept == Rag!RagAssumption /\ RagSafe => Rag!ChunksCover /\ Rag!VectorsNamed /\ Rag!TypeOK
<1> SUFFICES ASSUME Rag!RagAssumption, RagSafe PROVE Rag!ChunksCover /\ Rag!VectorsNamed /\ Rag!TypeOK
  OBVIOUS
<1>1. ASSUME NEW d \in documents PROVE Rag!Covers(d.chunks, d.text)
  <2>1. d.text \in Texts /\ d.chunks = Rag!IndexChunks(d.text)
    BY DEF RagSafe, Indexed
  <2>2. Rag!Covers(Rag!IndexChunks(d.text), d.text)
    BY <2>1, RagCovers
  <2> QED
    BY <2>1, <2>2
<1>2. Rag!VectorsNamed
  BY DEF RagSafe, Rag!VectorsNamed, Asking, Indexed
<1>3. Rag!TypeOK
  BY DEF RagSafe, Rag!TypeOK, Asking, Indexed
<1> QED
  BY <1>1, <1>2, <1>3 DEF Rag!ChunksCover

-----------------------------------------------------------------------------
(* The documents that are attached.                                        *)

\* Where _chunk_text cuts.
LEMMA ChatCuts ==
  ASSUME Attach!AttachmentsAssumption, NEW u \in Uploads
  PROVE  From(0, TextOf[u].len, Target, Attach!ChatChunks(TextOf[u]))
<1> DEFINE text == TextOf[u]
           n == text.len
           end == [s \in 0..n |-> Attach!ChunkEnd(text, s)]
           next == [s \in 0..n |-> Attach!NextStart(s, end[s])]
           half == Target \div 2
<1>1. /\ n \in Nat /\ n > 0 /\ Target \in Nat /\ Target > 0
      /\ text.breaks \cup text.dots \subseteq Nat
  BY DEF Attach!AttachmentsAssumption
<1>2. half \in Nat /\ 2 * half <= Target /\ Overlap \in 0..half
  BY DEF Attach!AttachmentsAssumption
<1>3. \A a, b \in Int : /\ Attach!Min({a, b}) = IF a <= b THEN a ELSE b
                        /\ Attach!Max({a, b}) = IF a >= b THEN a ELSE b
  BY DEF Attach!Min, Attach!Max
<1>4. Ends(n, Target, half, end)
  <2> SUFFICES ASSUME NEW s \in 0..n
               PROVE  LET last == IF n <= s + Target THEN n ELSE s + Target
                      IN /\ end[s] \in Int
                         /\ end[s] = last \/ (end[s] > s + half /\ end[s] < last /\ last # n)
    BY DEF Ends
  <2> DEFINE last == Attach!Min({n, s + Target})
             B == {b \in text.breaks \cup text.dots : b >= s /\ b + 2 <= last} \cup {-1}
             place == Attach!Max(B)
  <2>1. last = IF n <= s + Target THEN n ELSE s + Target
    BY <1>1, <1>3
  <2>2. place \in B
    <3>1. \A b \in text.breaks \cup text.dots : b + 2 <= last => b \in -1..n
      BY <1>1, <2>1
    <3>2. B \subseteq -1..n /\ B # {}
      <4> HIDE DEF last
      <4> QED
        BY <1>1, <3>1
    <3> HIDE DEF B
    <3>3. \E x \in B : \A y \in B : x >= y
      BY <1>1, <3>2, Largest
    <3> QED
      BY <3>3 DEF Attach!Max
  <2>3. end[s] = IF last = n \/ place <= s + half THEN last ELSE place + 1
    BY DEF Attach!ChunkEnd
  <2>4. place \in Int /\ (place = -1 \/ place + 2 <= last)
    <3>1. \A b \in B : b \in Int /\ (b = -1 \/ b + 2 <= last)
      BY <1>1
    <3> HIDE DEF B, last
    <3> QED
      BY <2>2, <3>1
  <2> HIDE DEF place, half, end, last
  <2> QED
    BY <1>1, <1>2, <2>1, <2>3, <2>4
<1> HIDE DEF end
<1>5. Nexts(n, Overlap, end, next)
  <2> SUFFICES ASSUME NEW s \in 0..n
               PROVE  next[s] = IF end[s] - Overlap >= s + 1 THEN end[s] - Overlap ELSE s + 1
    BY DEF Nexts
  <2>1. next[s] = Attach!Max({end[s] - Overlap, s + 1})
    BY DEF Attach!NextStart
  <2>2. end[s] - Overlap \in Int /\ s + 1 \in Int
    BY <1>2, <1>4 DEF Ends
  <2> HIDE DEF next
  <2> QED
    BY <1>3, <2>1, <2>2
<1> HIDE DEF next, half
<1>6. Cuts(n, Target, end, next)
  <2>1. /\ DOMAIN end = 0..n /\ end = [s \in DOMAIN end |-> end[s]]
        /\ DOMAIN next = 0..n /\ next = [s \in DOMAIN next |-> next[s]]
    BY DEF end, next
  <2> QED
    BY <1>1, <1>2, <1>4, <1>5, <2>1, CutsMade
<1> DEFINE start == CHOOSE f : f = [s \in 0..n |->
             LET e == Attach!ChunkEnd(text, s)
             IN <<[from |-> s, to |-> e]>> \o IF e = text.len THEN <<>> ELSE f[Attach!NextStart(s, e)]]
<1>7. Attach!ChatChunks(text) = start[0]
  BY DEF Attach!ChatChunks
<1>8. \A s \in 0..n : end[s] = Attach!ChunkEnd(text, s) /\ next[s] = Attach!NextStart(s, Attach!ChunkEnd(text, s))
  BY DEF end, next
<1>9. ASSUME NEW f
      PROVE  [s \in 0..n |-> LET e == Attach!ChunkEnd(text, s)
                             IN <<[from |-> s, to |-> e]>> \o IF e = text.len THEN <<>> ELSE f[Attach!NextStart(s, e)]]
             = [s \in 0..n |-> Chunks(s, end, next, n, f)]
  BY <1>8 DEF Chunks
<1>10. \E f : f = [s \in 0..n |-> Chunks(s, end, next, n, f)]
  BY <1>1, <1>6, ChunksMade
<1>11. start = [s \in 0..n |-> Chunks(s, end, next, n, start)]
  BY <1>9, <1>10
<1> HIDE DEF start
<1>12. From(0, n, Target, start[0])
  BY <1>1, <1>6, <1>11, ChunksCoverAll
<1> QED
  BY <1>7, <1>12

\* _chunk_text leaves out no part of a text.
LEMMA ChatCovers ==
  ASSUME Attach!AttachmentsAssumption, NEW u \in Uploads
  PROVE  Attach!Covers(Attach!ChatChunks(TextOf[u]), TextOf[u])
<1> DEFINE chunks == Attach!ChatChunks(TextOf[u])
<1>1. From(0, TextOf[u].len, Target, chunks)
  BY ChatCuts
<1> HIDE DEF chunks
<1>2. Attach!Covers(chunks, TextOf[u])
  BY <1>1 DEF From, Attach!Covers, Attach!Length
<1> QED
  BY <1>2 DEF chunks

\* What is chosen when the k-th chunk has been looked at.
Choice(chunks, order, limit, k, f) ==
  IF k = 0 THEN [used |-> 0, parts |-> 0, length |-> 0]
  ELSE LET s == f[k - 1]
           length == Attach!Length(chunks[order[k]])
       IN IF 100 * s.used >= 85 * limit \/ s.used + length + JointCounted > limit THEN s
          ELSE [used |-> s.used + length + JointCounted, parts |-> s.parts + 1,
                length |-> s.length + length + IF s.parts > 0 THEN Joint ELSE 0]

\* A choice keeps to the limit, but for what its joints are longer than counted.
Fits(s, limit) ==
  /\ s.used \in 0..limit /\ s.parts \in Nat /\ s.length \in Nat
  /\ s.parts = 0 => s.length = 0 /\ s.used = 0
  /\ s.parts > 0 => s.length = s.used + s.parts * (Joint - JointCounted) - Joint

\* What is chosen keeps to the limit.
LEMMA SelectedFits ==
  ASSUME Attach!AttachmentsAssumption, NEW limit \in Nat, NEW chunks, NEW n \in Nat, NEW order,
         order \in [1..n -> DOMAIN chunks], Len(order) = n,
         \A i \in DOMAIN chunks : Attach!Length(chunks[i]) \in Nat
  PROVE  Fits(Attach!Selected(chunks, order, limit), limit)
<1> DEFINE some(k) == \E g : g = [j \in 0..k |-> Choice(chunks, order, limit, j, g)]
           S == {k \in 0..n : some(k)}
<1>1. 0 \in S
  <2> DEFINE g == [j \in 0..0 |-> Choice(chunks, order, limit, 0, <<>>)]
  <2>1. Choice(chunks, order, limit, 0, <<>>) = Choice(chunks, order, limit, 0, g)
    BY DEF Choice
  <2>2. g = [j \in 0..0 |-> Choice(chunks, order, limit, 0, g)]
    BY <2>1
  <2>3. g = [j \in 0..0 |-> Choice(chunks, order, limit, j, g)]
    BY <2>2
  <2> HIDE DEF g
  <2> QED
    BY <2>3
<1>2. ASSUME NEW k \in 0..n, k < n, some(k) PROVE some(k + 1)
  <2>1. PICK g : g = [j \in 0..k |-> Choice(chunks, order, limit, j, g)]
    BY <1>2
  <2> DEFINE h == [j \in 0..(k + 1) |-> Choice(chunks, order, limit, j, g)]
  <2>2. \A j \in 0..k : h[j] = g[j]
    BY <2>1
  <2>3. \A j \in 0..(k + 1) : Choice(chunks, order, limit, j, g) = Choice(chunks, order, limit, j, h)
    <3> SUFFICES ASSUME NEW j \in 0..(k + 1)
                 PROVE  Choice(chunks, order, limit, j, g) = Choice(chunks, order, limit, j, h)
      OBVIOUS
    <3>1. j = 0 \/ h[j - 1] = g[j - 1]
      <4>1. j = 0 \/ j - 1 \in 0..k
        OBVIOUS
      <4> HIDE DEF h
      <4> QED
        BY <2>2, <4>1
    <3> HIDE DEF h
    <3> QED
      BY <3>1 DEF Choice
  <2>4. h = [j \in 0..(k + 1) |-> Choice(chunks, order, limit, j, h)]
    BY <2>3
  <2> QED
    BY <2>4
<1> HIDE DEF some
<1>3. 0..n \subseteq S
  <2>1. \A k \in 0..n : k < n /\ k \in S => k + 1 \in S
    BY <1>2
  <2> HIDE DEF S
  <2> QED
    BY <1>1, <2>1, UpTo
<1>4. some(n)
  BY <1>3
<1> DEFINE after == CHOOSE f : f = [k \in 0..Len(order) |->
             IF k = 0 THEN [used |-> 0, parts |-> 0, length |-> 0]
             ELSE LET s == f[k - 1]
                      length == Attach!Length(chunks[order[k]])
                  IN IF 100 * s.used >= 85 * limit \/ s.used + length + JointCounted > limit THEN s
                     ELSE [used |-> s.used + length + JointCounted, parts |-> s.parts + 1,
                           length |-> s.length + length + IF s.parts > 0 THEN Joint ELSE 0]]
<1>5. Attach!Selected(chunks, order, limit) = after[n]
  BY DEF Attach!Selected
<1>6. after = [k \in 0..n |-> Choice(chunks, order, limit, k, after)]
  BY <1>4 DEF some, Choice
<1> HIDE DEF after, S
<1> DEFINE T == {k \in 0..n : Fits(after[k], limit)}
<1>7. 0 \in T
  <2>1. after[0] = [used |-> 0, parts |-> 0, length |-> 0]
    BY <1>6 DEF Choice
  <2> QED
    BY <2>1 DEF Fits
<1>8. ASSUME NEW k \in 0..n, k < n, Fits(after[k], limit) PROVE Fits(after[k + 1], limit)
  <2> DEFINE s == after[k]
             length == Attach!Length(chunks[order[k + 1]])
  <2>1. length \in Nat
    BY <1>8
  <2>2. after[k + 1] = IF 100 * s.used >= 85 * limit \/ s.used + length + JointCounted > limit THEN s
                       ELSE [used |-> s.used + length + JointCounted, parts |-> s.parts + 1,
                             length |-> s.length + length + IF s.parts > 0 THEN Joint ELSE 0]
    <3>1. after[k + 1] = Choice(chunks, order, limit, k + 1, after) /\ (k + 1) - 1 = k /\ k + 1 # 0
      BY <1>6, <1>8
    <3> QED
      BY <3>1 DEF Choice
  <2>3. Joint \in Nat /\ JointCounted \in Nat
    BY DEF Attach!AttachmentsAssumption
  <2> HIDE DEF length
  <2>4. Fits(s, limit)
    BY <1>8
  <2> HIDE DEF s
  <2>5. CASE after[k + 1] = s
    BY <2>4, <2>5
  <2>6. CASE /\ s.used + length + JointCounted <= limit
             /\ after[k + 1] = [used |-> s.used + length + JointCounted, parts |-> s.parts + 1,
                                length |-> s.length + length + IF s.parts > 0 THEN Joint ELSE 0]
    <3>1. s.parts \in Nat /\ s.length \in Nat /\ s.used \in Nat
      BY <2>4 DEF Fits
    <3>2. (s.parts + 1) * (Joint - JointCounted) = s.parts * (Joint - JointCounted) + (Joint - JointCounted)
      BY <2>3, <3>1
    <3> DEFINE D == Joint - JointCounted
               P == s.parts * D
    <3>3. D \in Int /\ P \in Int /\ (s.parts = 0 => P = 0) /\ (s.parts + 1) * D = P + D /\ D + JointCounted = Joint
      BY <2>3, <3>1, <3>2
    <3>4. s.parts > 0 => s.length = s.used + P - Joint
      BY <2>4 DEF Fits
    <3> DEFINE r == after[k + 1]
    <3>5. /\ r.used = s.used + length + JointCounted /\ r.parts = s.parts + 1
          /\ r.length = s.length + length + IF s.parts > 0 THEN Joint ELSE 0
      BY <2>6
    <3>6. s.used + length + JointCounted <= limit
      BY <2>6
    <3> HIDE DEF P, r
    <3>7. r.used \in 0..limit /\ r.parts \in Nat /\ r.parts > 0
      BY <2>1, <2>3, <3>1, <3>5, <3>6
    <3>8. r.length \in Nat
      BY <2>1, <2>3, <3>1, <3>5
    <3>9. r.length = r.used + r.parts * D - Joint
      <4>1. r.parts * D = P + D
        BY <3>3, <3>5
      <4>2. s.parts = 0 => s.length = 0 /\ s.used = 0
        BY <2>4 DEF Fits
      <4> HIDE DEF D
      <4>3. CASE s.parts = 0
        BY <2>1, <2>3, <3>1, <3>3, <3>5, <4>1, <4>2, <4>3
      <4>4. CASE s.parts > 0
        <5>1. s.length = s.used + P - Joint /\ r.length = s.length + length + Joint
          BY <3>4, <3>5, <4>4
        <5>2. P \in Int /\ D \in Int /\ D + JointCounted = Joint
          BY <3>3
        <5>3. r.length = s.used + length + P
          BY <2>1, <2>3, <3>1, <5>1, <5>2
        <5>4. r.used = s.used + length + JointCounted
          BY <3>5
        <5>5. PICK a \in Int, b \in Int, c \in Int, p \in Int, d \in Int :
                 a = s.used /\ b = length /\ c = JointCounted /\ p = P /\ d = D
          BY <2>1, <2>3, <3>1, <5>2
        <5>6. d + c = Joint
          BY <5>2, <5>5
        <5>7. (a + b + c) + (p + d) - Joint = a + b + p
          BY <2>3, <5>6
        <5>8. r.used + (P + D) - Joint = s.used + length + P
          BY <5>4, <5>5, <5>7
        <5> QED
          BY <4>1, <5>3, <5>8
      <4> QED
        BY <3>1, <4>3, <4>4
    <3>10. Fits(r, limit)
      BY <3>7, <3>8, <3>9 DEF Fits
    <3> QED
      BY <3>10 DEF r
  <2>7. s.used + length + JointCounted <= limit \/ s.used + length + JointCounted > limit
    BY <2>1, <2>3, <2>4 DEF Fits
  <2> QED
    BY <2>2, <2>5, <2>6, <2>7
<1>9. 0..n \subseteq T
  <2>1. \A k \in 0..n : k < n /\ k \in T => k + 1 \in T
    BY <1>8
  <2> HIDE DEF T
  <2> QED
    BY <1>7, <2>1, UpTo
<1> QED
  BY <1>5, <1>9

\* What a message includes of a text: nothing, or no more than the rest and what its
\* joints are longer than counted.
Included(i, rest) ==
  /\ i.length \in Nat /\ i.parts \in Nat /\ (i.parts = 0 => i.length = 0)
  /\ i.parts > 0 => rest > LeastRest /\ i.length <= rest + Attach!Uncounted(i)

LEMMA Over ==
  ASSUME Attach!AttachmentsAssumption, NEW i, i.parts \in Nat
  PROVE  /\ Attach!Uncounted(i) \in Nat
         /\ i.parts * (Joint - JointCounted) - Joint <= Attach!Uncounted(i)
<1> DEFINE x == i.parts * (Joint - JointCounted) - Joint
<1>1. x \in Int
  BY DEF Attach!AttachmentsAssumption
<1>2. \A a, b \in Int : Attach!Max({a, b}) = IF a >= b THEN a ELSE b
  BY DEF Attach!Max
<1>3. Attach!Uncounted(i) = Attach!Max({0, x})
  BY DEF Attach!Uncounted
<1> HIDE DEF x
<1>4. Attach!Uncounted(i) \in Nat /\ x <= Attach!Uncounted(i)
  BY <1>1, <1>2, <1>3
<1> QED
  BY <1>4 DEF x

LEMMA InclusionFits ==
  ASSUME Attach!AttachmentsAssumption, NEW u \in Uploads, NEW rest \in Int, NEW i \in Attach!Inclusions(TextOf[u], rest)
  PROVE  Included(i, rest)
<1> DEFINE text == TextOf[u]
           chunks == Attach!ChatChunks(text)
<1>1. LeastRest \in Nat /\ text.len \in Nat
  BY DEF Attach!AttachmentsAssumption
<1>2. CASE i = [length |-> 0, parts |-> 0]
  BY <1>2 DEF Included
<1>3. CASE /\ rest > LeastRest
           /\ \/ i = [length |-> text.len, parts |-> 1] /\ text.len <= rest
              \/ i = [length |-> rest, parts |-> 1]
  <2>1. i.parts = 1 /\ i.length \in Nat /\ i.length <= rest
    BY <1>1, <1>3
  <2>2. Attach!Uncounted(i) \in Nat
    BY <2>1, Over
  <2> QED
    BY <1>3, <2>1, <2>2 DEF Included
<1>4. ASSUME rest > LeastRest, NEW o \in Attach!Orders(Len(chunks)), Attach!Selected(chunks, o, rest).parts # 0,
             i = [length |-> Attach!Selected(chunks, o, rest).length, parts |-> Attach!Selected(chunks, o, rest).parts]
      PROVE  Included(i, rest)
  <2>1. From(0, text.len, Target, chunks)
    BY ChatCuts
  <2> HIDE DEF chunks
  <2> DEFINE m == Len(chunks)
  <2>2. m \in Nat /\ DOMAIN chunks = 1..m /\ \A k \in DOMAIN chunks : Attach!Length(chunks[k]) \in Nat
    <3>1. chunks \in Seq([from : 0..text.len, to : 0..text.len])
      BY <2>1 DEF From
    <3>2. DOMAIN chunks = 1..Len(chunks) /\ Len(chunks) \in Nat
      <4> DEFINE M == [from : 0..text.len, to : 0..text.len]
      <4> HIDE DEF M
      <4>1. chunks \in Seq(M)
        BY <3>1 DEF M
      <4> QED
        BY <4>1
    <3> QED
      BY <2>1, <3>2 DEF From, Attach!Length
  <2>3. PICK k \in 1..m : o \in [1..k -> 1..m]
    BY <1>4 DEF Attach!Orders
  <2>4. k \in Nat /\ o \in [1..k -> DOMAIN chunks] /\ Len(o) = k
    BY <2>2, <2>3
  <2> DEFINE s == Attach!Selected(chunks, o, rest)
  <2>5. rest \in Nat
    BY <1>1, <1>4
  <2>6. Fits(s, rest)
    BY <2>2, <2>4, <2>5, SelectedFits
  <2> HIDE DEF s
  <2>7. i.parts = s.parts /\ i.length = s.length /\ i.parts # 0
    BY <1>4 DEF s
  <2>8. i.parts \in Nat /\ i.parts > 0
    BY <2>6, <2>7 DEF Fits
  <2> DEFINE x == i.parts * (Joint - JointCounted)
             v == Attach!Uncounted(i)
  <2>9. v \in Nat /\ x - Joint <= v /\ x \in Int /\ Joint \in Nat
    BY <2>8, Over DEF Attach!AttachmentsAssumption
  <2>10. i.length \in Nat /\ i.length = s.used + x - Joint /\ s.used \in Nat /\ s.used <= rest
    BY <2>5, <2>6, <2>7, <2>8 DEF Fits
  <2> HIDE DEF x, v
  <2>11. i.length <= rest + v
    BY <2>9, <2>10
  <2> QED
    BY <1>4, <2>8, <2>10, <2>11 DEF Included, v
<1>5. \/ i = [length |-> 0, parts |-> 0]
      \/ /\ rest > LeastRest
         /\ \/ i = [length |-> text.len, parts |-> 1] /\ text.len <= rest
            \/ i = [length |-> rest, parts |-> 1]
            \/ \E o \in Attach!Orders(Len(chunks)) :
                 /\ Attach!Selected(chunks, o, rest).parts # 0
                 /\ i = [length |-> Attach!Selected(chunks, o, rest).length,
                         parts |-> Attach!Selected(chunks, o, rest).parts]
  <2> HIDE DEF chunks
  <2>1. CASE rest <= LeastRest
    BY <2>1 DEF Attach!Inclusions
  <2>2. CASE rest > LeastRest /\ text.len <= rest
    BY <1>1, <2>2 DEF Attach!Inclusions
  <2>3. CASE rest > LeastRest /\ ~(text.len <= rest)
    <3>1. ~(rest <= LeastRest)
      BY <1>1, <2>3
    <3>2. \/ i = [length |-> rest, parts |-> 1]
          \/ \E o \in Attach!Orders(Len(chunks)) :
               i = IF Attach!Selected(chunks, o, rest).parts = 0 THEN [length |-> rest, parts |-> 1]
                   ELSE [length |-> Attach!Selected(chunks, o, rest).length,
                         parts |-> Attach!Selected(chunks, o, rest).parts]
      BY <2>3, <3>1 DEF Attach!Inclusions, chunks
    <3> QED
      BY <2>3, <3>2
  <2> QED
    BY <1>1, <2>1, <2>2, <2>3
<1> QED
  BY <1>2, <1>3, <1>4, <1>5

\* An upload that is found is whole and stored, and so is one that a message names;
\* what the message includes keeps to its budget.
AttachSafe ==
  /\ Attach!TypeOK
  /\ \A u \in Uploads : /\ upload[u] \in {"copied", "stored"} => attached[u] = "whole"
                        /\ meta[u] = "whole" => upload[u] = "stored"
                        /\ upload[u] = "stored" => meta[u] = "whole"
  /\ message # None /\ ~message.refused =>
       /\ message.tokens \subseteq Attach!Resolved
       /\ message.first.length + message.second.length
            <= message.budget + Attach!Uncounted(message.first) + Attach!Uncounted(message.second)

LEMMA AttachInit == Attach!AttachmentsAssumption /\ Attach!Init => AttachSafe
<1> SUFFICES ASSUME Attach!AttachmentsAssumption, Attach!Init PROVE AttachSafe
  OBVIOUS
<1>1. Attach!TypeOK
  BY DEF Attach!AttachmentsAssumption, Attach!Init, Attach!TypeOK
<1>2. None # "whole"
  BY DEF Attach!AttachmentsAssumption
<1>3. \A u \in Uploads : upload[u] = "new" /\ meta[u] # "whole"
  BY <1>2 DEF Attach!Init
<1>4. message = None
  BY DEF Attach!Init
<1> QED
  BY <1>1, <1>3, <1>4 DEF AttachSafe

LEMMA AttachRests == AttachSafe /\ UNCHANGED attachVars => AttachSafe'
BY DEF AttachSafe, attachVars, Attach!TypeOK, Attach!Resolved, Attach!Uncounted

\* Two texts keep to a budget.
LEMMA TwoFit ==
  ASSUME Attach!AttachmentsAssumption, NEW budget \in Nat, NEW a, NEW b,
         Included(a, budget), Included(b, Attach!Rest(budget, a))
  PROVE  a.length + b.length <= budget + Attach!Uncounted(a) + Attach!Uncounted(b)
<1>1. a.parts \in Nat /\ b.parts \in Nat /\ a.length \in Nat /\ b.length \in Nat
  BY DEF Included
<1> DEFINE v == Attach!Uncounted(a)
           w == Attach!Uncounted(b)
<1>2. v \in Nat /\ w \in Nat
  BY <1>1, Over
<1>3. a.parts > 0 => a.length <= budget + v
  BY DEF Included
<1>4. b.parts > 0 => b.length <= Attach!Rest(budget, a) + w
  BY DEF Included
<1>5. (a.parts = 0 => a.length = 0) /\ (b.parts = 0 => b.length = 0)
  BY DEF Included
<1>6. Attach!Rest(budget, a) = IF a.parts = 0 THEN budget ELSE budget - (a.length + BlockFrame)
  BY DEF Attach!Rest
<1>7. BlockFrame \in Nat
  BY DEF Attach!AttachmentsAssumption
<1> HIDE DEF v, w
<1>8. a.length + b.length <= budget + v + w
  <2>1. CASE b.parts = 0
    BY <1>1, <1>2, <1>3, <1>5, <2>1
  <2>2. CASE b.parts > 0 /\ a.parts = 0
    BY <1>1, <1>2, <1>4, <1>5, <1>6, <2>2
  <2>3. CASE b.parts > 0 /\ a.parts > 0
    BY <1>1, <1>2, <1>4, <1>6, <1>7, <2>3
  <2> QED
    BY <1>1, <2>1, <2>2, <2>3
<1> QED
  BY <1>8 DEF v, w

LEMMA AttachStep == Attach!AttachmentsAssumption /\ AttachSafe /\ Attach!Next => AttachSafe'
<1> SUFFICES ASSUME Attach!AttachmentsAssumption, AttachSafe, Attach!Next PROVE AttachSafe'
  OBVIOUS
<1>1. ASSUME NEW u \in Uploads, UNCHANGED <<message, sends>>,
             Attach!Copy(u) \/ Attach!WriteMetadata(u) \/ Attach!CutOff(u)
      PROVE  AttachSafe'
  <2>1. /\ Attach!TypeOK'
        /\ \A x \in Uploads : /\ upload'[x] \in {"copied", "stored"} => attached'[x] = "whole"
                              /\ meta'[x] = "whole" => upload'[x] = "stored"
                              /\ upload'[x] = "stored" => meta'[x] = "whole"
        /\ \A x \in Uploads : upload[x] = "stored" => upload'[x] = "stored"
    <3>1. CASE Attach!Copy(u)
      BY <1>1, <3>1 DEF Attach!Copy, Attach!Goto, AttachSafe, Attach!TypeOK
    <3>2. CASE Attach!WriteMetadata(u)
      BY <1>1, <3>2 DEF Attach!WriteMetadata, Attach!Goto, AttachSafe, Attach!TypeOK, Attach!AttachmentsAssumption
    <3>3. CASE Attach!CutOff(u)
      BY <1>1, <3>3 DEF Attach!CutOff, Attach!Goto, AttachSafe, Attach!TypeOK
    <3> QED
      BY <1>1, <3>1, <3>2, <3>3
  <2>2. \A x \in Attach!Resolved : x \in Attach!Resolved'
    BY <2>1 DEF Attach!Resolved, AttachSafe, Attach!AttachmentsAssumption
  <2>3. message' = message
    BY <1>1
  <2> QED
    BY <2>1, <2>2, <2>3 DEF AttachSafe, Attach!Uncounted
<1>2. ASSUME NEW first \in Uploads, NEW second \in Uploads \cup {None}, NEW budget \in Budgets,
             Attach!Send(first, second, budget)
      PROVE  AttachSafe'
  <2>1. sends' = sends + 1 /\ sends < MaxSends /\ UNCHANGED <<upload, attached, meta>>
    BY <1>2 DEF Attach!Send
  <2>2. Attach!TypeOK' /\ Attach!Resolved' = Attach!Resolved
    BY <2>1 DEF AttachSafe, Attach!TypeOK, Attach!Resolved, Attach!AttachmentsAssumption
  <2>3. CASE message' = [refused |-> TRUE]
    BY <2>1, <2>2, <2>3 DEF AttachSafe
  <2>4. CASE message' # [refused |-> TRUE]
    <3>1. PICK failed \in SUBSET ({first, second} \ {None}) :
            LET Parts(u, rest) == IF u \in failed \cup {None} THEN {[length |-> 0, parts |-> 0]}
                               ELSE Attach!Inclusions(TextOf[u], rest)
            IN \E a \in Parts(first, budget) : \E b \in Parts(second, Attach!Rest(budget, a)) :
                 message' = [refused |-> FALSE, budget |-> budget, tokens |-> {first, second} \ {None},
                             first |-> a, second |-> b]
      BY <1>2, <2>4 DEF Attach!Send
    <3> DEFINE Parts(u, rest) == IF u \in failed \cup {None} THEN {[length |-> 0, parts |-> 0]}
                              ELSE Attach!Inclusions(TextOf[u], rest)
    <3>2. PICK a \in Parts(first, budget) : \E b \in Parts(second, Attach!Rest(budget, a)) :
                 message' = [refused |-> FALSE, budget |-> budget, tokens |-> {first, second} \ {None},
                             first |-> a, second |-> b]
      BY <3>1
    <3>3. PICK b \in Parts(second, Attach!Rest(budget, a)) :
                 message' = [refused |-> FALSE, budget |-> budget, tokens |-> {first, second} \ {None},
                             first |-> a, second |-> b]
      BY <3>2
    <3>4. ASSUME NEW u \in Uploads \cup {None}, NEW rest \in Int, NEW i \in Parts(u, rest) PROVE Included(i, rest)
      <4>1. CASE i = [length |-> 0, parts |-> 0]
        BY <4>1 DEF Included
      <4>2. CASE u \in Uploads /\ i \in Attach!Inclusions(TextOf[u], rest)
        BY <4>2, InclusionFits
      <4> QED
        BY <3>4, <4>1, <4>2
    <3>5. budget \in Nat
      BY DEF Attach!AttachmentsAssumption
    <3> HIDE DEF Parts
    <3>6. Included(a, budget)
      BY <3>2, <3>4, <3>5
    <3>7. Attach!Rest(budget, a) \in Int
      BY <3>5, <3>6 DEF Included, Attach!Rest, Attach!AttachmentsAssumption
    <3>8. Included(b, Attach!Rest(budget, a))
      BY <3>3, <3>4, <3>7
    <3>9. a.length + b.length <= budget + Attach!Uncounted(a) + Attach!Uncounted(b)
      BY <3>5, <3>6, <3>8, TwoFit
    <3>10. {first, second} \ {None} \subseteq Attach!Resolved
      BY <1>2, <2>4 DEF Attach!Send
    <3>11. /\ message'.budget = budget /\ message'.tokens = {first, second} \ {None}
           /\ message'.first = a /\ message'.second = b
      BY <3>3
    <3>12. /\ message'.tokens \subseteq Attach!Resolved'
           /\ message'.first.length + message'.second.length
                <= message'.budget + Attach!Uncounted(message'.first) + Attach!Uncounted(message'.second)
      BY <2>2, <3>9, <3>10, <3>11
    <3> QED
      BY <2>1, <2>2, <3>12 DEF AttachSafe, Attach!Uncounted
  <2> QED
    BY <2>3, <2>4
<1> QED
  BY <1>1, <1>2 DEF Attach!Next, Attach!Copy, Attach!WriteMetadata, Attach!CutOff

\* The attachments are what they promise.
LEMMA AttachKept ==
  Attach!AttachmentsAssumption /\ AttachSafe
    => Attach!UploadsWhole /\ Attach!ChunksCover /\ Attach!ContextBounded /\ Attach!TypeOK
<1> SUFFICES ASSUME Attach!AttachmentsAssumption, AttachSafe
             PROVE  Attach!UploadsWhole /\ Attach!ChunksCover /\ Attach!ContextBounded /\ Attach!TypeOK
  OBVIOUS
<1>1. Attach!UploadsWhole
  BY DEF AttachSafe, Attach!UploadsWhole, Attach!Resolved
<1>2. Attach!ChunksCover
  BY ChatCovers DEF Attach!ChunksCover, Attach!Resolved
<1>3. Attach!ContextBounded
  BY DEF AttachSafe, Attach!ContextBounded
<1> QED
  BY <1>1, <1>2, <1>3 DEF AttachSafe

-----------------------------------------------------------------------------
(* Places in finite sets of integers, and what is selected from sequences.  *)

\* Each member of a finite set has a place, and the places are in order.
LEMMA NthPlaces ==
  ASSUME NEW K, IsFiniteSet(K), K \subseteq Int
  PROVE  /\ Cardinality(K) \in Nat
         /\ \A n \in 1..Cardinality(K) : Nth(K, n) \in K
         /\ \A m, n \in 1..Cardinality(K) : m < n => Nth(K, m) < Nth(K, n)
         /\ \A k \in K : \E n \in 1..Cardinality(K) : Nth(K, n) = k
<1> DEFINE below(k) == {j \in K : j < k}
           rank == [k \in K |-> Cardinality(below(k)) + 1]
           size == Cardinality(K)
<1>1. size \in Nat
  BY FS_CardinalityType
<1>2. \A k \in K : IsFiniteSet(below(k)) /\ Cardinality(below(k)) \in Nat /\ Cardinality(below(k)) < size
  <2> SUFFICES ASSUME NEW k \in K
               PROVE  IsFiniteSet(below(k)) /\ Cardinality(below(k)) \in Nat /\ Cardinality(below(k)) < size
    OBVIOUS
  <2>1. below(k) \in SUBSET K /\ k \notin below(k)
    OBVIOUS
  <2>2. IsFiniteSet(below(k)) /\ Cardinality(below(k)) <= size /\ (size = Cardinality(below(k)) => K = below(k))
    BY <2>1, FS_Subset
  <2>3. Cardinality(below(k)) \in Nat
    BY <2>2, FS_CardinalityType
  <2> HIDE DEF below
  <2> QED
    BY <1>1, <2>1, <2>2, <2>3
<1>3. \A j, k \in K : j < k => Cardinality(below(j)) < Cardinality(below(k))
  <2> SUFFICES ASSUME NEW j \in K, NEW k \in K, j < k PROVE Cardinality(below(j)) < Cardinality(below(k))
    OBVIOUS
  <2>1. below(j) \in SUBSET below(k) /\ j \in below(k) /\ j \notin below(j)
    <3>1. \A i \in K : i < j => i < k
      <4> SUFFICES ASSUME NEW i \in K, i < j PROVE i < k
        OBVIOUS
      <4>1. i \in Int /\ j \in Int /\ k \in Int
        OBVIOUS
      <4> QED
        BY <4>1
    <3>2. ~(j < j)
      <4>1. j \in Int
        OBVIOUS
      <4> QED
        BY <4>1
    <3> QED
      BY <3>1, <3>2
  <2>2. Cardinality(below(j)) <= Cardinality(below(k)) /\ (Cardinality(below(k)) = Cardinality(below(j)) => below(k) = below(j))
    BY <1>2, <2>1, FS_Subset
  <2> HIDE DEF below
  <2> QED
    BY <1>2, <2>1, <2>2
<1>4. \A j, k \in K : j # k => Cardinality(below(j)) # Cardinality(below(k))
  <2> SUFFICES ASSUME NEW j \in K, NEW k \in K, j # k PROVE Cardinality(below(j)) # Cardinality(below(k))
    OBVIOUS
  <2>1. j < k \/ k < j
    <3>1. j \in Int /\ k \in Int
      OBVIOUS
    <3> QED
      BY <3>1
  <2> HIDE DEF below
  <2> QED
    BY <1>2, <1>3, <2>1
<1> HIDE DEF below
<1>5. rank \in Injection(K, 1..size)
  <2>1. rank \in [K -> 1..size]
    BY <1>1, <1>2
  <2>2. \A j, k \in K : rank[j] = rank[k] => j = k
    BY <1>2, <1>4
  <2> QED
    BY <2>1, <2>2 DEF Injection, IsInjective
<1>6. rank \in Surjection(K, 1..size)
  <2>1. IsFiniteSet(1..size) /\ Cardinality(1..size) = size
    BY <1>1, FS_Interval
  <2> HIDE DEF rank
  <2> QED
    BY <1>5, <2>1, FS_Injection
<1>7. \A n \in 1..size : \E k \in K : Cardinality(below(k)) = n - 1
  <2> SUFFICES ASSUME NEW n \in 1..size PROVE \E k \in K : Cardinality(below(k)) = n - 1
    OBVIOUS
  <2>1. PICK k \in K : rank[k] = n
    BY <1>6 DEF Surjection
  <2> QED
    BY <1>2, <2>1
<1>8. \A n \in 1..size : Nth(K, n) \in K /\ Cardinality(below(Nth(K, n))) = n - 1
  <2> SUFFICES ASSUME NEW n \in 1..size PROVE Nth(K, n) \in K /\ Cardinality(below(Nth(K, n))) = n - 1
    OBVIOUS
  <2>1. Nth(K, n) = CHOOSE k \in K : Cardinality(below(k)) = n - 1
    BY DEF Nth, below
  <2> QED
    BY <1>7, <2>1
<1>9. \A m, n \in 1..size : m < n => Nth(K, m) < Nth(K, n)
  <2> SUFFICES ASSUME NEW m \in 1..size, NEW n \in 1..size, m < n PROVE Nth(K, m) < Nth(K, n)
    OBVIOUS
  <2>1. PICK a \in Int : a = Nth(K, m) /\ a \in K /\ Cardinality(below(a)) = m - 1
    BY <1>8
  <2>2. PICK b \in Int : b = Nth(K, n) /\ b \in K /\ Cardinality(below(b)) = n - 1
    BY <1>8
  <2>3. ~(b < a) /\ a # b
    BY <1>1, <1>3, <2>1, <2>2
  <2> QED
    BY <2>1, <2>2, <2>3
<1>10. \A k \in K : \E n \in 1..size : Nth(K, n) = k
  <2> SUFFICES ASSUME NEW k \in K PROVE \E n \in 1..size : Nth(K, n) = k
    OBVIOUS
  <2> DEFINE n == Cardinality(below(k)) + 1
  <2>1. n \in 1..size /\ n - 1 = Cardinality(below(k))
    BY <1>1, <1>2
  <2> HIDE DEF n
  <2>2. Nth(K, n) \in K /\ Cardinality(below(Nth(K, n))) = Cardinality(below(k))
    BY <1>8, <2>1
  <2>3. Nth(K, n) = k
    BY <1>4, <2>2
  <2> QED
    BY <2>1, <2>3
<1> QED
  BY <1>1, <1>8, <1>9, <1>10

\* What is selected from a sequence is there in its order, and all that is in the set.
LEMMA AmongPlaces ==
  ASSUME NEW X, NEW s \in Seq(X), NEW K \in SUBSET DOMAIN s
  PROVE  /\ Selected(s, K) \in Seq(X) /\ Len(Selected(s, K)) = Cardinality(K)
         /\ \E g \in [1..Cardinality(K) -> K] :
              /\ \A n \in 1..Cardinality(K) : Selected(s, K)[n] = s[g[n]]
              /\ \A m, n \in 1..Cardinality(K) : m < n => g[m] < g[n]
              /\ \A k \in K : \E n \in 1..Cardinality(K) : g[n] = k
<1>1. IsFiniteSet(K) /\ K \subseteq Int
  <2>1. DOMAIN s = 1..Len(s) /\ Len(s) \in Nat
    OBVIOUS
  <2>2. IsFiniteSet(1..Len(s))
    BY <2>1, FS_Interval
  <2>3. K \in SUBSET (1..Len(s))
    BY <2>1
  <2>4. IsFiniteSet(K)
    BY <2>2, <2>3, FS_Subset
  <2>5. \A k \in 1..Len(s) : k \in Int
    BY <2>1
  <2> QED
    BY <2>3, <2>4, <2>5
<1>2. /\ Cardinality(K) \in Nat
      /\ \A n \in 1..Cardinality(K) : Nth(K, n) \in K
      /\ \A m, n \in 1..Cardinality(K) : m < n => Nth(K, m) < Nth(K, n)
      /\ \A k \in K : \E n \in 1..Cardinality(K) : Nth(K, n) = k
  BY <1>1, NthPlaces
<1> DEFINE g == [n \in 1..Cardinality(K) |-> Nth(K, n)]
<1>3. Selected(s, K) = [n \in 1..Cardinality(K) |-> s[Nth(K, n)]]
  BY DEF Selected
<1>4. Selected(s, K) \in [1..Cardinality(K) -> X]
  <2>1. \A k \in K : s[k] \in X
    OBVIOUS
  <2> QED
    BY <1>2, <1>3, <2>1
<1>5. Selected(s, K) \in Seq(X) /\ Len(Selected(s, K)) = Cardinality(K)
  BY <1>2, <1>4
<1>6. g \in [1..Cardinality(K) -> K]
  BY <1>2
<1>7. /\ \A n \in 1..Cardinality(K) : Selected(s, K)[n] = s[g[n]]
      /\ \A m, n \in 1..Cardinality(K) : m < n => g[m] < g[n]
      /\ \A k \in K : \E n \in 1..Cardinality(K) : g[n] = k
  BY <1>2, <1>3
<1> HIDE DEF g
<1> QED
  BY <1>5, <1>6, <1>7

-----------------------------------------------------------------------------
(* The pages of the history.                                               *)

LEMMA ViewSame ==
  /\ \A S : View!Cardinality(S) = Cardinality(S)
  /\ \A s : View!ToSet(s) = {s[k] : k \in DOMAIN s}
  /\ \A K : View!Descending(K) = Descending(K)
  /\ \A s, S : View!Among(s, S) = Selected(s, {k \in DOMAIN s : s[k] \in S})
<1>1. \A S : View!Cardinality(S) = Cardinality(S)
  BY DEF View!Cardinality, View!IsFiniteSet, Cardinality, IsFiniteSet
<1>2. \A K, n : View!Nth(K, n) = Nth(K, n)
  BY <1>1 DEF View!Nth, Nth
<1>3. \A s : View!ToSet(s) = {s[k] : k \in DOMAIN s}
  BY DEF View!ToSet
<1>4. \A K : View!Descending(K) = Descending(K)
  BY <1>1, <1>2 DEF View!Descending, Descending
<1>5. \A s, K : View!Selected(s, K) = Selected(s, K)
  BY <1>1, <1>2 DEF View!Selected, Selected
<1>6. \A s, S : View!Among(s, S) = Selected(s, {k \in DOMAIN s : s[k] \in S})
  BY <1>5 DEF View!Among
<1> QED
  BY <1>1, <1>3, <1>4, <1>6

Filters == {"all", "favorite"}
Shows(s) == {s[k] : k \in DOMAIN s}
Single(s) == \A k, l \in DOMAIN s : s[k] = s[l] => k = l
PageCalls ==
  [kind : {"reload", "more"}, version : Nat, filter : Filters, offset : Nat, rows : Seq(View!Ids), served : BOOLEAN]

\* Of the images that were not listed anew none is left out above one that is in a set, or
\* below when the set is all there is; and those in a sequence are in their order.
Complete(S, end) ==
  \A i \in View!Ids \ grown : View!Matches(i, filter) /\ (\E j \in S : i > j \/ end) => i \in S
Falling(s) ==
  \A k, l \in DOMAIN s :
    /\ k < l /\ s[k] \notin grown /\ s[l] \notin grown
    /\ View!Matches(s[k], filter) /\ View!Matches(s[l], filter)
    => s[k] > s[l]

OfNow(c) == c.version = version

\* Among the requests under way one at most is current.
ViewCalls ==
  /\ pages \subseteq PageCalls
  /\ \A c \in pages : c.version <= version /\ Single(c.rows) /\ (c.kind = "reload" => c.offset = 0)
  /\ \A c, d \in pages : OfNow(c) /\ OfNow(d) => c = d
  /\ \A c \in pages : OfNow(c) => loading /\ c.filter = filter

\* What is shown has no gap unless a reload is under way; what was read for it has none, and
\* what was read for a further page has none together with what is shown.
ViewSafe ==
  /\ View!TypeOK /\ shifted \in BOOLEAN /\ ViewCalls /\ Single(items)
  /\ (\A c \in pages : OfNow(c) => c.kind # "reload") /\ ~shifted =>
       Complete(Shows(items), ~more) /\ Falling(items)
  /\ \A c \in pages : OfNow(c) /\ c.served =>
       /\ Falling(c.rows)
       /\ c.kind = "reload" => Complete(Shows(c.rows), Len(c.rows) # Page)
       /\ c.kind = "more" /\ ~shifted => Complete(Shows(items) \cup Shows(c.rows), Len(c.rows) # Page)
  /\ \A c \in pages : OfNow(c) /\ c.kind = "more" /\ ~c.served => Len(items) <= c.offset

\* The list is of what matches, the newest first.
LEMMA ListIs ==
  ASSUME View!LibraryAssumption, NEW f
  PROVE  /\ View!Listed(f) \in Seq(View!Ids)
         /\ \A k \in DOMAIN View!Listed(f) : View!Matches(View!Listed(f)[k], f)
         /\ \A k, l \in DOMAIN View!Listed(f) : k < l => View!Listed(f)[k] > View!Listed(f)[l]
         /\ \A i \in View!Ids : View!Matches(i, f) => \E k \in DOMAIN View!Listed(f) : View!Listed(f)[k] = i
<1> DEFINE S == {i \in View!Ids : View!Matches(i, f)}
           n == Cardinality(S)
           list == View!Listed(f)
<1>1. IsFiniteSet(S) /\ S \subseteq Int /\ S \subseteq View!Ids
  <2>1. IsFiniteSet(View!Ids) /\ View!Ids \subseteq Int
    BY FS_Interval DEF View!Ids, View!LibraryAssumption
  <2>2. S \in SUBSET View!Ids
    OBVIOUS
  <2> HIDE DEF S
  <2> QED
    BY <2>1, <2>2, FS_Subset
<1>2. list = [k \in 1..n |-> Nth(S, n + 1 - k)]
  BY ViewSame DEF View!Listed, Descending
<1>3. \A i \in S : i \in View!Ids /\ View!Matches(i, f)
  OBVIOUS
<1>4. \A i \in View!Ids : View!Matches(i, f) => i \in S
  OBVIOUS
<1> HIDE DEF S
<1>5. /\ n \in Nat
      /\ \A k \in 1..n : Nth(S, k) \in S
      /\ \A k, l \in 1..n : k < l => Nth(S, k) < Nth(S, l)
      /\ \A i \in S : \E k \in 1..n : Nth(S, k) = i
  BY <1>1, NthPlaces
<1> HIDE DEF n, list
<1>6. \A k \in 1..n : n + 1 - k \in 1..n /\ list[k] = Nth(S, n + 1 - k)
  BY <1>2, <1>5
<1>7. DOMAIN list = 1..n /\ \A k \in 1..n : list[k] \in S
  BY <1>2, <1>5, <1>6
<1>8. list \in Seq(View!Ids)
  <2>1. list \in [1..n -> View!Ids]
    BY <1>2, <1>1, <1>7
  <2> QED
    BY <1>5, <2>1
<1>9. \A k, l \in 1..n : k < l => list[k] > list[l]
  <2> SUFFICES ASSUME NEW k \in 1..n, NEW l \in 1..n, k < l PROVE list[k] > list[l]
    OBVIOUS
  <2>1. n + 1 - l < n + 1 - k
    BY <1>5
  <2>2. Nth(S, n + 1 - l) < Nth(S, n + 1 - k)
    BY <1>5, <1>6, <2>1
  <2>3. PICK a \in Int : a = Nth(S, n + 1 - k)
    BY <1>1, <1>6, <1>7
  <2>4. PICK b \in Int : b = Nth(S, n + 1 - l)
    BY <1>1, <1>6, <1>7
  <2> QED
    BY <1>6, <2>2, <2>3, <2>4
<1>10. \A i \in S : \E k \in 1..n : list[k] = i
  <2> SUFFICES ASSUME NEW i \in S PROVE \E k \in 1..n : list[k] = i
    OBVIOUS
  <2>1. PICK k \in 1..n : Nth(S, k) = i
    BY <1>5
  <2>2. n + 1 - k \in 1..n /\ n + 1 - (n + 1 - k) = k
    BY <1>5
  <2> QED
    BY <1>6, <2>1, <2>2
<1> QED
  BY <1>3, <1>4, <1>7, <1>8, <1>9, <1>10 DEF list

\* A page is what the list has from its place on, and less than a page is the last one.
LEMMA PageIs ==
  ASSUME View!LibraryAssumption, NEW list \in Seq(View!Ids), NEW offset \in Nat
  PROVE  /\ View!PageAt(list, offset) \in Seq(View!Ids)
         /\ \A k \in DOMAIN View!PageAt(list, offset) :
              offset + k \in DOMAIN list /\ View!PageAt(list, offset)[k] = list[offset + k]
         /\ \A k \in DOMAIN list : k > offset /\ (k <= offset + Page \/ Len(View!PageAt(list, offset)) # Page) =>
              \E l \in DOMAIN View!PageAt(list, offset) : offset + l = k
<1> DEFINE m == offset + 1
           n == IF offset + Page < Len(list) THEN offset + Page ELSE Len(list)
           page == View!PageAt(list, offset)
<1>1. Page \in Nat \ {0} /\ Len(list) \in Nat /\ DOMAIN list = 1..Len(list) /\ \A k \in 1..Len(list) : list[k] \in View!Ids
  BY DEF View!LibraryAssumption
<1>2. m \in Int /\ n \in Int /\ n <= Len(list) /\ m >= 1
  BY <1>1
<1>3. page = SubSeq(list, m, n)
  BY DEF View!PageAt
<1>4. \A k \in m..n : list[k] \in View!Ids
  BY <1>1, <1>2
<1> HIDE DEF m, n, page
<1>5. /\ page \in Seq(View!Ids) /\ Len(page) = IF m <= n THEN n - m + 1 ELSE 0
      /\ \A k \in 1..(n - m + 1) : page[k] = list[m + k - 1]
  BY <1>2, <1>3, <1>4, SubSeqProperties
<1>6. DOMAIN page = 1..Len(page) /\ Len(page) \in Nat
  BY <1>5
<1>7. \A k \in DOMAIN page : k \in 1..(n - m + 1) /\ offset + k \in 1..Len(list) /\ m + k - 1 = offset + k
  BY <1>2, <1>5, <1>6 DEF m
<1>8. \A k \in DOMAIN page : offset + k \in DOMAIN list /\ page[k] = list[offset + k]
  BY <1>1, <1>5, <1>7
<1>9. \A k \in DOMAIN list : k > offset /\ (k <= offset + Page \/ Len(page) # Page) =>
        k - offset \in DOMAIN page /\ offset + (k - offset) = k
  <2> SUFFICES ASSUME NEW k \in DOMAIN list, k > offset, k <= offset + Page \/ Len(page) # Page
               PROVE  k - offset \in DOMAIN page /\ offset + (k - offset) = k
    OBVIOUS
  <2>1. PICK size \in Nat : size = Len(list) /\ k \in 1..size
    BY <1>1
  <2>2. n = IF offset + Page < size THEN offset + Page ELSE size
    BY <2>1 DEF n
  <2>3. PICK all \in Nat : all = Len(page)
    BY <1>6
  <2>4. all = IF m <= n THEN n - m + 1 ELSE 0
    BY <1>5, <2>3
  <2>5. k - offset \in 1..all
    <3>1. PICK width \in Nat \ {0} : width = Page
      BY <1>1
    <3>2. k \in Int /\ m = offset + 1 /\ n \in Int
      BY <1>2, <2>1 DEF m
    <3>3. CASE offset + width < size
      <4>1. n = offset + width /\ all = width
        BY <2>2, <2>4, <3>1, <3>2, <3>3
      <4>2. k <= offset + width
        BY <2>3, <3>1, <4>1
      <4> QED
        BY <3>1, <3>2, <4>1, <4>2
    <3>4. CASE ~(offset + width < size)
      <4>1. n = size
        BY <2>2, <3>1, <3>4
      <4>2. m <= n
        BY <2>1, <3>2, <4>1
      <4> QED
        BY <2>1, <2>4, <3>2, <4>1, <4>2
    <3> QED
      BY <3>3, <3>4
  <2> QED
    BY <1>6, <2>1, <2>3, <2>5
<1> QED
  BY <1>5, <1>8, <1>9 DEF page

\* What is complete and in order stays so while images change that are listed anew.
LEMMA Thinner ==
  ASSUME filter' = filter, grown \subseteq grown',
         \A i \in View!Ids \ grown' : View!Matches(i, filter)' => View!Matches(i, filter)
  PROVE  /\ \A S, end : Complete(S, end) => Complete(S, end)'
         /\ \A s \in Seq(View!Ids) : Falling(s) => Falling(s)'
<1>1. ASSUME NEW S, NEW end, Complete(S, end) PROVE Complete(S, end)'
  BY <1>1 DEF Complete
<1>2. ASSUME NEW s \in Seq(View!Ids), Falling(s) PROVE Falling(s)'
  <2>1. \A k \in DOMAIN s : s[k] \in View!Ids
    OBVIOUS
  <2> SUFFICES ASSUME NEW k \in DOMAIN s, NEW l \in DOMAIN s, k < l, s[k] \notin grown', s[l] \notin grown',
                      View!Matches(s[k], filter)', View!Matches(s[l], filter)'
               PROVE  s[k] > s[l]
    BY DEF Falling
  <2>2. View!Matches(s[k], filter) /\ View!Matches(s[l], filter) /\ s[k] \notin grown /\ s[l] \notin grown
    BY <2>1
  <2> QED
    BY <1>2, <2>2 DEF Falling
<1> QED
  BY <1>1, <1>2

LEMMA ViewInit == View!LibraryAssumption /\ View!Init => ViewSafe
<1> SUFFICES ASSUME View!LibraryAssumption, View!Init PROVE ViewSafe
  OBVIOUS
<1>1. PICK n \in 0..MaxPictures : image = [i \in View!Ids |-> IF i <= n THEN "valid" ELSE "none"]
  BY DEF View!Init
<1>2. View!TypeOK
  <2>1. image \in [View!Ids -> {"none", "valid", "missing", "gone"}]
    BY <1>1
  <2>2. favorites \subseteq View!Ids
    BY DEF View!Init
  <2>3. items \in Seq(View!Ids)
    BY DEF View!Init
  <2>4. 0 \in 0..MaxRowChanges /\ 0 \in 0..MaxReloads
    BY DEF View!LibraryAssumption
  <2> QED
    BY <2>1, <2>2, <2>3, <2>4 DEF View!Init, View!TypeOK
<1>3. DOMAIN items = {} /\ Shows(items) = {}
  BY DEF View!Init, Shows
<1>4. Complete(Shows(items), ~more) /\ Falling(items) /\ Single(items)
  BY <1>3 DEF Complete, Falling, Single
<1> QED
  BY <1>2, <1>4 DEF View!Init, ViewSafe, ViewCalls

\* A change of the rows that leaves the view as it is.
LEMMA RowsMove ==
  ASSUME ViewSafe, UNCHANGED <<filter, items, more, version, loading, pages, shifted>>,
         View!TypeOK', grown \subseteq grown',
         \A i \in View!Ids \ grown' : View!Matches(i, filter)' => View!Matches(i, filter)
  PROVE  ViewSafe'
<1>1. /\ \A S, end : Complete(S, end) => Complete(S, end)'
      /\ \A s \in Seq(View!Ids) : Falling(s) => Falling(s)'
  BY Thinner
<1>2. ViewCalls'
  BY DEF ViewSafe, ViewCalls, OfNow
<1>3. items \in Seq(View!Ids) /\ \A c \in pages : c.rows \in Seq(View!Ids)
  BY DEF ViewSafe, ViewCalls, PageCalls, View!TypeOK
<1>4. PICK seen0, rest0 : seen0 = items /\ rest0 = ~more
  OBVIOUS
<1>5. (\A c \in pages : OfNow(c) => c.kind # "reload") /\ ~shifted =>
        Complete(Shows(seen0), rest0)' /\ Falling(seen0)'
  BY <1>1, <1>3, <1>4 DEF ViewSafe
<1>6. \A c \in pages : OfNow(c) /\ c.served =>
       /\ Falling(c.rows)'
       /\ c.kind = "reload" => Complete(Shows(c.rows), Len(c.rows) # Page)'
       /\ c.kind = "more" /\ ~shifted => Complete(Shows(seen0) \cup Shows(c.rows), Len(c.rows) # Page)'
  BY <1>1, <1>3, <1>4 DEF ViewSafe
<1>7. Complete(Shows(seen0), rest0)' /\ Falling(seen0)' => Complete(Shows(items), ~more)' /\ Falling(items)'
  BY <1>4 DEF Complete, Shows, Falling
<1>8. \A c \in pages : Complete(Shows(seen0) \cup Shows(c.rows), Len(c.rows) # Page)' =>
        Complete(Shows(items) \cup Shows(c.rows), Len(c.rows) # Page)'
  BY <1>4 DEF Complete, Shows
<1> QED
  BY <1>2, <1>5, <1>6, <1>7, <1>8 DEF ViewSafe, OfNow, Single

LEMMA RowsStep ==
  ASSUME View!LibraryAssumption, ViewSafe, NEW i \in View!Ids,
         View!Make(i) \/ View!Mark(i) \/ View!Delete(i) \/ View!Favor(i)
  PROVE  ViewSafe'
<1>1. View!TypeOK
  BY DEF ViewSafe
<1>2. rowChanges' \in 0..MaxRowChanges
  BY <1>1 DEF View!Make, View!Mark, View!Delete, View!Favor, View!Change, View!TypeOK, View!LibraryAssumption
<1>3. /\ image' \in [View!Ids -> {"none", "valid", "missing", "gone"}]
      /\ favorites' \subseteq View!Ids /\ grown' \subseteq View!Ids
  BY <1>1 DEF View!Make, View!Mark, View!Delete, View!Favor, View!TypeOK, View!history, View!view
<1>4. UNCHANGED <<filter, items, more, version, loading, pages, shifted>>
  BY DEF View!Make, View!Mark, View!Delete, View!Favor, View!history, View!view
<1>5. View!TypeOK'
  BY <1>1, <1>2, <1>3, <1>4 DEF View!TypeOK
<1>6. grown \subseteq grown'
  BY DEF View!Make, View!Mark, View!Delete, View!Favor, View!history
<1>7. \A j \in View!Ids \ grown' : View!Matches(j, filter)' => View!Matches(j, filter)
  <2> SUFFICES ASSUME NEW j \in View!Ids \ grown', View!Matches(j, filter)' PROVE View!Matches(j, filter)
    OBVIOUS
  <2>1. image' [j] = "valid" /\ (filter = "favorite" => j \in favorites')
    BY <1>4 DEF View!Matches
  <2>2. CASE View!Make(i) \/ View!Mark(i)
    BY <1>1, <2>1, <2>2 DEF View!Make, View!Mark, View!Matches, View!TypeOK
  <2>3. CASE View!Delete(i)
    BY <1>1, <2>1, <2>3 DEF View!Delete, View!Matches, View!TypeOK
  <2>4. CASE View!Favor(i)
    BY <1>1, <2>1, <2>4 DEF View!Favor, View!Matches, View!TypeOK
  <2> QED
    BY <2>2, <2>3, <2>4
<1> QED
  BY <1>4, <1>5, <1>6, <1>7, RowsMove

\* Without a change of the images what is complete and in order stays so.
LEMMA Same ==
  ASSUME UNCHANGED <<image, favorites, filter, grown>>
  PROVE  /\ \A S, end : Complete(S, end) => Complete(S, end)'
         /\ \A s : Falling(s) => Falling(s)'
BY DEF Complete, Falling, View!Matches

LEMMA Joined ==
  ASSUME UNCHANGED <<image, favorites, filter, grown, items>>
  PROVE  \A s, end : Complete(Shows(items) \cup Shows(s), end) => Complete(Shows(items) \cup Shows(s), end)'
<1> SUFFICES ASSUME NEW s, NEW end, Complete(Shows(items) \cup Shows(s), end)
             PROVE  Complete(Shows(items) \cup Shows(s), end)'
  OBVIOUS
<1>1. PICK S : S = Shows(items) \cup Shows(s)
  OBVIOUS
<1>2. (Shows(items) \cup Shows(s))' = S
  BY <1>1 DEF Shows
<1>3. Complete(S, end)'
  BY <1>1, Same
<1> QED
  BY <1>2, <1>3 DEF Complete

LEMMA AskSafe ==
  ASSUME View!LibraryAssumption, ViewSafe, View!LoadMore \/ \E f \in Filters : View!Reload(f)
  PROVE  ViewSafe'
<1>0. View!TypeOK /\ ViewCalls /\ version \in Nat
  BY DEF ViewSafe, View!TypeOK
<1>1. CASE View!LoadMore
  <2>0. PICK new : new = View!Call("more", version, filter, Len(items))
    OBVIOUS
  <2>1. /\ ~loading /\ loading' = TRUE /\ pages' = pages \cup {new}
        /\ UNCHANGED <<image, favorites, rowChanges, filter, items, more, version, shifted, grown>>
    BY <1>1, <2>0 DEF View!LoadMore, View!history
  <2>2. /\ new \in PageCalls /\ new.version = version /\ new.filter = filter /\ new.kind = "more"
        /\ ~new.served /\ Single(new.rows) /\ new.offset = Len(items)
    BY <1>0, <2>0 DEF View!Call, PageCalls, View!TypeOK, Filters, Single
  <2>3. \A c \in pages : ~OfNow(c)
    BY <1>0, <2>1 DEF ViewCalls
  <2>4. View!TypeOK'
    BY <1>0, <2>1 DEF View!TypeOK
  <2>5. ViewCalls'
    BY <1>0, <2>1, <2>2, <2>3 DEF ViewCalls, OfNow
  <2>6. Complete(Shows(items), ~more) /\ Falling(items) =>
          (Complete(Shows(items), ~more) /\ Falling(items))'
    BY <2>1 DEF Complete, Falling, Shows, View!Matches
  <2>7. \A c \in pages' : OfNow(c)' => c = new
    BY <2>1, <2>3 DEF OfNow
  <2>8. Len(items)' = new.offset /\ Len(items) \in Nat
    BY <1>0, <2>1, <2>2 DEF View!TypeOK
  <2>9. ~shifted' => (Complete(Shows(items), ~more) /\ Falling(items))'
    BY <2>1, <2>3, <2>6 DEF ViewSafe
  <2>10. Single(items)' /\ shifted' \in BOOLEAN
    BY <2>1 DEF ViewSafe, Single
  <2> QED
    BY <2>2, <2>4, <2>5, <2>7, <2>8, <2>9, <2>10 DEF ViewSafe
<1>2. ASSUME NEW f \in Filters, View!Reload(f) PROVE ViewSafe'
  <2>0. PICK new : new = View!Call("reload", version + 1, f, 0)
    OBVIOUS
  <2>1. /\ version < MaxReloads /\ filter' = f /\ version' = version + 1 /\ loading' = TRUE
        /\ pages' = pages \cup {new}
        /\ UNCHANGED <<image, favorites, rowChanges, items, more, shifted, grown>>
    BY <1>2, <2>0 DEF View!Reload, View!history
  <2>2. /\ new \in PageCalls /\ new.version = version + 1 /\ new.filter = f /\ new.kind = "reload"
        /\ ~new.served /\ Single(new.rows) /\ new.offset = 0
    BY <1>0, <2>0 DEF View!Call, PageCalls, Single
  <2>3. \A c \in pages : c.version <= version /\ c.version \in Nat
    BY <1>0 DEF ViewCalls, PageCalls
  <2>4. View!TypeOK'
    BY <1>0, <2>1 DEF View!TypeOK, View!LibraryAssumption, Filters
  <2>5. \A c \in pages' : OfNow(c)' => c = new
    BY <1>0, <2>1, <2>3 DEF OfNow
  <2>6. OfNow(new)' /\ new \in pages'
    BY <2>1, <2>2 DEF OfNow
  <2>7. ViewCalls'
    <3>1. \A c \in pages' : c.version <= version'
      BY <1>0, <2>1, <2>2, <2>3
    <3> QED
      BY <1>0, <2>1, <2>2, <2>5, <3>1 DEF ViewCalls
  <2>8. Single(items)' /\ shifted' \in BOOLEAN
    BY <2>1 DEF ViewSafe, Single
  <2> QED
    BY <2>2, <2>4, <2>5, <2>6, <2>7, <2>8 DEF ViewSafe
<1> QED
  BY <1>1, <1>2

\* What a sequence without repetition shows is as much as it is long.
LEMMA ShowsAll ==
  ASSUME NEW X, NEW s \in Seq(X), Single(s)
  PROVE  IsFiniteSet(Shows(s)) /\ Cardinality(Shows(s)) = Len(s)
<1>1. Len(s) \in Nat /\ DOMAIN s = 1..Len(s)
  OBVIOUS
<1>2. s \in [1..Len(s) -> Shows(s)]
  BY <1>1 DEF Shows
<1>3. s \in Bijection(1..Len(s), Shows(s))
  BY <1>1, <1>2 DEF Bijection, Injection, Surjection, IsInjective, Single, Shows
<1>4. IsFiniteSet(1..Len(s)) /\ Cardinality(1..Len(s)) = Len(s)
  BY <1>1, FS_Interval
<1> QED
  BY <1>3, <1>4, FS_Bijection DEF ExistsBijection

\* A page whose place counts as many images as are shown and listed goes on where they end.
LEMMA PageGoesOn ==
  ASSUME View!LibraryAssumption, NEW f, NEW G, NEW s \in Seq(View!Ids), Single(s), NEW offset \in Nat,
         Len(s) <= offset, offset <= Cardinality({i \in Shows(s) : View!Matches(i, f)}),
         \A i \in View!Ids \ G : View!Matches(i, f) /\ (\E j \in Shows(s) : i > j) => i \in Shows(s),
         NEW rows, rows = View!PageAt(View!Listed(f), offset)
  PROVE  \A i \in View!Ids \ G :
           View!Matches(i, f) /\ (\E j \in Shows(s) \cup Shows(rows) : i > j \/ Len(rows) # Page)
           => i \in Shows(s) \cup Shows(rows)
<1> DEFINE M == {i \in Shows(s) : View!Matches(i, f)}
<1>0. PICK L : L = View!Listed(f)
  OBVIOUS
<1>1. /\ L \in Seq(View!Ids)
      /\ \A k, l \in DOMAIN L : k < l => L[k] > L[l]
      /\ \A i \in View!Ids : View!Matches(i, f) => \E k \in DOMAIN L : L[k] = i
  BY <1>0, ListIs
<1>2. /\ \A k \in DOMAIN rows : offset + k \in DOMAIN L /\ rows[k] = L[offset + k]
      /\ \A k \in DOMAIN L : k > offset /\ (k <= offset + Page \/ Len(rows) # Page) =>
           \E l \in DOMAIN rows : offset + l = k
  <2>1. rows = View!PageAt(L, offset)
    BY <1>0
  <2>2. /\ \A k \in DOMAIN View!PageAt(L, offset) :
              offset + k \in DOMAIN L /\ View!PageAt(L, offset)[k] = L[offset + k]
        /\ \A k \in DOMAIN L : k > offset /\ (k <= offset + Page \/ Len(View!PageAt(L, offset)) # Page) =>
              \E l \in DOMAIN View!PageAt(L, offset) : offset + l = k
    BY <1>1, PageIs
  <2> QED
    BY <2>1, <2>2
<1>3. Shows(s) \subseteq View!Ids /\ View!Ids \subseteq Int
  <2>1. \A k \in DOMAIN s : s[k] \in View!Ids
    OBVIOUS
  <2> QED
    BY <2>1 DEF Shows, View!Ids, View!LibraryAssumption
<1>4. IsFiniteSet(Shows(s)) /\ Cardinality(Shows(s)) = Len(s) /\ Len(s) \in Nat
  BY ShowsAll
<1>5. Cardinality(Shows(s)) = offset /\ \A i \in Shows(s) : View!Matches(i, f)
  <2>1. M \in SUBSET Shows(s) /\ offset <= Cardinality(M)
    OBVIOUS
  <2>2. \A i \in M : View!Matches(i, f)
    OBVIOUS
  <2> HIDE DEF M
  <2>3. Cardinality(M) <= Cardinality(Shows(s)) /\ (Cardinality(Shows(s)) = Cardinality(M) => Shows(s) = M) /\ IsFiniteSet(M)
    BY <1>4, <2>1, FS_Subset
  <2>4. Cardinality(M) \in Nat
    BY <2>3, FS_CardinalityType
  <2>5. Cardinality(M) = Cardinality(Shows(s)) /\ Cardinality(Shows(s)) = offset
    BY <1>4, <2>1, <2>3, <2>4
  <2> QED
    BY <2>2, <2>3, <2>5
<1>6. DOMAIN L = 1..Len(L) /\ Len(L) \in Nat /\ DOMAIN L \subseteq Int /\ Page \in Nat /\ \A k \in DOMAIN L : L[k] \in Int
  <2>1. \A k \in DOMAIN L : L[k] \in View!Ids
    BY <1>1
  <2>2. \A k \in DOMAIN L : L[k] \in Int
    BY <1>3, <2>1
  <2>3. DOMAIN L = 1..Len(L) /\ Len(L) \in Nat
    BY <1>1
  <2>4. DOMAIN L \subseteq Int
    BY <2>3
  <2> QED
    BY <2>2, <2>3, <2>4 DEF View!LibraryAssumption
<1> SUFFICES ASSUME NEW i \in View!Ids \ G, View!Matches(i, f), i \notin Shows(s),
                    NEW j \in Shows(s) \cup Shows(rows), i > j \/ Len(rows) # Page
             PROVE  i \in Shows(rows)
  OBVIOUS
<1>7. PICK q \in DOMAIN L : L[q] = i
  BY <1>1
<1>8. q > offset
  <2> SUFFICES ASSUME q <= offset PROVE FALSE
    BY <1>6
  <2>2. \A x \in Shows(s) : x > i
    <3> SUFFICES ASSUME NEW x \in Shows(s) PROVE x > i
      OBVIOUS
    <3>1. ~(i > x) /\ x # i /\ x \in Int /\ i \in Int
      BY <1>3
    <3> QED
      BY <3>1
  <2>3. \A x \in Shows(s) : \E p \in 1..(q - 1) : L[p] = x
    <3> SUFFICES ASSUME NEW x \in Shows(s) PROVE \E p \in 1..(q - 1) : L[p] = x
      OBVIOUS
    <3>1. PICK p \in DOMAIN L : L[p] = x
      BY <1>1, <1>3, <1>5
    <3>2. ~(q < p)
      <4>1. q < p => i > x
        BY <1>1, <1>7, <3>1
      <4>2. x > i /\ i \in Int /\ x \in Int
        BY <1>3, <2>2
      <4> QED
        BY <4>1, <4>2
    <3>3. q # p
      <4>1. x # i
        OBVIOUS
      <4> QED
        BY <1>7, <3>1, <4>1
    <3>4. p \in 1..(q - 1)
      BY <1>6, <3>2, <3>3
    <3> QED
      BY <3>1, <3>4
  <2> DEFINE h == [x \in Shows(s) |-> CHOOSE p \in 1..(q - 1) : L[p] = x]
  <2>4. \A x \in Shows(s) : h[x] \in 1..(q - 1) /\ L[h[x]] = x
    BY <2>3
  <2>5. h \in [Shows(s) -> 1..(q - 1)]
    BY <2>4
  <2> HIDE DEF h
  <2>6. h \in Injection(Shows(s), 1..(q - 1))
    BY <2>4, <2>5 DEF Injection, IsInjective
  <2>7. IsFiniteSet(1..(q - 1)) /\ Cardinality(1..(q - 1)) = q - 1
    <3>1. q \in Int /\ q >= 1
      BY <1>6
    <3> QED
      BY <3>1, FS_Interval
  <2>8. offset <= q - 1
    BY <1>5, <2>6, <2>7, FS_Injection
  <2> QED
    BY <1>6, <2>8
<1>9. q <= offset + Page \/ Len(rows) # Page
  <2>1. CASE Len(rows) # Page
    BY <2>1
  <2>2. CASE i > j
    <3>1. j \notin Shows(s)
      BY <2>2
    <3>2. PICK k \in DOMAIN rows : rows[k] = j
      BY <3>1 DEF Shows
    <3>3. offset + k \in DOMAIN L /\ L[offset + k] = j
      BY <1>2, <3>2
    <3>4. ~(offset + k < q)
      <4>1. offset + k < q => j > i
        BY <1>1, <1>7, <3>3
      <4>2. i \in Int /\ j \in Int
        BY <1>3, <1>6, <3>3
      <4> QED
        BY <2>2, <4>1, <4>2
    <3>5. DOMAIN rows = 1..Len(rows) /\ Len(rows) \in Nat
      <4>1. rows \in Seq(View!Ids)
        BY <1>0, <1>1, PageIs
      <4> QED
        BY <4>1
    <3>6. CASE Len(rows) = Page
      BY <1>6, <3>2, <3>4, <3>5, <3>6
    <3> QED
      BY <3>6
  <2> QED
    BY <2>1, <2>2
<1>10. PICK l \in DOMAIN rows : offset + l = q
  BY <1>2, <1>8, <1>9
<1>11. rows[l] = i
  BY <1>2, <1>7, <1>10
<1> QED
  BY <1>11 DEF Shows

\* A page that is read has no gap, and for the view none together with what is shown.
LEMMA PageServeSafe ==
  ASSUME View!LibraryAssumption, ViewSafe, NEW c \in pages, View!Serve(c)
  PROVE  ViewSafe'
<1>1. View!TypeOK /\ ViewCalls /\ c \in PageCalls /\ ~c.served /\ Single(items) /\ items \in Seq(View!Ids)
  BY DEF ViewSafe, ViewCalls, View!Serve, View!TypeOK
<1>2. PICK rows : rows = View!PageAt(View!Listed(c.filter), c.offset)
  OBVIOUS
<1>3. PICK d : d = [c EXCEPT !.rows = rows, !.served = TRUE]
  OBVIOUS
<1>4. /\ pages' = (pages \ {c}) \cup {d}
      /\ shifted' = (shifted \/ (c.version = version
           /\ c.offset > View!Cardinality({i \in View!ToSet(items) : View!Matches(i, filter)})))
      /\ grown' = IF c.version = version /\ c.kind = "reload" THEN {} ELSE grown
      /\ UNCHANGED <<image, favorites, rowChanges, filter, items, more, version, loading>>
  BY <1>2, <1>3 DEF View!Serve, View!view
<1>5. rows \in Seq(View!Ids) /\ \A k, l \in DOMAIN rows : k < l => rows[k] > rows[l]
  <2>0. PICK L : L = View!Listed(c.filter)
    OBVIOUS
  <2>1. L \in Seq(View!Ids) /\ \A k, l \in DOMAIN L : k < l => L[k] > L[l]
    BY <2>0, ListIs
  <2>2. c.offset \in Nat
    BY <1>1 DEF PageCalls
  <2>3. rows = View!PageAt(L, c.offset)
    BY <1>2, <2>0
  <2>4. /\ rows \in Seq(View!Ids)
        /\ \A k \in DOMAIN rows : c.offset + k \in DOMAIN L /\ rows[k] = L[c.offset + k]
    BY <2>1, <2>2, <2>3, PageIs
  <2>5. ASSUME NEW k \in DOMAIN rows, NEW l \in DOMAIN rows, k < l PROVE rows[k] > rows[l]
    <3>1. k \in Nat /\ l \in Nat
      BY <2>4
    <3>2. c.offset + k < c.offset + l
      BY <2>2, <2>5, <3>1
    <3> QED
      BY <2>1, <2>4, <3>2
  <2> QED
    BY <2>4, <2>5
<1>6. Single(rows)
  <2> SUFFICES ASSUME NEW k \in DOMAIN rows, NEW l \in DOMAIN rows, k # l PROVE rows[k] # rows[l]
    BY DEF Single
  <2>1. k \in Nat /\ l \in Nat /\ rows[k] \in View!Ids /\ rows[l] \in View!Ids
    BY <1>5
  <2>2. rows[k] \in Int /\ rows[l] \in Int
    BY <2>1 DEF View!Ids, View!LibraryAssumption
  <2>3. k < l \/ l < k
    BY <2>1
  <2>4. rows[k] > rows[l] \/ rows[l] > rows[k]
    BY <1>5, <2>3
  <2> QED
    BY <2>2, <2>4
<1>7. /\ d \in PageCalls /\ d.served /\ d.rows = rows
      /\ d.version = c.version /\ d.kind = c.kind /\ d.filter = c.filter /\ d.offset = c.offset
  BY <1>1, <1>3, <1>5 DEF PageCalls
<1>8. View!TypeOK'
  BY <1>1, <1>4 DEF View!TypeOK
<1>9. ViewCalls'
  BY <1>1, <1>4, <1>6, <1>7 DEF ViewCalls, OfNow
<1>10. shifted' \in BOOLEAN /\ Single(items)'
  BY <1>1, <1>4 DEF ViewSafe, Single
<1>11. Falling(rows)'
  BY <1>5 DEF Falling
<1>12. CASE ~OfNow(c)
  <2>1. UNCHANGED <<image, favorites, filter, grown, items, more, version, shifted>>
    BY <1>4, <1>12 DEF OfNow, ViewSafe
  <2>2. \A x \in pages' : OfNow(x)' => x \in pages /\ OfNow(x)
    BY <1>4, <1>7, <1>12 DEF OfNow
  <2>3. \A x \in pages : OfNow(x) => x \in pages' /\ OfNow(x)'
    BY <1>4, <1>7, <1>12 DEF OfNow
  <2>4. Complete(Shows(items), ~more) /\ Falling(items) => (Complete(Shows(items), ~more) /\ Falling(items))'
    BY <2>1 DEF Complete, Falling, Shows, View!Matches
  <2>5. (\A x \in pages' : OfNow(x)' => x.kind # "reload") /\ ~shifted' =>
          (Complete(Shows(items), ~more) /\ Falling(items))'
    BY <2>1, <2>3, <2>4 DEF ViewSafe
  <2>6. \A x \in pages : /\ Falling(x.rows) => Falling(x.rows)'
                         /\ Complete(Shows(x.rows), Len(x.rows) # Page) => Complete(Shows(x.rows), Len(x.rows) # Page)'
    BY <2>1, Same
  <2>9. \A x \in pages : Complete(Shows(items) \cup Shows(x.rows), Len(x.rows) # Page) =>
                           Complete(Shows(items) \cup Shows(x.rows), Len(x.rows) # Page)'
    BY <2>1, Joined
  <2>7. \A x \in pages' : OfNow(x)' /\ x.served =>
         /\ Falling(x.rows)'
         /\ x.kind = "reload" => Complete(Shows(x.rows), Len(x.rows) # Page)'
         /\ x.kind = "more" /\ ~shifted' => Complete(Shows(items) \cup Shows(x.rows), Len(x.rows) # Page)'
    BY <2>1, <2>2, <2>6, <2>9 DEF ViewSafe
  <2>8. \A x \in pages' : OfNow(x)' /\ x.kind = "more" /\ ~x.served => Len(items)' <= x.offset
    BY <2>1, <2>2 DEF ViewSafe
  <2> QED
    BY <1>8, <1>9, <1>10, <2>5, <2>7, <2>8 DEF ViewSafe
<1>13. CASE OfNow(c)
  <2>1. c.filter = filter /\ \A x \in pages' : OfNow(x)' => x = d
    BY <1>1, <1>4, <1>13 DEF ViewCalls, OfNow
  <2>2. d \in pages' /\ OfNow(d)'
    BY <1>4, <1>7, <1>13 DEF OfNow
  <2>3. CASE c.kind = "reload"
    <3>1. grown' = {} /\ c.offset = 0
      BY <1>1, <1>4, <1>13, <2>3 DEF OfNow, ViewCalls
    <3>2. PICK none : none = << >>
      OBVIOUS
    <3>3. none \in Seq(View!Ids) /\ Single(none) /\ Shows(none) = {} /\ Len(none) = 0
      BY <3>2 DEF Single, Shows
    <3>4. \A i \in View!Ids \ {} : View!Matches(i, filter) /\ (\E j \in Shows(none) : i > j) => i \in Shows(none)
      BY <3>3
    <3>5. 0 <= Cardinality({i \in Shows(none) : View!Matches(i, filter)})
      BY <3>3, FS_EmptySet
    <3>6. \A i \in View!Ids \ {} :
            View!Matches(i, filter) /\ (\E j \in Shows(none) \cup Shows(rows) : i > j \/ Len(rows) # Page)
            => i \in Shows(none) \cup Shows(rows)
      <4>1. rows = View!PageAt(View!Listed(filter), 0) /\ 0 \in Nat /\ Len(none) <= 0
        BY <1>2, <2>1, <3>1, <3>3
      <4> QED
        BY <3>3, <3>4, <3>5, <4>1, PageGoesOn
    <3>7. Complete(Shows(rows), Len(rows) # Page)'
      BY <1>4, <3>1, <3>3, <3>6 DEF Complete, View!Matches
    <3>8. Complete(Shows(d.rows), Len(d.rows) # Page)' /\ Falling(d.rows)'
      BY <1>7, <1>11, <3>7
    <3> QED
      BY <1>7, <1>8, <1>9, <1>10, <2>1, <2>2, <2>3, <3>8 DEF ViewSafe
  <2>4. CASE c.kind = "more"
    <3>1. UNCHANGED <<image, favorites, filter, grown, items, more, version>>
      BY <1>4, <2>4
    <3>2. ~shifted' => ~shifted /\ ~(c.offset > Cardinality({i \in Shows(items) : View!Matches(i, filter)}))
      <4>1. View!ToSet(items) = Shows(items)
        BY ViewSame DEF Shows
      <4> QED
        BY <1>4, <1>13, <4>1, ViewSame DEF OfNow, ViewSafe
    <3>3. \A x \in pages : OfNow(x) => x.kind # "reload"
      BY <1>1, <1>13, <2>4 DEF ViewCalls
    <3>4. ~shifted' => Complete(Shows(items), ~more) /\ Falling(items)
      BY <3>2, <3>3 DEF ViewSafe
    <3>5. ~shifted' => (Complete(Shows(items), ~more) /\ Falling(items))'
      BY <3>1, <3>4 DEF Complete, Falling, Shows, View!Matches
    <3>6. ~shifted' => Complete(Shows(items) \cup Shows(rows), Len(rows) # Page)
      <4> SUFFICES ASSUME ~shifted' PROVE Complete(Shows(items) \cup Shows(rows), Len(rows) # Page)
        OBVIOUS
      <4>1. Len(items) <= c.offset /\ c.offset \in Nat
        BY <1>1, <1>13, <2>4 DEF ViewSafe, PageCalls
      <4>2. c.offset <= Cardinality({i \in Shows(items) : View!Matches(i, filter)})
        <5> DEFINE M == {i \in Shows(items) : View!Matches(i, filter)}
        <5>1. IsFiniteSet(Shows(items)) /\ M \in SUBSET Shows(items)
          BY <1>1, ShowsAll
        <5>2. Cardinality(M) \in Nat
          <6> HIDE DEF M
          <6> QED
            BY <5>1, FS_Subset, FS_CardinalityType
        <5>3. ~(c.offset > Cardinality(M))
          BY <3>2
        <5> HIDE DEF M
        <5>4. c.offset <= Cardinality(M)
          BY <4>1, <5>2, <5>3
        <5> QED
          BY <5>4 DEF M
      <4>3. \A i \in View!Ids \ grown : View!Matches(i, filter) /\ (\E j \in Shows(items) : i > j) => i \in Shows(items)
        BY <3>4 DEF Complete
      <4>4. rows = View!PageAt(View!Listed(filter), c.offset)
        BY <1>2, <2>1
      <4>5. \A i \in View!Ids \ grown :
              View!Matches(i, filter) /\ (\E j \in Shows(items) \cup Shows(rows) : i > j \/ Len(rows) # Page)
              => i \in Shows(items) \cup Shows(rows)
        BY <1>1, <4>1, <4>2, <4>3, <4>4, PageGoesOn
      <4> QED
        BY <4>5 DEF Complete
    <3>7. ~shifted' => Complete(Shows(items) \cup Shows(rows), Len(rows) # Page)'
      BY <3>1, <3>6, Joined
    <3>8. Falling(d.rows)' /\ (~shifted' => Complete(Shows(items) \cup Shows(d.rows), Len(d.rows) # Page)')
      BY <1>7, <1>11, <3>7
    <3> QED
      BY <1>7, <1>8, <1>9, <1>10, <2>1, <2>2, <2>4, <3>5, <3>8 DEF ViewSafe
  <2> QED
    BY <1>1, <2>3, <2>4 DEF PageCalls
<1> QED
  BY <1>12, <1>13

LEMMA AmongIs ==
  ASSUME NEW X, NEW s \in Seq(X), NEW S, NEW t, t = View!Among(s, S)
  PROVE  /\ t \in Seq(X) /\ Len(t) <= Len(s) /\ Shows(t) = Shows(s) \cap S
         /\ \A k, l \in DOMAIN t : k < l => \E a, b \in DOMAIN s : a < b /\ t[k] = s[a] /\ t[l] = s[b]
         /\ Single(s) => Single(t)
<1> DEFINE K == {k \in DOMAIN s : s[k] \in S}
           n == Cardinality(K)
<1>1. t = Selected(s, K)
  BY ViewSame
<1>2. K \in SUBSET DOMAIN s /\ \A k \in K : s[k] \in S
  OBVIOUS
<1>3. \A k \in DOMAIN s : s[k] \in S => k \in K
  OBVIOUS
<1>4. DOMAIN s = 1..Len(s) /\ Len(s) \in Nat
  OBVIOUS
<1>5. n <= Len(s) /\ n \in Nat
  <2>1. IsFiniteSet(DOMAIN s) /\ Cardinality(DOMAIN s) = Len(s)
    BY <1>4, FS_Interval
  <2> HIDE DEF K
  <2> QED
    BY <1>2, <2>1, FS_Subset, FS_CardinalityType
<1> HIDE DEF K, n
<1>6. t \in Seq(X) /\ Len(t) = n
  BY <1>1, <1>2, AmongPlaces DEF n
<1>7. PICK g \in [1..n -> K] :
              /\ \A k \in 1..n : t[k] = s[g[k]]
              /\ \A k, l \in 1..n : k < l => g[k] < g[l]
              /\ \A k \in K : \E l \in 1..n : g[l] = k
  BY <1>1, <1>2, AmongPlaces DEF n
<1>8. DOMAIN t = 1..n
  BY <1>6
<1>9. Shows(t) = Shows(s) \cap S
  <2>1. \A k \in 1..n : g[k] \in DOMAIN s /\ s[g[k]] \in S
    BY <1>2, <1>7
  <2>2. \A x \in Shows(t) : x \in Shows(s) /\ x \in S
    BY <1>7, <1>8, <2>1 DEF Shows
  <2>3. ASSUME NEW x \in Shows(s), x \in S PROVE x \in Shows(t)
    <3>1. PICK k \in DOMAIN s : s[k] = x
      BY DEF Shows
    <3>2. PICK l \in 1..n : g[l] = k
      BY <1>3, <1>7, <2>3, <3>1
    <3> QED
      BY <1>7, <1>8, <3>1, <3>2 DEF Shows
  <2> QED
    BY <2>2, <2>3
<1>10. \A k, l \in DOMAIN t : k < l => g[k] \in DOMAIN s /\ g[l] \in DOMAIN s /\ g[k] < g[l] /\ t[k] = s[g[k]] /\ t[l] = s[g[l]]
  BY <1>2, <1>7, <1>8
<1>11. ASSUME Single(s) PROVE Single(t)
  <2> SUFFICES ASSUME NEW k \in DOMAIN t, NEW l \in DOMAIN t, k < l PROVE t[k] # t[l]
    <3>1. \A k, l \in DOMAIN t : k \in Int /\ l \in Int
      BY <1>5, <1>8
    <3> QED
      BY <3>1 DEF Single
  <2>1. g[k] # g[l]
    <3>1. g[k] \in Int /\ g[l] \in Int /\ g[k] < g[l]
      BY <1>4, <1>10
    <3> QED
      BY <3>1
  <2> QED
    BY <1>10, <1>11, <2>1 DEF Single
<1> QED
  BY <1>5, <1>6, <1>9, <1>10, <1>11

\* Any two elements are in their order in one sequence or in the other, or one is of the
\* first and the other one, which only the second one has, after it.
Follows(u, s, rows) ==
  \A k, l \in DOMAIN u : k < l =>
    \/ k \in DOMAIN s /\ l \in DOMAIN s /\ u[k] = s[k] /\ u[l] = s[l]
    \/ u[k] \in Shows(s) /\ u[l] \in Shows(rows) \ Shows(s)
    \/ \E a, b \in DOMAIN rows : a < b /\ u[k] = rows[a] /\ u[l] = rows[b]
Both(u, s, rows) == Shows(u) = Shows(s) \cup Shows(rows)

\* What is shown with what a page adds to it.
LEMMA ShownTogether ==
  ASSUME NEW X, NEW s \in Seq(X), Single(s), NEW rows \in Seq(X), Single(rows),
         NEW S, \A x \in X : x \in S <=> x \notin Shows(s),
         NEW t, t = View!Among(rows, S), NEW u, u = s \o t
  PROVE  u \in Seq(X) /\ Single(u) /\ Follows(u, s, rows) /\ Both(u, s, rows)
<1>1. /\ t \in Seq(X) /\ Shows(t) = Shows(rows) \cap S /\ Single(t)
      /\ \A k, l \in DOMAIN t : k < l => \E a, b \in DOMAIN rows : a < b /\ t[k] = rows[a] /\ t[l] = rows[b]
  <2>0. rows \in Seq(X) /\ t = View!Among(rows, S)
    OBVIOUS
  <2>1. t \in Seq(X)
    BY <2>0, AmongIs
  <2>2. Shows(t) = Shows(rows) \cap S
    BY <2>0, AmongIs
  <2>3. Single(rows) => Single(t)
    BY <2>0, AmongIs
  <2>4. \A k, l \in DOMAIN t : k < l => \E a, b \in DOMAIN rows : a < b /\ t[k] = rows[a] /\ t[l] = rows[b]
    BY <2>0, AmongIs
  <2> QED
    BY <2>1, <2>2, <2>3, <2>4
<1>3. /\ u \in Seq(X) /\ DOMAIN u = 1..(Len(s) + Len(t)) /\ Len(s) \in Nat /\ Len(t) \in Nat
      /\ DOMAIN s = 1..Len(s) /\ DOMAIN t = 1..Len(t)
  BY <1>1
<1>4. \A k \in DOMAIN u : IF k <= Len(s) THEN k \in DOMAIN s /\ u[k] = s[k]
                                          ELSE k - Len(s) \in DOMAIN t /\ u[k] = t[k - Len(s)]
  <2>1. /\ \A i \in 1..Len(s) : u[i] = s[i]
        /\ \A i \in 1..Len(t) : u[Len(s) + i] = t[i]
    BY <1>1, ConcatProperties
  <2> SUFFICES ASSUME NEW k \in DOMAIN u
               PROVE  IF k <= Len(s) THEN k \in DOMAIN s /\ u[k] = s[k]
                                     ELSE k - Len(s) \in DOMAIN t /\ u[k] = t[k - Len(s)]
    OBVIOUS
  <2>2. CASE k <= Len(s)
    BY <1>3, <2>1, <2>2
  <2>3. CASE ~(k <= Len(s))
    <3>1. k - Len(s) \in 1..Len(t) /\ Len(s) + (k - Len(s)) = k
      BY <1>3, <2>3
    <3> QED
      BY <1>3, <2>1, <2>3, <3>1
  <2> QED
    BY <2>2, <2>3
<1>5. \A k \in DOMAIN s : k \in DOMAIN u /\ u[k] = s[k]
  BY <1>3, <1>4
<1>6. \A k \in DOMAIN t : k + Len(s) \in DOMAIN u /\ u[k + Len(s)] = t[k]
  <2> SUFFICES ASSUME NEW k \in DOMAIN t PROVE k + Len(s) \in DOMAIN u /\ u[k + Len(s)] = t[k]
    OBVIOUS
  <2>1. k + Len(s) \in DOMAIN u /\ ~(k + Len(s) <= Len(s)) /\ k + Len(s) - Len(s) = k
    BY <1>3
  <2> QED
    BY <1>4, <2>1 DEF Shows
<1>7. Shows(rows) \subseteq X
  <2>1. \A k \in DOMAIN rows : rows[k] \in X
    OBVIOUS
  <2> QED
    BY <2>1 DEF Shows
<1>8. Shows(t) = Shows(rows) \ Shows(s)
  BY <1>1, <1>7
<1>9. Shows(u) = Shows(s) \cup Shows(t)
  <2>1. Shows(u) \subseteq Shows(s) \cup Shows(t)
    <3>1. ASSUME NEW k \in DOMAIN u PROVE u[k] \in Shows(s) \/ u[k] \in Shows(t)
      <4>1. CASE k <= Len(s)
        BY <1>4, <4>1 DEF Shows
      <4>2. CASE ~(k <= Len(s))
        BY <1>4, <4>2 DEF Shows
      <4> QED
        BY <4>1, <4>2
    <3>2. ASSUME NEW x \in Shows(u) PROVE x \in Shows(s) \cup Shows(t)
      <4>1. PICK k \in DOMAIN u : u[k] = x
        BY Zenon DEF Shows
      <4>2. u[k] \in Shows(s) \/ u[k] \in Shows(t)
        BY <3>1
      <4> QED
        BY <4>1, <4>2, Zenon
    <3> QED
      BY <3>2, Zenon
  <2>2. Shows(s) \subseteq Shows(u)
    BY <1>5 DEF Shows
  <2>3. Shows(t) \subseteq Shows(u)
    <3> SUFFICES ASSUME NEW k \in DOMAIN t PROVE t[k] \in Shows(u)
      BY DEF Shows
    <3>1. PICK l \in DOMAIN u : u[l] = t[k]
      BY <1>6
    <3> QED
      BY <3>1 DEF Shows
  <2> QED
    BY <2>1, <2>2, <2>3
<1>10. Follows(u, s, rows)
  <2> SUFFICES ASSUME NEW k \in DOMAIN u, NEW l \in DOMAIN u, k < l
               PROVE  \/ k \in DOMAIN s /\ l \in DOMAIN s /\ u[k] = s[k] /\ u[l] = s[l]
                      \/ u[k] \in Shows(s) /\ u[l] \in Shows(rows) \ Shows(s)
                      \/ \E a, b \in DOMAIN rows : a < b /\ u[k] = rows[a] /\ u[l] = rows[b]
    BY DEF Follows
  <2>0. k \in Int /\ l \in Int
    BY <1>3
  <2>1. CASE l <= Len(s)
    <3>1. k <= Len(s)
      BY <1>3, <2>0, <2>1
    <3> QED
      BY <1>4, <2>1, <3>1
  <2>2. CASE ~(l <= Len(s)) /\ k <= Len(s)
    <3>1. u[k] \in Shows(s)
      BY <1>4, <2>2 DEF Shows
    <3>2. u[l] \in Shows(t)
      BY <1>4, <2>2 DEF Shows
    <3> QED
      BY <1>8, <3>1, <3>2
  <2>3. CASE ~(l <= Len(s)) /\ ~(k <= Len(s))
    <3>1. /\ k - Len(s) \in DOMAIN t /\ u[k] = t[k - Len(s)]
          /\ l - Len(s) \in DOMAIN t /\ u[l] = t[l - Len(s)]
      BY <1>4, <2>3
    <3>2. PICK x \in DOMAIN t : x = k - Len(s)
      BY <3>1
    <3>3. PICK y \in DOMAIN t : y = l - Len(s)
      BY <3>1
    <3>4. x < y
      BY <1>3, <2>0, <3>2, <3>3
    <3>5. \E a, b \in DOMAIN rows : a < b /\ t[x] = rows[a] /\ t[y] = rows[b]
      BY <1>1, <3>4
    <3>6. u[k] = t[x] /\ u[l] = t[y]
      BY <3>1, <3>2, <3>3
    <3> QED
      BY <3>5, <3>6, Zenon
  <2> QED
    BY <2>1, <2>2, <2>3
<1>11. Single(u)
  <2> SUFFICES ASSUME NEW k \in DOMAIN u, NEW l \in DOMAIN u, k < l PROVE u[k] # u[l]
    <3>1. \A k, l \in DOMAIN u : k \in Int /\ l \in Int
      BY <1>3
    <3>2. \A k, l \in DOMAIN u : k # l => k < l \/ l < k
      BY <3>1
    <3>3. ASSUME NEW k \in DOMAIN u, NEW l \in DOMAIN u, u[k] = u[l], k # l PROVE FALSE
      <4>1. CASE k < l
        BY <3>3, <4>1
      <4>2. CASE l < k
        BY <3>3, <4>2
      <4> QED
        BY <3>2, <3>3, <4>1, <4>2
    <3> QED
      BY <3>3 DEF Single
  <2>0. k \in Int /\ l \in Int
    BY <1>3
  <2>1. CASE l <= Len(s)
    <3>1. k <= Len(s) /\ k # l
      BY <1>3, <2>0, <2>1
    <3>2. k \in DOMAIN s /\ u[k] = s[k] /\ l \in DOMAIN s /\ u[l] = s[l]
      BY <1>4, <2>1, <3>1
    <3> QED
      BY <3>1, <3>2 DEF Single
  <2>2. CASE ~(l <= Len(s)) /\ k <= Len(s)
    <3>1. u[k] \in Shows(s) /\ u[l] \in Shows(t)
      BY <1>4, <2>2 DEF Shows
    <3> QED
      BY <1>8, <3>1
  <2>3. CASE ~(l <= Len(s)) /\ ~(k <= Len(s))
    <3>1. /\ k - Len(s) \in DOMAIN t /\ u[k] = t[k - Len(s)]
          /\ l - Len(s) \in DOMAIN t /\ u[l] = t[l - Len(s)]
      BY <1>4, <2>3
    <3>2. k - Len(s) # l - Len(s)
      BY <1>3, <2>0
    <3> QED
      BY <1>1, <3>1, <3>2 DEF Single
  <2> QED
    BY <2>1, <2>2, <2>3
<1>12. Both(u, s, rows)
  BY <1>8, <1>9 DEF Both
<1> QED
  BY <1>3, <1>10, <1>11, <1>12

\* Requests that are not current do not matter to what is shown.
LEMMA CallEnds ==
  ASSUME ViewSafe, NEW c \in pages, ~OfNow(c), pages' = pages \ {c},
         UNCHANGED <<image, favorites, rowChanges, filter, items, more, version, loading, shifted, grown>>
  PROVE  ViewSafe'
<1>1. \A x \in pages' : OfNow(x)' => x \in pages /\ OfNow(x)
  BY DEF OfNow
<1>2. \A x \in pages : OfNow(x) => x \in pages' /\ OfNow(x)'
  BY DEF OfNow
<1>3. Complete(Shows(items), ~more) /\ Falling(items) => (Complete(Shows(items), ~more) /\ Falling(items))'
  BY DEF Complete, Falling, Shows, View!Matches
<1>4. (\A x \in pages' : OfNow(x)' => x.kind # "reload") /\ ~shifted' =>
        (Complete(Shows(items), ~more) /\ Falling(items))'
  BY <1>2, <1>3 DEF ViewSafe
<1>5. \A x \in pages : /\ Falling(x.rows) => Falling(x.rows)'
                       /\ Complete(Shows(x.rows), Len(x.rows) # Page) => Complete(Shows(x.rows), Len(x.rows) # Page)'
  BY Same
<1>6. \A x \in pages : Complete(Shows(items) \cup Shows(x.rows), Len(x.rows) # Page) =>
                         Complete(Shows(items) \cup Shows(x.rows), Len(x.rows) # Page)'
  BY Joined
<1>7. \A x \in pages' : OfNow(x)' /\ x.served =>
       /\ Falling(x.rows)'
       /\ x.kind = "reload" => Complete(Shows(x.rows), Len(x.rows) # Page)'
       /\ x.kind = "more" /\ ~shifted' => Complete(Shows(items) \cup Shows(x.rows), Len(x.rows) # Page)'
  BY <1>1, <1>5, <1>6 DEF ViewSafe
<1>8. \A x \in pages' : OfNow(x)' /\ x.kind = "more" /\ ~x.served => Len(items)' <= x.offset
  BY <1>1 DEF ViewSafe
<1>9. View!TypeOK' /\ shifted' \in BOOLEAN /\ Single(items)'
  BY DEF ViewSafe, View!TypeOK, Single
<1>10. ViewCalls'
  BY DEF ViewSafe, ViewCalls, OfNow
<1> QED
  BY <1>4, <1>7, <1>8, <1>9, <1>10 DEF ViewSafe

\* When the current request has ended there is none, and the view has what it left.
LEMMA CurrentEnds ==
  ASSUME ViewSafe, NEW c \in pages, OfNow(c), pages' = pages \ {c},
         UNCHANGED <<image, favorites, rowChanges, filter, version, grown>>, loading' = FALSE,
         NEW shown0 \in Seq(View!Ids), NEW end0 \in BOOLEAN, items' = shown0, more' = end0, shifted' \in BOOLEAN,
         Single(shown0), ~shifted' => Complete(Shows(shown0), ~end0) /\ Falling(shown0)
  PROVE  ViewSafe'
<1>1. \A x \in pages' : ~OfNow(x)'
  BY DEF ViewSafe, ViewCalls, OfNow
<1>2. View!TypeOK'
  BY DEF ViewSafe, View!TypeOK
<1>3. ViewCalls'
  BY <1>1 DEF ViewSafe, ViewCalls
<1>4. ~shifted' => Complete(Shows(shown0), ~end0)' /\ Falling(shown0)'
  BY Same
<1>5. Complete(Shows(shown0), ~end0)' /\ Falling(shown0)' => (Complete(Shows(items), ~more) /\ Falling(items))'
  BY DEF Complete, Falling, Shows
<1>6. Single(items)'
  BY DEF Single
<1> QED
  BY <1>1, <1>2, <1>3, <1>4, <1>5, <1>6 DEF ViewSafe

LEMMA ReceiveSafe ==
  ASSUME View!LibraryAssumption, ViewSafe, NEW c \in pages, View!Receive(c)
  PROVE  ViewSafe'
<1>1. View!TypeOK /\ ViewCalls /\ c \in PageCalls /\ c.served /\ Single(items) /\ items \in Seq(View!Ids)
  BY DEF ViewSafe, ViewCalls, View!Receive, View!TypeOK
<1>2. pages' = pages \ {c} /\ UNCHANGED <<image, favorites, rowChanges, filter, version, grown>>
  BY DEF View!Receive
<1>3. CASE ~OfNow(c)
  <2>1. UNCHANGED <<items, more, loading, shifted>>
    BY <1>3 DEF View!Receive, View!Overtaken, OfNow
  <2> QED
    BY <1>2, <1>3, <2>1, CallEnds
<1>4. CASE OfNow(c)
  <2>0. PICK rows : rows = c.rows
    OBVIOUS
  <2>1. rows \in Seq(View!Ids) /\ Single(rows) /\ Falling(rows)
    BY <1>1, <1>4, <2>0 DEF ViewSafe, ViewCalls, PageCalls
  <2>2. loading' = FALSE /\ more' = (Len(rows) = Page) /\ more' \in BOOLEAN
    BY <1>4, <2>0 DEF View!Receive, View!Overtaken, OfNow
  <2>3. CASE c.kind = "reload"
    <3>1. items' = rows /\ shifted' = FALSE
      BY <1>4, <2>0, <2>3 DEF View!Receive, View!Overtaken, OfNow
    <3>2. Complete(Shows(rows), Len(rows) # Page)
      BY <1>1, <1>4, <2>0, <2>3 DEF ViewSafe
    <3>3. Complete(Shows(rows), ~(Len(rows) = Page))
      BY <3>2
    <3>4. PICK end0 \in BOOLEAN : end0 = (Len(rows) = Page)
      OBVIOUS
    <3> QED
      BY <1>2, <1>4, <2>1, <2>2, <3>1, <3>3, <3>4, CurrentEnds
  <2>4. CASE c.kind = "more"
    <3>0. PICK S : S = View!Ids \ Shows(items)
      OBVIOUS
    <3>1. PICK t : t = View!Among(rows, S)
      OBVIOUS
    <3>2. PICK u : u = items \o t
      OBVIOUS
    <3>3. items' = u /\ shifted' = shifted
      <4>1. View!ToSet(items) = Shows(items)
        BY ViewSame DEF Shows
      <4> QED
        BY <1>4, <2>0, <2>4, <3>0, <3>1, <3>2, <4>1 DEF View!Receive, View!Overtaken, OfNow
    <3>11. \A x \in View!Ids : x \in S <=> x \notin Shows(items)
      BY <3>0
    <3>12. u \in Seq(View!Ids)
      BY <3>11, <1>1, <2>1, <3>1, <3>2, ShownTogether
    <3>13. Single(u)
      BY <3>11, <1>1, <2>1, <3>1, <3>2, ShownTogether
    <3>14. Both(u, items, rows)
      BY <3>11, <1>1, <2>1, <3>1, <3>2, ShownTogether
    <3>4. Shows(u) = Shows(items) \cup Shows(rows)
      BY <3>14 DEF Both
    <3>10. Follows(u, items, rows)
      BY <3>11, <1>1, <2>1, <3>1, <3>2, ShownTogether
    <3>5. \A x \in pages : OfNow(x) => x.kind # "reload"
      BY <1>1, <1>4, <2>4 DEF ViewCalls
    <3>6. ~shifted => Complete(Shows(u), ~(Len(rows) = Page))
      BY <1>1, <1>4, <2>0, <2>4, <3>4 DEF ViewSafe, Complete
    <3>7. ~shifted => Falling(u)
      <4> SUFFICES ASSUME ~shifted, NEW k \in DOMAIN u, NEW l \in DOMAIN u, k < l, u[k] \notin grown, u[l] \notin grown,
                          View!Matches(u[k], filter), View!Matches(u[l], filter)
                   PROVE  u[k] > u[l]
        BY DEF Falling
      <4>1. Complete(Shows(items), ~more) /\ Falling(items)
        BY <3>5 DEF ViewSafe
      <4>2. CASE k \in DOMAIN items /\ l \in DOMAIN items /\ u[k] = items[k] /\ u[l] = items[l]
        BY <4>1, <4>2 DEF Falling
      <4>3. CASE u[k] \in Shows(items) /\ u[l] \in Shows(rows) \ Shows(items)
        <5>1. u[k] \in View!Ids /\ u[l] \in View!Ids
          BY <3>12
        <5>2. ~(u[l] > u[k])
          BY <4>1, <4>3, <5>1 DEF Complete
        <5>3. u[k] # u[l]
          BY <4>3
        <5>4. u[k] \in Int /\ u[l] \in Int
          BY <5>1 DEF View!Ids, View!LibraryAssumption
        <5> QED
          BY <5>2, <5>3, <5>4
      <4>4. ASSUME NEW a \in DOMAIN rows, NEW b \in DOMAIN rows, a < b, u[k] = rows[a], u[l] = rows[b] PROVE u[k] > u[l]
        BY <2>1, <4>4 DEF Falling
      <4> QED
        BY <3>10, <4>2, <4>3, <4>4 DEF Follows
    <3>8. PICK end0 \in BOOLEAN : end0 = (Len(rows) = Page)
      OBVIOUS
    <3>9. shifted' \in BOOLEAN
      BY <3>3 DEF ViewSafe
    <3> QED
      BY <1>2, <1>4, <2>2, <3>3, <3>12, <3>13, <3>6, <3>7, <3>8, <3>9, CurrentEnds
  <2> QED
    BY <1>1, <2>3, <2>4 DEF PageCalls
<1> QED
  BY <1>3, <1>4

LEMMA FailSafe ==
  ASSUME View!LibraryAssumption, ViewSafe, NEW c \in pages, View!Fail(c)
  PROVE  ViewSafe'
<1>1. ViewCalls /\ c \in PageCalls /\ Single(items) /\ items \in Seq(View!Ids) /\ more \in BOOLEAN /\ shifted \in BOOLEAN
  BY DEF ViewSafe, ViewCalls, View!TypeOK
<1>2. pages' = pages \ {c} /\ UNCHANGED <<image, favorites, rowChanges, filter, version, grown, shifted>>
  BY DEF View!Fail, View!history
<1>3. CASE ~OfNow(c)
  <2>1. UNCHANGED <<items, more, loading>>
    BY <1>3 DEF View!Fail, View!Overtaken, OfNow
  <2> QED
    BY <1>2, <1>3, <2>1, CallEnds
<1>4. CASE OfNow(c)
  <2>1. loading' = FALSE
    BY <1>4 DEF View!Fail, View!Overtaken, OfNow
  <2>2. CASE c.kind = "reload"
    <3>0. PICK none : none = << >>
      OBVIOUS
    <3>1. items' = none /\ more' = FALSE
      BY <1>4, <2>2, <3>0 DEF View!Fail, View!Overtaken, OfNow
    <3>2. none \in Seq(View!Ids) /\ Single(none)
      BY <3>0 DEF Single
    <3>3. Shows(none) = {} /\ Falling(none)
      BY <3>0 DEF Shows, Falling
    <3>4. Complete(Shows(none), ~FALSE)
      BY <3>3 DEF Complete
    <3>5. shifted' \in BOOLEAN /\ FALSE \in BOOLEAN
      BY <1>1, <1>2
    <3> QED
      BY <1>2, <1>4, <2>1, <3>1, <3>2, <3>3, <3>4, <3>5, CurrentEnds
  <2>3. CASE c.kind = "more"
    <3>1. UNCHANGED <<items, more>>
      BY <1>4, <2>3 DEF View!Fail, View!Overtaken, OfNow
    <3>2. \A x \in pages : OfNow(x) => x.kind # "reload"
      BY <1>1, <1>4, <2>3 DEF ViewCalls
    <3>3. ~shifted => Complete(Shows(items), ~more) /\ Falling(items)
      BY <3>2 DEF ViewSafe
    <3> QED
      BY <1>1, <1>2, <1>4, <2>1, <3>1, <3>3, CurrentEnds
  <2> QED
    BY <1>1, <2>2, <2>3 DEF PageCalls
<1> QED
  BY <1>3, <1>4

LEMMA RemovedSafe ==
  ASSUME View!LibraryAssumption, ViewSafe, NEW i \in View!Ids, View!Removed(i)
  PROVE  ViewSafe'
<1>1. View!TypeOK /\ ViewCalls /\ Single(items) /\ items \in Seq(View!Ids) /\ image[i] = "gone"
  BY DEF ViewSafe, View!TypeOK, View!Removed
<1>2. PICK S : S = View!Ids \ {i}
  OBVIOUS
<1>3. PICK t : t = View!Among(items, S)
  OBVIOUS
<1>4. items' = t /\ UNCHANGED <<image, favorites, rowChanges, filter, more, version, loading, pages, shifted, grown>>
  BY <1>2, <1>3 DEF View!Removed, View!history
<1>5. t \in Seq(View!Ids) /\ Len(t) <= Len(items) /\ Shows(t) = Shows(items) \cap S
  BY <1>1, <1>3, AmongIs
<1>6. Single(t)
  BY <1>1, <1>3, AmongIs
<1>7. \A k, l \in DOMAIN t : k < l => \E a, b \in DOMAIN items : a < b /\ t[k] = items[a] /\ t[l] = items[b]
  BY <1>1, <1>3, AmongIs
<1>8. \A j \in View!Ids : View!Matches(j, filter) => j \in S
  BY <1>1, <1>2 DEF View!Matches
<1>9. \A R, end : Complete(Shows(items) \cup R, end) => Complete(Shows(t) \cup R, end)
  BY <1>5, <1>8 DEF Complete
<1>10. Complete(Shows(items), ~more) => Complete(Shows(t), ~more)
  BY <1>5, <1>8 DEF Complete
<1>11. Falling(items) => Falling(t)
  BY <1>7 DEF Falling
<1>12. /\ Complete(Shows(t), ~more) => Complete(Shows(items), ~more)'
       /\ Falling(t) => Falling(items)'
  BY <1>4 DEF Complete, Falling, Shows, View!Matches
<1>13. \A x \in pages : /\ Falling(x.rows) => Falling(x.rows)'
                        /\ Complete(Shows(x.rows), Len(x.rows) # Page) => Complete(Shows(x.rows), Len(x.rows) # Page)'
  BY <1>4, Same
<1>14. \A x \in pages : Complete(Shows(items) \cup Shows(x.rows), Len(x.rows) # Page) =>
                          Complete(Shows(items) \cup Shows(x.rows), Len(x.rows) # Page)'
  <2> SUFFICES ASSUME NEW x \in pages, Complete(Shows(items) \cup Shows(x.rows), Len(x.rows) # Page)
               PROVE  Complete(Shows(items) \cup Shows(x.rows), Len(x.rows) # Page)'
    OBVIOUS
  <2>1. PICK R, Z : R = Shows(x.rows) /\ Z = Shows(t) \cup R
    OBVIOUS
  <2>2. Complete(Z, Len(x.rows) # Page)
    BY <1>9, <2>1
  <2>3. Complete(Z, Len(x.rows) # Page)'
    BY <1>4, <2>2, Same
  <2>4. (Shows(items) \cup Shows(x.rows))' = Z
    BY <1>4, <2>1 DEF Shows
  <2> QED
    BY <2>3, <2>4 DEF Complete
<1>15. View!TypeOK'
  BY <1>1, <1>4, <1>5 DEF View!TypeOK
<1>16. ViewCalls' /\ Single(items)' /\ shifted' \in BOOLEAN
  BY <1>1, <1>4, <1>6 DEF ViewSafe, ViewCalls, OfNow, Single
<1>17. \A c \in pages : OfNow(c)' => OfNow(c)
  BY <1>4 DEF OfNow
<1>18. \A c \in pages' : OfNow(c)' /\ c.kind = "more" /\ ~c.served => Len(items)' <= c.offset
  <2> SUFFICES ASSUME NEW c \in pages, OfNow(c), c.kind = "more", ~c.served PROVE Len(t) <= c.offset
    BY <1>4, <1>17
  <2>1. Len(items) <= c.offset /\ c.offset \in Nat
    BY <1>1 DEF ViewSafe, ViewCalls, PageCalls
  <2>2. Len(t) \in Nat /\ Len(items) \in Nat
    BY <1>1, <1>5
  <2> QED
    BY <1>5, <2>1, <2>2
<1>19. \A c \in pages : OfNow(c) => OfNow(c)'
  BY <1>4 DEF OfNow
<1>20. (\A c \in pages' : OfNow(c)' => c.kind # "reload") /\ ~shifted' =>
         (Complete(Shows(items), ~more) /\ Falling(items))'
  BY <1>4, <1>10, <1>11, <1>12, <1>19 DEF ViewSafe
<1>21. \A c \in pages' : OfNow(c)' /\ c.served =>
         /\ Falling(c.rows)'
         /\ c.kind = "reload" => Complete(Shows(c.rows), Len(c.rows) # Page)'
         /\ c.kind = "more" /\ ~shifted' => Complete(Shows(items) \cup Shows(c.rows), Len(c.rows) # Page)'
  BY <1>4, <1>13, <1>14, <1>17 DEF ViewSafe
<1> QED
  BY <1>15, <1>16, <1>18, <1>20, <1>21 DEF ViewSafe

LEMMA ViewStep ==
  ASSUME View!LibraryAssumption, ViewSafe, View!Next
  PROVE  ViewSafe'
<1>1. ASSUME NEW i \in View!Ids, View!Make(i) \/ View!Mark(i) \/ View!Delete(i) \/ View!Favor(i) PROVE ViewSafe'
  BY <1>1, RowsStep
<1>2. ASSUME NEW i \in View!Ids, View!Removed(i) PROVE ViewSafe'
  BY <1>2, RemovedSafe
<1>3. ASSUME NEW f \in {"all", "favorite"}, View!Reload(f) PROVE ViewSafe'
  BY <1>3, AskSafe DEF Filters
<1>4. CASE View!LoadMore
  BY <1>4, AskSafe
<1>5. ASSUME NEW c \in pages, View!Serve(c) PROVE ViewSafe'
  BY <1>5, PageServeSafe
<1>6. ASSUME NEW c \in pages, View!Receive(c) PROVE ViewSafe'
  BY <1>6, ReceiveSafe
<1>7. ASSUME NEW c \in pages, View!Fail(c) PROVE ViewSafe'
  BY <1>7, FailSafe
<1> QED
  BY <1>1, <1>2, <1>3, <1>4, <1>5, <1>6, <1>7 DEF View!Next

LEMMA ViewRests == ViewSafe /\ UNCHANGED viewVars => ViewSafe'
<1> SUFFICES ASSUME ViewSafe, UNCHANGED viewVars PROVE ViewSafe'
  OBVIOUS
<1>1. UNCHANGED <<image, favorites, rowChanges, filter, items, more, version, loading, pages, shifted, grown>>
  BY DEF viewVars
<1>2. View!TypeOK'
  BY <1>1 DEF ViewSafe, View!TypeOK
<1>3. \A i \in View!Ids \ grown' : View!Matches(i, filter)' => View!Matches(i, filter)
  BY <1>1 DEF View!Matches
<1> QED
  BY <1>1, <1>2, <1>3, RowsMove

LEMMA ViewKept == ViewSafe => View!TypeOK /\ View!NoGaps /\ View!InOrder
<1> SUFFICES ASSUME ViewSafe PROVE View!TypeOK /\ View!NoGaps /\ View!InOrder
  OBVIOUS
<1>1. ~View!Reloading => \A c \in pages : OfNow(c) => c.kind # "reload"
  BY DEF View!Reloading, OfNow
<1>2. View!NoGaps
  BY <1>1, ViewSame DEF ViewSafe, View!NoGaps, Complete, Shows
<1>3. View!IsInjective(items)
  BY DEF ViewSafe, View!IsInjective, Single
<1>4. View!InOrder
  BY <1>1, <1>3 DEF ViewSafe, View!InOrder, Falling
<1> QED
  BY <1>2, <1>4 DEF ViewSafe

-----------------------------------------------------------------------------
(* The requests on the history.                                            *)

\* What is in an archive is of the first records, and the rest is due.
Aligned(t, rest0) ==
  /\ t \in Seq([id : Shown, image : BOOLEAN]) /\ rest0 \in Seq(Shown)
  /\ Len(records) = Len(t) + Len(rest0)
  /\ \A k \in DOMAIN t :
       t[k].id = records[k] /\ (t[k].image \/ (records[k] \in seen /\ records[k] \notin originals))
  /\ \A k \in DOMAIN rest0 : rest0[k] = records[Len(t) + k]

\* How far the export has come says where its thread and its file are.
ExportSafe ==
  /\ Single(records)
  /\ export \in {"idle", "check", "refused"} => archiver = "none" /\ ~leaked /\ zip = None
  /\ export = "named" => archiver = "none" /\ ~leaked /\ zip = << >>
  /\ export \in {"building", "cancelled"} => archiver # "none" /\ ~leaked
  /\ export = "sending" => archiver = "done" /\ ~leaked
  /\ export = "failed" => archiver = "failed" /\ ~leaked /\ zip = None
  /\ export = "sent" => archiver = "done" /\ ~leaked /\ zip = None
  /\ export = "cut" => \/ leaked /\ archiver = "none"
                       \/ ~leaked /\ archiver \in {"done", "failed"} /\ zip = None
  /\ export \notin {"idle", "check", "refused"} => \A k \in DOMAIN records : records[k] \in seen
  /\ archiver = "queued" => due = records
  /\ archiver = "writing" => Aligned(zip, due)
  /\ archiver = "done" /\ export \in {"building", "sending"} => Aligned(zip, << >>)

\* What an update has read is there until an update that ends meanwhile changes it.
EditSafe ==
  /\ readRow \in [Patches -> [Edits!Fields -> Nat] \cup {None}] /\ later \in [Patches -> SUBSET Patches]
  /\ \A u \in Patches : update[u] = "read" => readRow[u] # None
  /\ \A u \in Patches : update[u] = "read" /\ columns[PatchImage[u]] # None =>
       \A f \in Edits!Fields :
         \/ columns[PatchImage[u]][f] = readRow[u][f]
         \/ \E v \in later[u] : PatchImage[v] = PatchImage[u] /\ PatchChange[v][f] = columns[PatchImage[u]][f]
  /\ Edits!UpdatesKept

\* How far the thread of an upload has come says which of its files there are.
UploadSafe ==
  /\ sourced <=> decoder = "stored"
  /\ decoder \in {"saving", "stored"} => posted = "image"
  /\ source = "token" => sourced
  /\ source = "idle" => decoder = "none"
  /\ temporary => decoder = "saving"

EditsSafe == Edits!TypeOK /\ ExportSafe /\ EditSafe /\ UploadSafe

LEMMA DeskFacts ==
  ASSUME Edits!DeskAssumption
  PROVE  /\ Selection \in Seq(Shown)
         /\ \A u \in Patches : PatchImage[u] \in Shown /\ PatchChange[u] \in [Edits!Fields -> Nat \cup {None}]
         /\ None \notin Nat /\ None \notin [Edits!Fields -> Nat]
         /\ None # << >> /\ \A t \in Seq([id : Shown, image : BOOLEAN]) : t # None
<1>1. << >> \in Seq([id : Shown, image : BOOLEAN])
  OBVIOUS
<1> QED
  BY <1>1 DEF Edits!DeskAssumption, Edits!Fields

LEMMA Elements == ASSUME NEW S, NEW t \in Seq(S) PROVE \A k \in DOMAIN t : t[k] \in S
  OBVIOUS

LEMMA EditsSame ==
  /\ \A s, S : Edits!Among(s, S) = View!Among(s, S)
  /\ \A s, K : Edits!Selected(s, K) = Selected(s, K)
<1>1. \A S : Edits!Cardinality(S) = Cardinality(S)
  BY DEF Edits!Cardinality, Edits!IsFiniteSet, Cardinality, IsFiniteSet
<1>2. \A K, n : Edits!Nth(K, n) = Nth(K, n)
  BY <1>1 DEF Edits!Nth, Nth
<1>3. \A s, K : Edits!Selected(s, K) = Selected(s, K)
  BY <1>1, <1>2 DEF Edits!Selected, Selected
<1>4. \A s, S : Edits!Among(s, S) = View!Among(s, S)
  BY <1>3, ViewSame DEF Edits!Among
<1> QED
  BY <1>3, <1>4

\* Each id of the request once.
LEMMA DistinctIs ==
  ASSUME Edits!DeskAssumption
  PROVE  Edits!Distinct \in Seq(Shown) /\ Single(Edits!Distinct)
<1> DEFINE K == {i \in DOMAIN Selection : \A j \in 1 .. i - 1 : Selection[j] # Selection[i]}
           t == Edits!Distinct
           n == Cardinality(K)
<1>1. t = Selected(Selection, K)
  BY EditsSame DEF Edits!Distinct
<1>2. Selection \in Seq(Shown) /\ K \in SUBSET DOMAIN Selection
  BY DeskFacts
<1>3. \A i \in K : \A j \in 1 .. i - 1 : Selection[j] # Selection[i]
  OBVIOUS
<1> HIDE DEF K, t, n
<1>4. t \in Seq(Shown) /\ Len(t) = n
  BY <1>1, <1>2, AmongPlaces DEF n
<1>5. PICK g \in [1..n -> K] :
        /\ \A k \in 1..n : t[k] = Selection[g[k]]
        /\ \A k, l \in 1..n : k < l => g[k] < g[l]
  BY <1>1, <1>2, AmongPlaces DEF n
<1>6. DOMAIN t = 1..n /\ n \in Nat
  BY <1>4
<1>7. ASSUME NEW k \in 1..n, NEW l \in 1..n, k < l PROVE t[k] # t[l]
  <2>1. g[k] \in K /\ g[l] \in K /\ g[k] < g[l]
    BY <1>5, <1>7
  <2>2. g[k] \in Nat \ {0} /\ g[l] \in Nat
    BY <1>2, <2>1
  <2>3. g[k] \in 1 .. g[l] - 1
    BY <2>1, <2>2
  <2> QED
    BY <1>3, <1>5, <2>1, <2>3
<1>8. Single(t)
  <2> SUFFICES ASSUME NEW k \in DOMAIN t, NEW l \in DOMAIN t, t[k] = t[l], k # l PROVE FALSE
    BY DEF Single
  <2>1. k < l \/ l < k
    BY <1>6
  <2> QED
    BY <1>6, <1>7, <2>1
<1> QED
  BY <1>4, <1>8 DEF t

LEMMA EditsInit == Edits!DeskAssumption /\ Edits!Init => EditsSafe
<1> SUFFICES ASSUME Edits!DeskAssumption, Edits!Init PROVE EditsSafe
  OBVIOUS
<1>1. Edits!Fresh \in [Edits!Fields -> Nat]
  BY DEF Edits!Fresh
<1>2. Edits!TypeOK
  <2>1. columns \in [Shown -> [Edits!Fields -> Nat] \cup {None}]
    BY <1>1 DEF Edits!Init
  <2>2. update \in [Patches -> {"idle", "read", "done", "refused"}]
    BY DEF Edits!Init
  <2>3. records \in Seq(Shown) /\ due \in Seq(Shown)
    BY DEF Edits!Init
  <2>4. /\ originals \subseteq Shown /\ unlinking \subseteq Edits!Rows /\ seen \subseteq Shown /\ leaked \in BOOLEAN
        /\ temporary \in BOOLEAN /\ sourced \in BOOLEAN /\ zip = None
    BY DEF Edits!Init
  <2> QED
    BY <2>1, <2>2, <2>3, <2>4 DEF Edits!Init, Edits!TypeOK
<1>3. ExportSafe
  BY DEF Edits!Init, ExportSafe, Single
<1>4. EditSafe
  BY DEF Edits!Init, EditSafe, Edits!UpdatesKept
<1>5. UploadSafe
  BY DEF Edits!Init, UploadSafe
<1> QED
  BY <1>2, <1>3, <1>4, <1>5 DEF EditsSafe

\* The rest rests.
LEMMA EditRests ==
  ASSUME EditSafe, UNCHANGED <<columns, update, readRow, later>>
  PROVE  EditSafe'
BY DEF EditSafe, Edits!UpdatesKept

LEMMA UploadRests ==
  ASSUME UploadSafe, UNCHANGED <<source, posted, decoder, temporary, sourced>>
  PROVE  UploadSafe'
BY DEF UploadSafe

LEMMA AlignedStays ==
  ASSUME records' = records, seen' = seen, originals' \subseteq originals, NEW t, NEW r, Aligned(t, r)
  PROVE  Aligned(t, r)'
BY DEF Aligned

LEMMA SelectSafe ==
  ASSUME Edits!DeskAssumption, EditsSafe, Edits!Select \/ Edits!Check \/ Edits!Build \/ Edits!CutEarly
  PROVE  EditsSafe'
<1>1. Edits!TypeOK /\ ExportSafe /\ EditSafe /\ UploadSafe
  BY DEF EditsSafe
<1>2. UNCHANGED <<columns, originals, unlinking, update, readRow, later, source, posted, decoder, temporary, sourced>>
  BY DEF Edits!Select, Edits!Check, Edits!Build, Edits!CutEarly, Edits!updateVars, Edits!uploadVars
<1>3. EditSafe' /\ UploadSafe'
  BY <1>1, <1>2, EditRests, UploadRests
<1>4. Edits!Rows' = Edits!Rows
  BY <1>2 DEF Edits!Rows
<1>5. CASE Edits!Select
  <2>1. /\ export = "idle" /\ export' = "check" /\ records' = View!Among(Edits!Distinct, Edits!Rows)
        /\ UNCHANGED <<zip, archiver, due, seen, leaked>>
    BY <1>5, EditsSame DEF Edits!Select
  <2>2. records' \in Seq(Shown) /\ Single(records')
    BY <2>1, DistinctIs, AmongIs
  <2>3. Edits!TypeOK'
    BY <1>1, <1>2, <1>4, <2>1, <2>2 DEF Edits!TypeOK
  <2>4. Single(records)'
    BY <2>2 DEF Single
  <2>5. ExportSafe'
    BY <1>1, <2>1, <2>4 DEF ExportSafe
  <2> QED
    BY <1>3, <2>3, <2>5 DEF EditsSafe
<1>6. CASE Edits!Check
  <2>1. /\ export = "check" /\ records' = View!Among(records, originals) /\ seen' = originals
        /\ IF records' = << >> THEN export' = "refused" /\ zip' = None ELSE export' = "named" /\ zip' = << >>
        /\ UNCHANGED <<archiver, due, leaked>>
    BY <1>6, EditsSame DEF Edits!Check
  <2>2. /\ records' \in Seq(Shown) /\ (Single(records) => Single(records'))
        /\ Shows(records') = Shows(records) \cap originals
    <3>1. records \in Seq(Shown)
      BY <1>1 DEF Edits!TypeOK
    <3>2. PICK t : t = View!Among(records, originals)
      OBVIOUS
    <3>3. t \in Seq(Shown) /\ (Single(records) => Single(t)) /\ Shows(t) = Shows(records) \cap originals
      BY <3>1, <3>2, AmongIs
    <3> QED
      BY <2>1, <3>2, <3>3
  <2>3. Edits!TypeOK'
    BY <1>1, <1>2, <1>4, <2>1, <2>2 DEF Edits!TypeOK
  <2>4. Single(records)'
    BY <1>1, <2>2 DEF Single, ExportSafe
  <2>5. \A k \in DOMAIN records' : records'[k] \in seen'
    BY <2>1, <2>2 DEF Shows
  <2>6. archiver' = "none" /\ ~leaked'
    BY <1>1, <2>1 DEF ExportSafe
  <2>7. ExportSafe'
    BY <2>1, <2>4, <2>5, <2>6 DEF ExportSafe
  <2> QED
    BY <1>3, <2>3, <2>7 DEF EditsSafe
<1>7. CASE Edits!Build
  <2>1. /\ export = "named" /\ export' = "building" /\ archiver' = "queued" /\ due' = records
        /\ UNCHANGED <<records, zip, seen, leaked>>
    BY <1>7 DEF Edits!Build
  <2>2. Edits!TypeOK'
    BY <1>1, <1>2, <1>4, <2>1 DEF Edits!TypeOK
  <2>3. ExportSafe'
    BY <1>1, <2>1 DEF ExportSafe, Single
  <2> QED
    BY <1>3, <2>2, <2>3 DEF EditsSafe
<1>8. CASE Edits!CutEarly
  <2>1. export = "named" /\ export' = "cut" /\ leaked' = TRUE /\ UNCHANGED <<records, zip, archiver, due, seen>>
    BY <1>8 DEF Edits!CutEarly
  <2>2. Edits!TypeOK'
    BY <1>1, <1>2, <1>4, <2>1 DEF Edits!TypeOK
  <2>3. ExportSafe'
    BY <1>1, <2>1 DEF ExportSafe, Single
  <2> QED
    BY <1>3, <2>2, <2>3 DEF EditsSafe
<1> QED
  BY <1>5, <1>6, <1>7, <1>8

LEMMA ArchiveSafe ==
  ASSUME Edits!DeskAssumption, EditsSafe,
         \/ Edits!Cancel \/ Edits!OpenArchive \/ Edits!WriteRecord \/ Edits!WorkerEnds
         \/ Edits!CleanUp \/ Edits!Send \/ Edits!Sent
  PROVE  EditsSafe'
<1>1. Edits!TypeOK /\ ExportSafe /\ EditSafe /\ UploadSafe
  BY DEF EditsSafe
<1>2. UNCHANGED <<columns, originals, unlinking, records, seen, leaked,
                  update, readRow, later, source, posted, decoder, temporary, sourced>>
  BY DEF Edits!Cancel, Edits!OpenArchive, Edits!WriteRecord, Edits!WorkerEnds, Edits!CleanUp, Edits!Send, Edits!Sent,
         Edits!updateVars, Edits!uploadVars
<1>3. EditSafe' /\ UploadSafe'
  BY <1>1, <1>2, EditRests, UploadRests
<1>4. Edits!Rows' = Edits!Rows
  BY <1>2 DEF Edits!Rows
<1>5. \A t, r : Aligned(t, r) => Aligned(t, r)'
  BY <1>2, AlignedStays
<1>6. Single(records)'
  BY <1>1, <1>2 DEF ExportSafe, Single
<1>7. records \in Seq(Shown) /\ due \in Seq(Shown)
  BY <1>1 DEF Edits!TypeOK
<1>8. CASE Edits!Cancel
  <2>1. /\ export = "building"
        /\ export' = IF archiver \in {"done", "failed"} THEN "cut" ELSE "cancelled"
        /\ zip' = IF archiver \in {"done", "failed"} THEN None ELSE zip
        /\ UNCHANGED <<archiver, due>>
    BY <1>8 DEF Edits!Cancel
  <2>2. Edits!TypeOK'
    BY <1>1, <1>2, <1>4, <2>1 DEF Edits!TypeOK
  <2>3. archiver = "writing" => Aligned(zip, due)'
    <3>1. archiver = "writing" => Aligned(zip, due)
      BY <1>1 DEF ExportSafe
    <3> QED
      BY <1>2, <2>1, <3>1 DEF Aligned
  <2>4. archiver # "none" /\ ~leaked
    BY <1>1, <2>1 DEF ExportSafe
  <2>5. archiver \in {"none", "queued", "writing", "done", "failed"}
    BY <1>1 DEF Edits!TypeOK
  <2>6. ExportSafe'
    BY <1>1, <1>2, <1>6, <2>1, <2>3, <2>4, <2>5 DEF ExportSafe
  <2> QED
    BY <1>3, <2>2, <2>6 DEF EditsSafe
<1>9. CASE Edits!OpenArchive
  <2>1. archiver = "queued" /\ archiver' = "writing" /\ zip' = << >> /\ UNCHANGED <<export, due>>
    BY <1>9 DEF Edits!OpenArchive
  <2>2. Edits!TypeOK'
    BY <1>1, <1>2, <1>4, <2>1 DEF Edits!TypeOK
  <2>3. due = records /\ export \in {"building", "cancelled"} /\ ~leaked
    BY <1>1, <2>1 DEF ExportSafe, Edits!TypeOK
  <2>4. Aligned(<< >>, records)
    BY <1>7 DEF Aligned
  <2>5. Aligned(zip, due)'
    BY <1>2, <2>1, <2>3, <2>4 DEF Aligned
  <2>6. ExportSafe'
    BY <1>1, <1>2, <1>6, <2>1, <2>3, <2>5 DEF ExportSafe
  <2> QED
    BY <1>3, <2>2, <2>6 DEF EditsSafe
<1>10. CASE Edits!WriteRecord
  <2>0. PICK new : new = [id |-> Head(due), image |-> Head(due) \in originals]
    OBVIOUS
  <2>1. archiver = "writing" /\ Aligned(zip, due) /\ due # << >>
    BY <1>1, <1>10 DEF ExportSafe, Edits!WriteRecord
  <2>2. zip # None
    BY <2>1, DeskFacts DEF Aligned
  <2>3. /\ due' = Tail(due) /\ zip' = Append(zip, new) /\ UNCHANGED <<export, archiver>>
    BY <1>10, <2>0, <2>2 DEF Edits!WriteRecord
  <2>4. /\ zip \in Seq([id : Shown, image : BOOLEAN]) /\ due \in Seq(Shown)
        /\ Len(zip) \in Nat /\ Len(due) \in Nat \ {0} /\ Len(records) = Len(zip) + Len(due) /\ DOMAIN records = 1..Len(records)
    BY <1>7, <2>1 DEF Aligned
  <2>5. new \in [id : Shown, image : BOOLEAN] /\ new.id = due[1] /\ due[1] = records[Len(zip) + 1]
    <3>1. 1 \in DOMAIN due /\ Head(due) = due[1] /\ due[1] \in Shown
      BY <2>4
    <3> QED
      BY <2>0, <2>1, <3>1 DEF Aligned
  <2>6. new.image \/ (new.id \in seen /\ new.id \notin originals)
    <3>1. new.image = (new.id \in originals)
      BY <2>0
    <3>2. export \in {"building", "cancelled"}
      BY <1>1, <2>1 DEF ExportSafe, Edits!TypeOK
    <3>3. Len(zip) + 1 \in DOMAIN records
      BY <2>4
    <3>4. new.id \in seen
      BY <1>1, <2>5, <3>2, <3>3 DEF ExportSafe
    <3> QED
      BY <3>1, <3>4
  <2>7. PICK t : t = Append(zip, new)
    OBVIOUS
  <2>8. PICK r : r = Tail(due)
    OBVIOUS
  <2>9. /\ t \in Seq([id : Shown, image : BOOLEAN]) /\ Len(t) = Len(zip) + 1
        /\ \A k \in DOMAIN t : IF k = Len(zip) + 1 THEN t[k] = new ELSE k \in DOMAIN zip /\ t[k] = zip[k]
    BY <2>4, <2>5, <2>7
  <2>10. /\ r \in Seq(Shown) /\ Len(r) = Len(due) - 1
         /\ \A k \in DOMAIN r : k + 1 \in DOMAIN due /\ r[k] = due[k + 1]
    BY <2>4, <2>8
  <2>11. Aligned(t, r)
    <3>1. \A k \in DOMAIN t : t[k].id = records[k] /\ (t[k].image \/ (records[k] \in seen /\ records[k] \notin originals))
      <4> SUFFICES ASSUME NEW k \in DOMAIN t
                   PROVE  t[k].id = records[k] /\ (t[k].image \/ (records[k] \in seen /\ records[k] \notin originals))
        OBVIOUS
      <4>1. CASE k = Len(zip) + 1
        BY <2>5, <2>6, <2>9, <4>1
      <4>2. CASE k # Len(zip) + 1
        BY <2>1, <2>9, <4>2 DEF Aligned
      <4> QED
        BY <4>1, <4>2
    <3>2. \A k \in DOMAIN r : r[k] = records[Len(t) + k]
      <4> SUFFICES ASSUME NEW k \in DOMAIN r PROVE r[k] = records[Len(t) + k]
        OBVIOUS
      <4>1. k \in Nat /\ k + 1 \in DOMAIN due /\ r[k] = due[k + 1]
        BY <2>10
      <4>2. due[k + 1] = records[Len(zip) + (k + 1)]
        BY <2>1, <4>1 DEF Aligned
      <4>3. Len(zip) + (k + 1) = Len(t) + k
        BY <2>4, <2>9, <4>1
      <4> QED
        BY <4>1, <4>2, <4>3
    <3>3. Len(records) = Len(t) + Len(r)
      BY <2>4, <2>9, <2>10
    <3> QED
      BY <2>9, <2>10, <3>1, <3>2, <3>3 DEF Aligned
  <2>12. Aligned(t, r)'
    BY <1>5, <2>11
  <2>13. Aligned(zip, due)'
    BY <2>3, <2>7, <2>8, <2>12 DEF Aligned
  <2>14. Edits!TypeOK'
    <3>1. due' \in Seq(Shown)
      BY <2>3, <2>8, <2>10
    <3>2. \A k \in DOMAIN zip' : zip'[k] \in [id : Shown, image : BOOLEAN]
      <4>1. \A k \in DOMAIN t : t[k] \in [id : Shown, image : BOOLEAN]
        BY <2>9, Elements
      <4>2. zip' = t
        BY <2>3, <2>7
      <4> QED
        BY <4>1, <4>2, Zenon
    <3> QED
      BY <1>1, <1>2, <1>4, <2>3, <3>1, <3>2 DEF Edits!TypeOK
  <2>15. export \in {"building", "cancelled"} /\ ~leaked
    BY <1>1, <2>1 DEF ExportSafe, Edits!TypeOK
  <2>16. ExportSafe'
    BY <1>1, <1>2, <1>6, <2>1, <2>3, <2>13, <2>15 DEF ExportSafe
  <2> QED
    BY <1>3, <2>14, <2>16 DEF EditsSafe
<1>11. CASE Edits!WorkerEnds
  <2>1. /\ archiver = "writing" /\ ((due = << >> /\ archiver' = "done") \/ archiver' = "failed")
        /\ UNCHANGED <<export, zip, due>>
    BY <1>11 DEF Edits!WorkerEnds
  <2>2. Edits!TypeOK'
    BY <1>1, <1>2, <1>4, <2>1 DEF Edits!TypeOK
  <2>3. archiver' = "done" => Aligned(zip, << >>)'
    <3>1. Aligned(zip, due)
      BY <1>1, <2>1 DEF ExportSafe
    <3> QED
      BY <1>2, <2>1, <3>1 DEF Aligned
  <2>4. export \in {"building", "cancelled"} /\ ~leaked
    BY <1>1, <2>1 DEF ExportSafe, Edits!TypeOK
  <2>5. ExportSafe'
    BY <1>1, <1>2, <1>6, <2>1, <2>3, <2>4 DEF ExportSafe
  <2> QED
    BY <1>3, <2>2, <2>5 DEF EditsSafe
<1>12. CASE Edits!CleanUp
  <2>1. /\ archiver \in {"done", "failed"} /\ zip' = None /\ UNCHANGED <<archiver, due>>
        /\ \/ export = "cancelled" /\ export' = "cut"
           \/ export = "building" /\ archiver = "failed" /\ export' = "failed"
    BY <1>12 DEF Edits!CleanUp
  <2>2. Edits!TypeOK'
    BY <1>1, <1>2, <1>4, <2>1 DEF Edits!TypeOK
  <2>3. ExportSafe'
    BY <1>1, <1>2, <1>6, <2>1 DEF ExportSafe
  <2> QED
    BY <1>3, <2>2, <2>3 DEF EditsSafe
<1>13. CASE Edits!Send
  <2>1. export = "building" /\ archiver = "done" /\ export' = "sending" /\ UNCHANGED <<zip, archiver, due>>
    BY <1>13 DEF Edits!Send
  <2>2. Edits!TypeOK'
    BY <1>1, <1>2, <1>4, <2>1 DEF Edits!TypeOK
  <2>3. Aligned(zip, << >>)'
    <3>1. Aligned(zip, << >>)
      BY <1>1, <2>1 DEF ExportSafe
    <3> QED
      BY <1>2, <2>1, <3>1 DEF Aligned
  <2>4. ExportSafe'
    BY <1>1, <1>2, <1>6, <2>1, <2>3 DEF ExportSafe
  <2> QED
    BY <1>3, <2>2, <2>4 DEF EditsSafe
<1>14. CASE Edits!Sent
  <2>1. export = "sending" /\ export' = "sent" /\ zip' = None /\ UNCHANGED <<archiver, due>>
    BY <1>14 DEF Edits!Sent
  <2>2. Edits!TypeOK'
    BY <1>1, <1>2, <1>4, <2>1 DEF Edits!TypeOK
  <2>3. ExportSafe'
    BY <1>1, <1>2, <1>6, <2>1 DEF ExportSafe
  <2> QED
    BY <1>3, <2>2, <2>3 DEF EditsSafe
<1> QED
  BY <1>8, <1>9, <1>10, <1>11, <1>12, <1>13, <1>14

LEMMA UnlinkSafe ==
  ASSUME Edits!DeskAssumption, EditsSafe, NEW i \in Shown, Edits!DeleteFiles(i) \/ Edits!DeleteRow(i)
  PROVE  EditsSafe'
<1>1. Edits!TypeOK /\ ExportSafe /\ EditSafe /\ UploadSafe
  BY DEF EditsSafe
<1>2. UNCHANGED <<export, records, zip, archiver, due, seen, leaked, update, readRow, later,
                  source, posted, decoder, temporary, sourced>>
  BY DEF Edits!DeleteFiles, Edits!DeleteRow, Edits!updateVars, Edits!uploadVars, Edits!exportVars
<1>3. UploadSafe'
  BY <1>1, <1>2, UploadRests
<1>4. originals' \subseteq originals
  BY DEF Edits!DeleteFiles, Edits!DeleteRow
<1>5. \A t, r : Aligned(t, r) => Aligned(t, r)'
  BY <1>2, <1>4, AlignedStays
<1>6. ExportSafe'
  <2>1. archiver = "writing" => Aligned(zip, due)'
    <3>1. archiver = "writing" => Aligned(zip, due)
      BY <1>1 DEF ExportSafe
    <3>2. PICK t, r : t = zip /\ r = due
      OBVIOUS
    <3> QED
      BY <1>2, <1>5, <3>1, <3>2 DEF Aligned
  <2>2. archiver = "done" /\ export \in {"building", "sending"} => Aligned(zip, << >>)'
    <3>1. archiver = "done" /\ export \in {"building", "sending"} => Aligned(zip, << >>)
      BY <1>1 DEF ExportSafe
    <3>2. PICK t : t = zip
      OBVIOUS
    <3>3. archiver = "done" /\ export \in {"building", "sending"} => Aligned(t, << >>)'
      BY <1>5, <3>1, <3>2
    <3> QED
      BY <1>2, <3>2, <3>3 DEF Aligned
  <2>3. Single(records)'
    BY <1>1, <1>2 DEF ExportSafe, Single
  <2> QED
    BY <1>1, <1>2, <2>1, <2>2, <2>3 DEF ExportSafe
<1>7. CASE Edits!DeleteFiles(i)
  <2>1. i \in Edits!Rows /\ unlinking' = unlinking \cup {i} /\ columns' = columns
    BY <1>7 DEF Edits!DeleteFiles
  <2>2. Edits!Rows' = Edits!Rows
    BY <2>1 DEF Edits!Rows
  <2>3. Edits!TypeOK'
    BY <1>1, <1>2, <1>4, <2>1, <2>2 DEF Edits!TypeOK
  <2>4. EditSafe'
    BY <1>1, <1>2, <2>1, EditRests
  <2> QED
    BY <1>3, <1>6, <2>3, <2>4 DEF EditsSafe
<1>8. CASE Edits!DeleteRow(i)
  <2>1. columns' = [columns EXCEPT ![i] = None] /\ unlinking' = unlinking \ {i} /\ originals' = originals
    BY <1>8 DEF Edits!DeleteRow
  <2>2. columns' \in [Shown -> [Edits!Fields -> Nat] \cup {None}] /\ \A j \in Shown : j # i => columns'[j] = columns[j]
    BY <1>1, <2>1 DEF Edits!TypeOK
  <2>3. columns'[i] = None
    BY <1>1, <2>1 DEF Edits!TypeOK
  <2>4. unlinking' \subseteq Edits!Rows'
    BY <1>1, <2>1, <2>2 DEF Edits!TypeOK, Edits!Rows
  <2>5. Edits!TypeOK'
    BY <1>1, <1>2, <2>1, <2>2, <2>4 DEF Edits!TypeOK
  <2>6. \A u \in Patches : columns'[PatchImage[u]] # None => columns'[PatchImage[u]] = columns[PatchImage[u]]
    BY <2>2, <2>3, DeskFacts
  <2>7. EditSafe'
    BY <1>1, <1>2, <2>6 DEF EditSafe, Edits!UpdatesKept
  <2> QED
    BY <1>3, <1>6, <2>5, <2>7 DEF EditsSafe
<1> QED
  BY <1>7, <1>8

LEMMA ExportRests ==
  ASSUME ExportSafe, UNCHANGED <<originals, export, records, zip, archiver, due, seen, leaked>>
  PROVE  ExportSafe'
BY DEF ExportSafe, Aligned, Single

LEMMA PatchSafe ==
  ASSUME Edits!DeskAssumption, EditsSafe, NEW u \in Patches, Edits!ReadRow(u) \/ Edits!CommitUpdate(u)
  PROVE  EditsSafe'
<1>1. Edits!TypeOK /\ ExportSafe /\ EditSafe /\ UploadSafe
  BY DEF EditsSafe
<1>2. UNCHANGED <<originals, unlinking, export, records, zip, archiver, due, seen, leaked,
                  source, posted, decoder, temporary, sourced>>
  BY DEF Edits!ReadRow, Edits!CommitUpdate, Edits!uploadVars, Edits!exportVars
<1>3. UploadSafe' /\ ExportSafe'
  BY <1>1, <1>2, UploadRests, ExportRests
<1>4. /\ columns \in [Shown -> [Edits!Fields -> Nat] \cup {None}] /\ update \in [Patches -> {"idle", "read", "done", "refused"}]
      /\ readRow \in [Patches -> [Edits!Fields -> Nat] \cup {None}] /\ later \in [Patches -> SUBSET Patches]
      /\ \A v \in Patches : update[v] = "read" => readRow[v] # None
  BY <1>1 DEF Edits!TypeOK, EditSafe
<1>5. /\ \A v \in Patches : PatchImage[v] \in Shown /\ PatchChange[v] \in [Edits!Fields -> Nat \cup {None}]
      /\ None \notin Nat /\ None \notin [Edits!Fields -> Nat]
  BY DeskFacts
<1>6. CASE Edits!ReadRow(u)
  <2>0. PICK old \in [Edits!Fields -> Nat] \cup {None} : old = columns[PatchImage[u]]
    BY <1>4, <1>5
  <2>1. /\ update[u] = "idle" /\ columns' = columns /\ later' = later
        /\ update' = [update EXCEPT ![u] = IF old = None THEN "refused" ELSE "read"]
        /\ readRow' = [readRow EXCEPT ![u] = old]
    BY <1>6, <2>0 DEF Edits!ReadRow
  <2>2. /\ update' \in [Patches -> {"idle", "read", "done", "refused"}]
        /\ readRow' \in [Patches -> [Edits!Fields -> Nat] \cup {None}]
    BY <1>4, <2>1
  <2>3. \A v \in Patches : v # u => update'[v] = update[v] /\ readRow'[v] = readRow[v]
    BY <1>4, <2>1
  <2>4. readRow'[u] = old /\ update'[u] # "done" /\ (update'[u] = "read" => old # None)
    BY <1>4, <2>1
  <2>5. Edits!TypeOK'
    <3>1. Edits!Rows' = Edits!Rows
      BY <2>1 DEF Edits!Rows
    <3> QED
      BY <1>1, <1>2, <2>1, <2>2, <3>1 DEF Edits!TypeOK
  <2>6. EditSafe'
    <3>1. \A v \in Patches : update'[v] = "read" => readRow'[v] # None
      BY <1>4, <2>3, <2>4
    <3>2. ASSUME NEW v \in Patches, update'[v] = "read", columns'[PatchImage[v]] # None, NEW f \in Edits!Fields
          PROVE  \/ columns'[PatchImage[v]][f] = readRow'[v][f]
                 \/ \E w \in later'[v] : PatchImage[w] = PatchImage[v] /\ PatchChange[w][f] = columns'[PatchImage[v]][f]
      <4>1. CASE v = u
        BY <2>0, <2>1, <2>4, <4>1
      <4>2. CASE v # u
        BY <1>1, <2>1, <2>3, <3>2, <4>2 DEF EditSafe
      <4> QED
        BY <4>1, <4>2
    <3>3. Edits!UpdatesKept'
      BY <1>1, <2>1, <2>3, <2>4 DEF EditSafe, Edits!UpdatesKept
    <3> QED
      BY <1>4, <2>1, <2>2, <3>1, <3>2, <3>3 DEF EditSafe
  <2> QED
    BY <1>3, <2>5, <2>6 DEF EditsSafe
<1>7. CASE Edits!CommitUpdate(u) /\ columns[PatchImage[u]] = None
  <2>1. /\ update[u] = "read" /\ columns' = columns /\ later' = later /\ readRow' = readRow
        /\ update' = [update EXCEPT ![u] = "refused"]
    BY <1>7 DEF Edits!CommitUpdate
  <2>2. update' \in [Patches -> {"idle", "read", "done", "refused"}]
    BY <1>4, <2>1
  <2>3. \A v \in Patches : update'[v] \in {"read", "done"} => update'[v] = update[v]
    BY <1>4, <2>1
  <2>4. Edits!TypeOK'
    <3>1. Edits!Rows' = Edits!Rows
      BY <2>1 DEF Edits!Rows
    <3> QED
      BY <1>1, <1>2, <2>1, <2>2, <3>1 DEF Edits!TypeOK
  <2>5. EditSafe'
    <3>1. Edits!UpdatesKept'
      BY <1>1, <2>1, <2>3 DEF EditSafe, Edits!UpdatesKept
    <3> QED
      BY <1>1, <2>1, <2>3, <3>1 DEF EditSafe
  <2> QED
    BY <1>3, <2>4, <2>5 DEF EditsSafe
<1>8. CASE Edits!CommitUpdate(u) /\ columns[PatchImage[u]] # None
  <2>0. PICK i \in Shown : i = PatchImage[u]
    BY <1>5
  <2>1. PICK old \in [Edits!Fields -> Nat] : old = columns[i]
    BY <1>4, <1>8, <2>0
  <2>2. PICK new : new = Edits!Written(u, old)
    OBVIOUS
  <2>3. /\ update[u] = "read" /\ readRow' = readRow
        /\ columns' = [columns EXCEPT ![i] = new] /\ update' = [update EXCEPT ![u] = "done"]
        /\ later' = [v \in Patches |-> IF v # u /\ update[v] \in {"read", "done"} THEN later[v] \cup {u} ELSE later[v]]
    BY <1>8, <2>0, <2>1, <2>2 DEF Edits!CommitUpdate
  <2>4. /\ new \in [Edits!Fields -> Nat]
        /\ \A f \in Edits!Fields : new[f] = IF PatchChange[u][f] \notin {None, readRow[u][f]} THEN PatchChange[u][f] ELSE old[f]
    <3>1. \A f \in Edits!Fields : PatchChange[u][f] \in Nat \cup {None}
      BY <1>5
    <3> QED
      BY <2>1, <2>2, <3>1 DEF Edits!Written
  <2>5. /\ columns' \in [Shown -> [Edits!Fields -> Nat] \cup {None}] /\ columns'[i] = new
        /\ \A j \in Shown : j # i => columns'[j] = columns[j]
    BY <1>4, <2>3, <2>4
  <2>6. /\ update' \in [Patches -> {"idle", "read", "done", "refused"}] /\ update'[u] = "done"
        /\ \A v \in Patches : v # u => update'[v] = update[v]
    BY <1>4, <2>3
  <2>7. /\ later' \in [Patches -> SUBSET Patches] /\ \A v \in Patches : later[v] \subseteq later'[v]
        /\ \A v \in Patches : v # u /\ update[v] \in {"read", "done"} => u \in later'[v]
    BY <1>4, <2>3
  <2>8. Edits!Rows' = Edits!Rows
    <3>1. columns'[i] # None /\ columns[i] # None
      BY <1>5, <2>1, <2>4, <2>5
    <3> QED
      BY <2>5, <3>1 DEF Edits!Rows
  <2>9. Edits!TypeOK'
    BY <1>1, <1>2, <2>5, <2>6, <2>8 DEF Edits!TypeOK
  <2>10. \A v \in Patches : columns'[PatchImage[v]] # None => columns[PatchImage[v]] # None
    BY <1>5, <2>1, <2>5
  <2>11. ASSUME NEW v \in Patches, v # u, update[v] \in {"read", "done"}, NEW f \in Edits!Fields, columns'[PatchImage[v]] # None
         PROVE  \/ columns'[PatchImage[v]][f] = columns[PatchImage[v]][f]
                \/ \E w \in later'[v] : PatchImage[w] = PatchImage[v] /\ PatchChange[w][f] = columns'[PatchImage[v]][f]
    <3>1. CASE PatchImage[v] # i
      BY <1>5, <2>5, <3>1
    <3>2. CASE PatchImage[v] = i /\ new[f] = old[f]
      BY <2>1, <2>5, <3>2
    <3>3. CASE PatchImage[v] = i /\ new[f] # old[f]
      <4>1. PatchChange[u][f] = columns'[PatchImage[v]][f] /\ PatchImage[u] = PatchImage[v]
        BY <2>0, <2>4, <2>5, <3>3
      <4>2. u \in later'[v]
        BY <2>7, <2>11
      <4> QED
        BY <4>1, <4>2
    <3> QED
      BY <3>1, <3>2, <3>3
  <2>12. ASSUME NEW v \in Patches, update'[v] = "read", columns'[PatchImage[v]] # None, NEW f \in Edits!Fields
         PROVE  \/ columns'[PatchImage[v]][f] = readRow'[v][f]
                \/ \E w \in later'[v] : PatchImage[w] = PatchImage[v] /\ PatchChange[w][f] = columns'[PatchImage[v]][f]
    <3>1. v # u /\ update[v] = "read"
      BY <2>6, <2>12
    <3>2. columns[PatchImage[v]] # None
      BY <2>10, <2>12
    <3>3. \/ columns[PatchImage[v]][f] = readRow[v][f]
          \/ \E w \in later[v] : PatchImage[w] = PatchImage[v] /\ PatchChange[w][f] = columns[PatchImage[v]][f]
      BY <1>1, <3>1, <3>2 DEF EditSafe
    <3>4. \/ columns'[PatchImage[v]][f] = columns[PatchImage[v]][f]
          \/ \E w \in later'[v] : PatchImage[w] = PatchImage[v] /\ PatchChange[w][f] = columns'[PatchImage[v]][f]
      BY <2>11, <2>12, <3>1
    <3> QED
      BY <2>3, <2>7, <3>3, <3>4
  <2>13. ASSUME NEW v \in Patches, update'[v] = "done", columns'[PatchImage[v]] # None, NEW f \in Edits!Fields,
                PatchChange[v][f] # None
         PROVE  \/ columns'[PatchImage[v]][f] = PatchChange[v][f]
                \/ \E w \in later'[v] : PatchImage[w] = PatchImage[v] /\ PatchChange[w][f] = columns'[PatchImage[v]][f]
    <3>1. columns[PatchImage[v]] # None
      BY <2>10, <2>13
    <3>2. CASE v # u
      <4>1. update[v] = "done"
        BY <2>6, <2>13, <3>2
      <4>2. \/ columns[PatchImage[v]][f] = PatchChange[v][f]
            \/ \E w \in later[v] : PatchImage[w] = PatchImage[v] /\ PatchChange[w][f] = columns[PatchImage[v]][f]
        BY <1>1, <2>13, <3>1, <4>1 DEF EditSafe, Edits!UpdatesKept
      <4>3. \/ columns'[PatchImage[v]][f] = columns[PatchImage[v]][f]
            \/ \E w \in later'[v] : PatchImage[w] = PatchImage[v] /\ PatchChange[w][f] = columns'[PatchImage[v]][f]
        BY <2>11, <2>13, <3>2, <4>1
      <4> QED
        BY <2>7, <4>2, <4>3
    <3>3. CASE v = u
      <4>1. columns'[PatchImage[v]] = new /\ columns[PatchImage[v]] = old
        BY <2>0, <2>1, <2>5, <3>3
      <4>2. CASE new[f] = PatchChange[u][f]
        BY <3>3, <4>1, <4>2
      <4>3. CASE new[f] # PatchChange[u][f]
        <5>1. PatchChange[u][f] = readRow[u][f] /\ new[f] = old[f]
          BY <2>4, <2>13, <3>3, <4>3
        <5>2. \/ old[f] = readRow[u][f]
              \/ \E w \in later[u] : PatchImage[w] = PatchImage[u] /\ PatchChange[w][f] = old[f]
          BY <1>1, <2>3, <3>1, <3>3, <4>1 DEF EditSafe
        <5> QED
          BY <2>7, <3>3, <4>1, <4>3, <5>1, <5>2
      <4> QED
        BY <4>2, <4>3
    <3> QED
      BY <3>2, <3>3
  <2>14. \A v \in Patches : update'[v] = "read" => readRow'[v] # None
    BY <1>4, <2>3, <2>6
  <2>15. Edits!UpdatesKept'
    BY <2>13 DEF Edits!UpdatesKept
  <2>16. EditSafe'
    BY <1>4, <2>3, <2>7, <2>12, <2>14, <2>15 DEF EditSafe
  <2> QED
    BY <1>3, <2>9, <2>16 DEF EditsSafe
<1> QED
  BY <1>6, <1>7, <1>8

LEMMA UploadsSafe ==
  ASSUME EditsSafe,
         \/ \E c \in Contents : Edits!Upload(c)
         \/ Edits!Decode \/ Edits!SaveTemporary \/ Edits!SaveFails \/ Edits!Replace \/ Edits!AnswerUpload
  PROVE  EditsSafe'
<1>1. Edits!TypeOK /\ ExportSafe /\ EditSafe /\ UploadSafe
  BY DEF EditsSafe
<1>2. UNCHANGED <<columns, originals, unlinking, export, records, zip, archiver, due, seen, leaked, update, readRow, later>>
  BY DEF Edits!Upload, Edits!Decode, Edits!SaveTemporary, Edits!SaveFails, Edits!Replace, Edits!AnswerUpload,
         Edits!updateVars, Edits!exportVars
<1>3. EditSafe' /\ ExportSafe'
  BY <1>1, <1>2, EditRests, ExportRests
<1>4. /\ UploadSafe'
      /\ source' \in {"idle", "waiting", "refused", "token", "gone"}
      /\ decoder' \in {"none", "decoding", "saving", "refused", "stored"}
      /\ temporary' \in BOOLEAN /\ sourced' \in BOOLEAN
  <2> USE <1>1 DEF Edits!TypeOK, UploadSafe, Edits!UploadsWhole
  <2>1. CASE \E c \in Contents : Edits!Upload(c)
    BY <2>1 DEF Edits!Upload
  <2>2. CASE Edits!Decode
    BY <2>2 DEF Edits!Decode
  <2>3. CASE Edits!SaveTemporary
    BY <2>3 DEF Edits!SaveTemporary
  <2>4. CASE Edits!SaveFails
    BY <2>4 DEF Edits!SaveFails
  <2>5. CASE Edits!Replace
    BY <2>5 DEF Edits!Replace
  <2>6. CASE Edits!AnswerUpload
    BY <2>6 DEF Edits!AnswerUpload
  <2> QED
    BY <2>1, <2>2, <2>3, <2>4, <2>5, <2>6
<1>5. Edits!TypeOK'
  <2>1. Edits!Rows' = Edits!Rows
    BY <1>2 DEF Edits!Rows
  <2> QED
    BY <1>1, <1>2, <1>4, <2>1 DEF Edits!TypeOK
<1> QED
  BY <1>3, <1>4, <1>5 DEF EditsSafe

LEMMA EditsStep ==
  ASSUME Edits!DeskAssumption, EditsSafe, Edits!Next
  PROVE  EditsSafe'
<1>1. CASE Edits!Select \/ Edits!Check \/ Edits!Build \/ Edits!CutEarly
  BY <1>1, SelectSafe
<1>2. CASE \/ Edits!Cancel \/ Edits!OpenArchive \/ Edits!WriteRecord \/ Edits!WorkerEnds
           \/ Edits!CleanUp \/ Edits!Send \/ Edits!Sent
  BY <1>2, ArchiveSafe
<1>3. ASSUME NEW i \in Shown, Edits!DeleteFiles(i) \/ Edits!DeleteRow(i) PROVE EditsSafe'
  BY <1>3, UnlinkSafe
<1>4. ASSUME NEW u \in Patches, Edits!ReadRow(u) \/ Edits!CommitUpdate(u) PROVE EditsSafe'
  BY <1>4, PatchSafe
<1>5. CASE \/ \E c \in Contents : Edits!Upload(c)
           \/ Edits!Decode \/ Edits!SaveTemporary \/ Edits!SaveFails \/ Edits!Replace \/ Edits!AnswerUpload
  BY <1>5, UploadsSafe
<1> QED
  BY <1>1, <1>2, <1>3, <1>4, <1>5 DEF Edits!Next

LEMMA EditsRests == EditsSafe /\ UNCHANGED editsVars => EditsSafe'
<1> SUFFICES ASSUME EditsSafe, UNCHANGED editsVars PROVE EditsSafe'
  OBVIOUS
<1>1. UNCHANGED <<columns, originals, unlinking, export, records, zip, archiver, due, seen, leaked, update, readRow, later,
                  source, posted, decoder, temporary, sourced>>
  BY DEF editsVars
<1>2. Edits!TypeOK'
  <2>1. Edits!Rows' = Edits!Rows
    BY <1>1 DEF Edits!Rows
  <2> QED
    BY <1>1, <2>1 DEF EditsSafe, Edits!TypeOK
<1> QED
  BY <1>1, <1>2, EditRests, ExportRests, UploadRests DEF EditsSafe

LEMMA EditsKept ==
  ASSUME Edits!DeskAssumption, EditsSafe
  PROVE  /\ Edits!TypeOK /\ Edits!ExportTrue /\ Edits!NoArchiveLeft
         /\ Edits!UpdatesKept /\ Edits!UploadsWhole
<1>1. Edits!ExportTrue
  <2> SUFFICES ASSUME export = "sending"
               PROVE  /\ zip # None /\ [k \in DOMAIN zip |-> zip[k].id] = records
                      /\ \A k, l \in DOMAIN records : k # l => records[k] # records[l]
                      /\ \A k \in DOMAIN zip : zip[k].image \/ (records[k] \in seen /\ records[k] \notin originals)
    BY DEF Edits!ExportTrue
  <2>1. Aligned(zip, << >>) /\ Single(records) /\ records \in Seq(Shown)
    BY DEF EditsSafe, ExportSafe, Edits!TypeOK
  <2>2. zip # None
    BY <2>1, DeskFacts DEF Aligned
  <2>3. zip \in Seq([id : Shown, image : BOOLEAN]) /\ Len(records) = Len(zip)
    BY <2>1 DEF Aligned
  <2>4. DOMAIN zip = 1..Len(zip) /\ DOMAIN records = 1..Len(zip)
    BY <2>1, <2>3
  <2>5. records = [k \in 1..Len(zip) |-> records[k]]
    BY <2>1, <2>3
  <2>6. \A k \in DOMAIN zip : zip[k].id = records[k]
    BY <2>1 DEF Aligned
  <2>7. [k \in DOMAIN zip |-> zip[k].id] = records
    BY <2>4, <2>5, <2>6
  <2> QED
    BY <2>1, <2>2, <2>7 DEF Aligned, Single
<1>2. Edits!NoArchiveLeft
  BY DEF EditsSafe, ExportSafe, Edits!TypeOK, Edits!NoArchiveLeft
<1>3. Edits!UploadsWhole
  BY DEF EditsSafe, UploadSafe, Edits!UploadsWhole
<1> QED
  BY <1>1, <1>2, <1>3 DEF EditsSafe, EditSafe

-----------------------------------------------------------------------------
(* The backups of the database.                                            *)

\* A run makes one directory, never written at the time of another; the complete ones
\* are of the runs that completed, in their order.
Dated ==
  /\ ticks \in Nat /\ keeping \in Nat \ {0} /\ keeping \in Keeps /\ kills \in 0..MaxKills /\ crossed \in BOOLEAN
  /\ script \in [BackupRuns -> [at : {"new", "made", "copied", "removing", "over"}, remove : Seq(BackupRuns)]]
  /\ backedUp \in Seq(BackupRuns)
  /\ IsFiniteSet(backups)
  /\ \A d \in backups : /\ d \in [run : BackupRuns, at : Nat, whole : BOOLEAN] /\ d.at < ticks /\ script[d.run].at # "new"
                        /\ d.whole => \E i \in DOMAIN backedUp : backedUp[i] = d.run
  /\ \A d, e \in backups : d.run = e.run \/ d.at = e.at => d = e
Completed ==
  /\ \A i \in DOMAIN backedUp : script[backedUp[i]].at \in {"removing", "over"}
  /\ \A i, j \in DOMAIN backedUp : backedUp[i] = backedUp[j] => i = j
  /\ \A d, e \in backups, i, j \in DOMAIN backedUp :
       d.whole /\ e.whole /\ backedUp[i] = d.run /\ backedUp[j] = e.run /\ i < j => d.at < e.at

\* The directories written since a time that nobody writes any more.
Settled(a) == {d \in backups : d.at >= a /\ (d.whole \/ script[d.run].at = "over")}
Full(a) == a \in Nat /\ keeping <= Cardinality(Settled(a))

\* A backup that was removed had enough newer ones, and they are there or newer ones are.
WholeRuns == {d.run : d \in {e \in backups : e.whole}}
NewerThan(a, i) == \A d \in backups, j \in DOMAIN backedUp : d.whole /\ d.at >= a /\ backedUp[j] = d.run => j > i
Displaced == \A i \in DOMAIN backedUp : backedUp[i] \notin WholeRuns => \E a : Full(a) /\ NewerThan(a, i)
Removing ==
  \A r \in BackupRuns : script[r].at = "removing" /\ script[r].remove # <<>> =>
    \E b : Full(b) /\ \A d \in backups, k \in DOMAIN script[r].remove : d.run = script[r].remove[k] => d.at < b
OneRun == \A q, r \in BackupRuns : {script[q].at, script[r].at} \subseteq {"made", "copied", "removing"} => q = r
KeptInOrder == ~crossed => OneRun /\ Displaced /\ Removing

\* What the last run to complete leaves.
Rest(r) == {q \in WholeRuns : \A k \in DOMAIN script[r].remove : script[r].remove[k] # q}
Bounded == backedUp # <<>> =>
  IsFiniteSet(Rest(backedUp[Len(backedUp)])) /\ Cardinality(Rest(backedUp[Len(backedUp)])) <= keeping

BackupsSafe == Dated /\ Completed /\ KeptInOrder /\ Bounded

LEMMA BackupsInit == Backup!BackupsAssumption /\ Backup!Init => BackupsSafe
<1> SUFFICES ASSUME Backup!BackupsAssumption, Backup!Init PROVE BackupsSafe
  OBVIOUS
<1>1. /\ backups = {} /\ ticks = 0 /\ kills = 0 /\ backedUp = <<>> /\ crossed = FALSE
      /\ script = [r \in BackupRuns |-> [at |-> "new", remove |-> <<>>]]
      /\ keeping \in Keeps /\ keeping \in Nat \ {0} /\ 0 \in 0..MaxKills
  BY DEF Backup!BackupsAssumption, Backup!Init
<1>2. <<>> \in Seq(BackupRuns) /\ DOMAIN backedUp = {} /\ IsFiniteSet({})
  BY <1>1, FS_EmptySet
<1>3. Dated
  <2>1. script \in [BackupRuns -> [at : {"new", "made", "copied", "removing", "over"}, remove : Seq(BackupRuns)]]
    BY <1>1, <1>2
  <2> QED
    BY <1>1, <1>2, <2>1 DEF Dated
<1>4. Completed
  BY <1>1, <1>2 DEF Completed
<1>5. KeptInOrder
  BY <1>1, <1>2 DEF KeptInOrder, OneRun, Displaced, Removing
<1> QED
  BY <1>1, <1>3, <1>4, <1>5 DEF BackupsSafe, Bounded

\* A run that has not written its manifest has no whole backup.
LEMMA Unfinished ==
  ASSUME Dated, Completed, NEW r \in BackupRuns, script[r].at \in {"new", "made", "copied"}
  PROVE  /\ \A i \in DOMAIN backedUp : backedUp[i] # r
         /\ \A d \in backups : d.run = r => ~d.whole
<1>1. \A i \in DOMAIN backedUp : backedUp[i] # r
  BY DEF Completed
<1> QED
  BY <1>1 DEF Dated

\* The directory that a run writes replaces the one it had, if any.
LEMMA DirWritten ==
  ASSUME Dated, NEW r \in BackupRuns, NEW w \in BOOLEAN
  PROVE  LET new == [run |-> r, at |-> ticks, whole |-> w]
         IN /\ new \in Backup!With(r, w) /\ \A d \in Backup!With(r, w) : d = new \/ (d \in backups /\ d.run # r)
            /\ \A d \in backups : d.run # r => d \in Backup!With(r, w)
            /\ IsFiniteSet(Backup!With(r, w))
            /\ \A d \in Backup!With(r, w) : d \in [run : BackupRuns, at : Nat, whole : BOOLEAN] /\ d.at < ticks + 1
            /\ \A d, e \in Backup!With(r, w) : d.run = e.run \/ d.at = e.at => d = e
<1> DEFINE new == [run |-> r, at |-> ticks, whole |-> w]
<1>1. new \in [run : BackupRuns, at : Nat, whole : BOOLEAN] /\ new.at = ticks /\ new.run = r
  BY DEF Dated
<1>2. Backup!With(r, w) = Backup!Without(r) \cup {new}
  BY DEF Backup!With
<1>3. Backup!Without(r) \in SUBSET backups /\ \A d \in Backup!Without(r) : d.run # r
  BY DEF Backup!Without
<1> HIDE DEF new
<1>4. IsFiniteSet(Backup!With(r, w))
  BY <1>2, <1>3, FS_Subset, FS_AddElement DEF Dated
<1>5. \A d \in Backup!With(r, w) : d = new \/ (d \in backups /\ d.run # r)
  BY <1>2, <1>3
<1>6. \A d \in Backup!With(r, w) : d \in [run : BackupRuns, at : Nat, whole : BOOLEAN] /\ d.at < ticks + 1
  <2> TAKE d \in Backup!With(r, w)
  <2>1. CASE d = new
    BY <1>1, <2>1 DEF Dated
  <2>2. CASE d \in backups
    <3>1. d \in [run : BackupRuns, at : Nat, whole : BOOLEAN] /\ d.at < ticks /\ ticks \in Nat
      BY <2>2 DEF Dated
    <3>2. d.at \in Nat
      BY <3>1
    <3> QED
      BY <3>1, <3>2
  <2> QED
    BY <1>5, <2>1, <2>2
<1>7. \A d \in backups : d.at # ticks
  <2> TAKE d \in backups
  <2>1. d \in [run : BackupRuns, at : Nat, whole : BOOLEAN] /\ d.at < ticks /\ ticks \in Nat
    BY DEF Dated
  <2>2. d.at \in Nat
    BY <2>1
  <2> QED
    BY <2>1, <2>2
<1>8. \A d, e \in Backup!With(r, w) : d.run = e.run \/ d.at = e.at => d = e
  BY <1>1, <1>5, <1>7 DEF Dated
<1>9. new \in Backup!With(r, w) /\ \A d \in backups : d.run # r => d \in Backup!With(r, w)
  BY <1>2 DEF Backup!Without
<1> QED
  BY <1>4, <1>5, <1>6, <1>8, <1>9 DEF new

\* A run that goes on and leaves the backups that are not its own.
LEMMA RunGoes ==
  ASSUME Dated, NEW r \in BackupRuns, NEW s \in {"made", "copied", "removing", "over"}, Backup!Goto(r, s)
  PROVE  /\ script' \in [BackupRuns -> [at : {"new", "made", "copied", "removing", "over"}, remove : Seq(BackupRuns)]]
         /\ script'[r].at = s /\ \A q \in BackupRuns : script'[q].remove = script[q].remove /\ (q # r => script'[q] = script[q])
<1>1. PICK u \in [at : {"new", "made", "copied", "removing", "over"}, remove : Seq(BackupRuns)] : u = script[r]
  BY DEF Dated
<1> DEFINE v == [at |-> s, remove |-> u.remove]
<1>2. [u EXCEPT !.at = s] = v
  OBVIOUS
<1>3. v \in [at : {"new", "made", "copied", "removing", "over"}, remove : Seq(BackupRuns)] /\ v.at = s /\ v.remove = u.remove
  OBVIOUS
<1> HIDE DEF v
<1>4. script' = [script EXCEPT ![r] = v]
  BY <1>1, <1>2 DEF Backup!Goto, Dated
<1> QED
  BY <1>1, <1>3, <1>4 DEF Dated

\* What a step leaves that completes no backup and removes none.
LEMMA NoneRemoved ==
  ASSUME Dated, Completed, KeptInOrder, Bounded, NEW r \in BackupRuns, NEW s \in {"made", "copied", "over"}, Backup!Goto(r, s),
         backedUp' = backedUp, keeping' = keeping, IsFiniteSet(backups'),
         \A d : d.whole => (d \in backups' <=> d \in backups),
         \A d \in backups : ~d.whole /\ script[d.run].at = "over" => d \in backups' /\ d.run # r,
         s # "over" => \A i \in DOMAIN backedUp : backedUp[i] # r,
         ~crossed' => ~crossed /\ \A q \in BackupRuns : q # r => script[q].at \notin {"made", "copied", "removing"}
  PROVE  Completed' /\ KeptInOrder' /\ Bounded'
<1>0. /\ script' \in [BackupRuns -> [at : {"new", "made", "copied", "removing", "over"}, remove : Seq(BackupRuns)]]
      /\ script'[r].at = s /\ \A q \in BackupRuns : script'[q].remove = script[q].remove /\ (q # r => script'[q] = script[q])
  BY RunGoes
<1>1. WholeRuns' = WholeRuns
  BY DEF WholeRuns
<1>2. Completed'
  <2>1. \A i \in DOMAIN backedUp : backedUp[i] \in BackupRuns
    BY DEF Dated
  <2> QED
    BY <1>0, <2>1 DEF Completed
<1>3. Bounded'
  <2>1. backedUp # <<>> => backedUp[Len(backedUp)] \in BackupRuns
    BY DEF Dated
  <2>2. \A x \in BackupRuns : Rest(x)' = Rest(x)
    BY <1>0, <1>1 DEF Rest
  <2>3. backedUp # <<>> => Rest(backedUp[Len(backedUp)])' = Rest(backedUp[Len(backedUp)])
    BY <2>1, <2>2
  <2> QED
    BY <2>3 DEF Bounded
<1>4. ASSUME ~crossed' PROVE OneRun' /\ Displaced' /\ Removing'
  <2>1. OneRun' /\ Removing'
    BY <1>0, <1>4 DEF OneRun, Removing
  <2>2. ASSUME NEW i \in DOMAIN backedUp, backedUp[i] \notin WholeRuns
        PROVE  \E a : (Full(a) /\ NewerThan(a, i))'
    <3>1. PICK a : Full(a) /\ NewerThan(a, i)
      BY <1>4, <2>2 DEF KeptInOrder, Displaced
    <3>2. Settled(a) \in SUBSET Settled(a)'
      <4>1. \A d \in backups : d.run \in BackupRuns
        BY DEF Dated
      <4> QED
        BY <1>0, <4>1 DEF Settled
    <3>3. Full(a)'
      <4>1. IsFiniteSet(Settled(a)')
        BY FS_Subset DEF Settled
      <4>2. /\ IsFiniteSet(Settled(a)) /\ Cardinality(Settled(a)) <= Cardinality(Settled(a)')
            /\ Cardinality(Settled(a)) \in Nat /\ Cardinality(Settled(a)') \in Nat
        BY <3>2, <4>1, FS_Subset, FS_CardinalityType
      <4>3. a \in Nat /\ keeping \in Nat /\ keeping <= Cardinality(Settled(a))
        BY <3>1 DEF Full, Dated
      <4>4. keeping' <= Cardinality(Settled(a)')
        BY <4>2, <4>3
      <4> QED
        BY <4>3, <4>4 DEF Full
    <3>4. NewerThan(a, i)'
      BY <3>1 DEF NewerThan
    <3> QED
      BY <3>3, <3>4
  <2> QED
    BY <1>1, <2>1, <2>2 DEF Displaced
<1> QED
  BY <1>2, <1>3, <1>4 DEF KeptInOrder

\* The runs before a manifest is written.
LEMMA MakesSafe ==
  ASSUME Backup!BackupsAssumption, BackupsSafe, NEW r \in BackupRuns, Backup!MakeDir(r) \/ Backup!Snapshot(r)
  PROVE  BackupsSafe'
<1> USE DEF BackupsSafe
<1> DEFINE s == IF script[r].at = "new" THEN "made" ELSE "copied"
<1>1. /\ script[r].at \in {"new", "made"} /\ Backup!Goto(r, s) /\ backups' = Backup!With(r, FALSE) /\ ticks' = ticks + 1
      /\ UNCHANGED <<keeping, kills, backedUp>> /\ s \in {"made", "copied"}
      /\ crossed' \in BOOLEAN
      /\ ~crossed' => ~crossed /\ \A q \in BackupRuns : q # r => script[q].at \notin {"made", "copied", "removing"}
  <2>1. CASE Backup!MakeDir(r)
    BY <2>1 DEF Backup!MakeDir, Dated
  <2>2. CASE Backup!Snapshot(r)
    BY <2>2 DEF Backup!Snapshot, Dated, KeptInOrder, OneRun
  <2> QED
    BY <2>1, <2>2
<1> HIDE DEF s
<1>2. /\ script' \in [BackupRuns -> [at : {"new", "made", "copied", "removing", "over"}, remove : Seq(BackupRuns)]]
      /\ script'[r].at = s /\ \A q \in BackupRuns : script'[q].remove = script[q].remove /\ (q # r => script'[q] = script[q])
  BY <1>1, RunGoes
<1> DEFINE new == [run |-> r, at |-> ticks, whole |-> FALSE]
<1>3. /\ new \in backups' /\ \A d \in backups' : d = new \/ (d \in backups /\ d.run # r)
      /\ \A d \in backups : d.run # r => d \in backups'
      /\ IsFiniteSet(backups')
      /\ \A d \in backups' : d \in [run : BackupRuns, at : Nat, whole : BOOLEAN] /\ d.at < ticks'
      /\ \A d, e \in backups' : d.run = e.run \/ d.at = e.at => d = e
  BY <1>1, DirWritten
<1>4. ~new.whole /\ new.run = r
  OBVIOUS
<1> HIDE DEF new
<1>5. /\ \A i \in DOMAIN backedUp : backedUp[i] # r
      /\ \A d \in backups : d.run = r => ~d.whole
  BY <1>1, Unfinished
<1>6. Dated'
  <2>0. \A d \in backups : d.run \in BackupRuns /\ script[d.run].at # "new"
    BY DEF Dated
  <2>1. \A d \in backups' : script'[d.run].at # "new"
    <3> TAKE d \in backups'
    <3>1. CASE d = new
      <4>1. d.run = r
        BY <1>4, <3>1
      <4> QED
        BY <1>1, <1>2, <4>1
    <3>2. CASE d \in backups /\ d.run # r
      BY <1>2, <2>0, <3>2
    <3> QED
      BY <1>3, <3>1, <3>2
  <2>2. \A d \in backups' : d.whole => \E i \in DOMAIN backedUp' : backedUp'[i] = d.run
    BY <1>1, <1>3, <1>4 DEF Dated
  <2>3. ticks' \in Nat
    BY <1>1 DEF Dated
  <2> QED
    BY <1>1, <1>2, <1>3, <2>1, <2>2, <2>3 DEF Dated
<1>7. \A d : d.whole => (d \in backups' <=> d \in backups)
  BY <1>3, <1>4, <1>5
<1>8. \A d \in backups : ~d.whole /\ script[d.run].at = "over" => d \in backups' /\ d.run # r
  BY <1>1, <1>3
<1>9. IsFiniteSet(backups') /\ s \in {"made", "copied", "over"} /\ (s # "over" => \A i \in DOMAIN backedUp : backedUp[i] # r)
  BY <1>1, <1>3, <1>5
<1>10. Completed' /\ KeptInOrder' /\ Bounded'
  BY <1>1, <1>7, <1>8, <1>9, NoneRemoved
<1> QED
  BY <1>6, <1>10

LEMMA EndsSafe ==
  ASSUME Backup!BackupsAssumption, BackupsSafe, NEW r \in BackupRuns, Backup!Fail(r) \/ Backup!Kill(r)
  PROVE  BackupsSafe'
<1> USE DEF BackupsSafe
<1>1. /\ script[r].at \in {"made", "copied", "removing"} /\ Backup!Goto(r, "over")
      /\ UNCHANGED <<keeping, ticks, backedUp, crossed>> /\ kills' \in 0..MaxKills
      /\ backups' = backups \/ (script[r].at # "removing" /\ backups' = Backup!Without(r))
  <2>1. CASE Backup!Fail(r)
    BY <2>1 DEF Backup!Fail, Dated
  <2>2. CASE Backup!Kill(r)
    BY <2>2 DEF Backup!Kill, Dated, Backup!BackupsAssumption
  <2> QED
    BY <2>1, <2>2
<1>2. /\ script' \in [BackupRuns -> [at : {"new", "made", "copied", "removing", "over"}, remove : Seq(BackupRuns)]]
      /\ script'[r].at = "over" /\ \A q \in BackupRuns : script'[q].remove = script[q].remove /\ (q # r => script'[q] = script[q])
  BY <1>1, RunGoes
<1>3. backups' \in SUBSET backups /\ IsFiniteSet(backups')
  <2>1. backups' \in SUBSET backups
    BY <1>1 DEF Backup!Without
  <2> QED
    BY <2>1, FS_Subset DEF Dated
<1>4. Dated'
  BY <1>1, <1>2, <1>3 DEF Dated
<1>5. \A d : d.whole => (d \in backups' <=> d \in backups)
  <2>1. script[r].at # "removing" => \A d \in backups : d.run = r => ~d.whole
    BY <1>1, Unfinished
  <2> QED
    BY <1>1, <2>1 DEF Backup!Without
<1>6. \A d \in backups : ~d.whole /\ script[d.run].at = "over" => d \in backups' /\ d.run # r
  BY <1>1 DEF Backup!Without
<1>7. ~crossed' => ~crossed /\ \A q \in BackupRuns : q # r => script[q].at \notin {"made", "copied", "removing"}
  BY <1>1 DEF KeptInOrder, OneRun
<1> QED
  BY <1>1, <1>3, <1>4, <1>5, <1>6, <1>7, NoneRemoved

\* The backups of a run that goes: of the directories before b the one that it
\* removes makes no other miss the newer ones that displace it.
LEMMA RemovesSafe ==
  ASSUME Backup!BackupsAssumption, BackupsSafe, NEW r \in BackupRuns, Backup!RemoveNext(r)
  PROVE  BackupsSafe'
<1> USE DEF BackupsSafe
<1>1. CASE script[r].remove = <<>>
  <2>1. script[r].at = "removing" /\ Backup!Goto(r, "over") /\ UNCHANGED <<backups, keeping, ticks, kills, backedUp, crossed>>
    BY <1>1 DEF Backup!RemoveNext
  <2>2. /\ script' \in [BackupRuns -> [at : {"new", "made", "copied", "removing", "over"}, remove : Seq(BackupRuns)]]
        /\ script'[r].at = "over" /\ \A q \in BackupRuns : script'[q].remove = script[q].remove /\ (q # r => script'[q] = script[q])
    BY <2>1, RunGoes
  <2>3. Dated'
    BY <2>1, <2>2 DEF Dated
  <2>4. IsFiniteSet(backups')
    BY <2>1 DEF Dated
  <2>5. ~crossed' => ~crossed /\ \A q \in BackupRuns : q # r => script[q].at \notin {"made", "copied", "removing"}
    BY <2>1 DEF KeptInOrder, OneRun
  <2>6. \A d \in backups : ~d.whole /\ script[d.run].at = "over" => d \in backups' /\ d.run # r
    BY <2>1
  <2> QED
    BY <2>1, <2>3, <2>4, <2>5, <2>6, NoneRemoved
<1>2. CASE script[r].remove # <<>>
  <2> DEFINE l == script[r].remove
             x == l[1]
  <2>1. /\ script[r].at = "removing" /\ backups' = Backup!Without(x) /\ script' = [script EXCEPT ![r].remove = Tail(@)]
        /\ UNCHANGED <<keeping, ticks, kills, backedUp, crossed>>
    BY <1>2 DEF Backup!RemoveNext
  <2>2. l \in Seq(BackupRuns) /\ l # <<>> /\ Len(l) \in Nat \ {0} /\ x \in BackupRuns /\ Tail(l) \in Seq(BackupRuns)
    BY <1>2 DEF Dated
  <2>3. /\ \A k \in DOMAIN Tail(l) : k + 1 \in DOMAIN l /\ Tail(l)[k] = l[k + 1]
        /\ \A k \in DOMAIN l : l[k] = x \/ \E j \in DOMAIN Tail(l) : Tail(l)[j] = l[k]
    <3>1. /\ DOMAIN l = 1..Len(l) /\ DOMAIN Tail(l) = 1..(Len(l) - 1)
          /\ \A k \in 1..(Len(l) - 1) : Tail(l)[k] = l[k + 1]
      BY <2>2
    <3>2. \A k \in 1..Len(l) : k = 1 \/ (k - 1 \in 1..(Len(l) - 1) /\ Tail(l)[k - 1] = l[k])
      BY <2>2, <3>1
    <3>3. \A k \in DOMAIN l : l[k] = x \/ \E j \in DOMAIN Tail(l) : Tail(l)[j] = l[k]
      <4> TAKE k \in DOMAIN l
      <4>1. k = 1 \/ (k - 1 \in DOMAIN Tail(l) /\ Tail(l)[k - 1] = l[k])
        BY <3>1, <3>2
      <4> QED
        BY <4>1
    <3>4. \A k \in DOMAIN Tail(l) : k + 1 \in DOMAIN l /\ Tail(l)[k] = l[k + 1]
      BY <2>2, <3>1
    <3> QED
      BY <3>3, <3>4
  <2>4. /\ script' \in [BackupRuns -> [at : {"new", "made", "copied", "removing", "over"}, remove : Seq(BackupRuns)]]
        /\ script'[r].at = "removing" /\ script'[r].remove = Tail(l)
        /\ \A q \in BackupRuns : script'[q].at = script[q].at /\ (q # r => script'[q] = script[q])
    <3>1. PICK u \in [at : {"new", "made", "copied", "removing", "over"}, remove : Seq(BackupRuns)] : u = script[r]
      BY DEF Dated
    <3>0. PICK w \in Seq(BackupRuns) : w = Tail(l)
      BY <2>2
    <3> DEFINE v == [at |-> u.at, remove |-> w]
    <3>2. [u EXCEPT !.remove = w] = v
      OBVIOUS
    <3>3. v \in [at : {"new", "made", "copied", "removing", "over"}, remove : Seq(BackupRuns)]
          /\ v.at = u.at /\ v.remove = w
      OBVIOUS
    <3>4. script' = [script EXCEPT ![r] = [u EXCEPT !.remove = w]]
      BY <2>1, <3>0, <3>1 DEF Dated
    <3> HIDE DEF v, l
    <3>5. script' = [script EXCEPT ![r] = v]
      BY <3>2, <3>4
    <3> QED
      <4>1. script \in [BackupRuns -> [at : {"new", "made", "copied", "removing", "over"}, remove : Seq(BackupRuns)]]
        BY DEF Dated
      <4>2. script' \in [BackupRuns -> [at : {"new", "made", "copied", "removing", "over"}, remove : Seq(BackupRuns)]]
        BY <3>3, <3>5, <4>1
      <4>3. script'[r] = v /\ \A q \in BackupRuns : q # r => script'[q] = script[q]
        BY <3>5, <4>1
      <4>4. v.at = script[r].at /\ script[r].at = "removing"
        BY <2>1, <3>1, <3>3
      <4> QED
        BY <3>0, <3>3, <4>2, <4>3, <4>4
  <2> HIDE DEF x
  <2>5. backups' = {d \in backups : d.run # x} /\ backups' \in SUBSET backups /\ IsFiniteSet(backups')
    <3>1. backups' = {d \in backups : d.run # x}
      BY <2>1 DEF Backup!Without
    <3>2. backups' \in SUBSET backups
      BY <3>1
    <3> QED
      BY <3>1, <3>2, FS_Subset DEF Dated
  <2>6. Dated'
    BY <2>1, <2>4, <2>5 DEF Dated
  <2>7. Completed'
    <3>1. \A i \in DOMAIN backedUp : backedUp[i] \in BackupRuns
      BY DEF Dated
    <3> QED
      BY <2>1, <2>4, <2>5, <3>1 DEF Completed
  <2>8. Bounded'
    <3>1. ASSUME backedUp # <<>>
          PROVE  /\ IsFiniteSet(Rest(backedUp[Len(backedUp)])')
                 /\ Cardinality(Rest(backedUp[Len(backedUp)])') <= keeping
      <4>1. PICK c \in BackupRuns : c = backedUp[Len(backedUp)]
        BY <3>1 DEF Dated
      <4>2. Rest(c)' \in SUBSET Rest(c)
        <5>1. WholeRuns' \in SUBSET WholeRuns /\ x \notin WholeRuns'
          BY <2>5 DEF WholeRuns
        <5>2. CASE c # r
          BY <2>4, <5>1, <5>2 DEF Rest
        <5>3. CASE c = r
          <6>1. Rest(c)' = {q \in WholeRuns' : \A k \in DOMAIN Tail(l) : Tail(l)[k] # q}
            BY <2>4, <5>3 DEF Rest
          <6>2. Rest(c) = {q \in WholeRuns : \A k \in DOMAIN l : l[k] # q}
            BY <5>3 DEF Rest
          <6> QED
            BY <2>3, <5>1, <6>1, <6>2
        <5> QED
          BY <5>2, <5>3
      <4>3. /\ IsFiniteSet(Rest(c)) /\ Cardinality(Rest(c)) <= keeping /\ keeping \in Nat
        BY <3>1, <4>1 DEF Bounded, Dated
      <4>4. /\ IsFiniteSet(Rest(c)') /\ Cardinality(Rest(c)') <= Cardinality(Rest(c))
            /\ Cardinality(Rest(c)) \in Nat /\ Cardinality(Rest(c)') \in Nat
        BY <4>2, <4>3, FS_Subset, FS_CardinalityType
      <4>5. Cardinality(Rest(c)') <= keeping
        BY <4>3, <4>4
      <4> QED
        BY <2>1, <4>1, <4>4, <4>5
    <3> QED
      BY <2>1, <3>1 DEF Bounded
  <2>9. ASSUME ~crossed PROVE OneRun' /\ Displaced' /\ Removing'
    <3>1. PICK b : Full(b) /\ \A d \in backups, k \in DOMAIN l : d.run = l[k] => d.at < b
      BY <1>2, <2>1, <2>9 DEF KeptInOrder, Removing
    <3>2. /\ b \in Nat /\ 1 \in DOMAIN l /\ l[1] = x
          /\ \A d \in backups : d.at \in Nat /\ d.run \in BackupRuns /\ (d.run = x => d.at < b)
      BY <2>2, <3>1 DEF Full, Dated, x
    <3>3. Settled(b)' = Settled(b)
      <4>1. \A d \in backups : d.at >= b => d \in backups'
        <5> TAKE d \in backups
        <5>1. d.run = x => ~(d.at >= b)
          BY <3>2
        <5> QED
          BY <2>5, <5>1
      <4> QED
        BY <2>4, <2>5, <3>2, <4>1 DEF Settled
    <3>4. Full(b)'
      BY <2>1, <3>1, <3>3 DEF Full
    <3>5. OneRun'
      <4>1. \A q \in BackupRuns : script'[q].at = script[q].at
        BY <2>4
      <4> QED
        BY <2>9, <4>1 DEF KeptInOrder, OneRun
    <3>6. Removing'
      <4>1. \A q \in BackupRuns : script'[q].at = "removing" => q = r
        BY <2>1, <2>4, <2>9 DEF KeptInOrder, OneRun
      <4>2. \A d \in backups', k \in DOMAIN script'[r].remove : d.run = script'[r].remove[k] => d.at < b
        BY <2>3, <2>4, <2>5, <3>1
      <4> QED
        BY <3>4, <4>1, <4>2 DEF Removing
    <3>7. ASSUME NEW i \in DOMAIN backedUp, backedUp[i] \notin WholeRuns'
          PROVE  \E a : (Full(a) /\ NewerThan(a, i))'
      <4>1. CASE backedUp[i] \in WholeRuns
        <5>1. PICK e \in backups : e.whole /\ e.run = backedUp[i]
          BY <4>1 DEF WholeRuns
        <5>2. e.run = x
          BY <2>5, <3>7, <5>1 DEF WholeRuns
        <5>3. NewerThan(b, i)'
          <6>1. ASSUME NEW d \in backups', NEW j \in DOMAIN backedUp, d.whole, d.at >= b, backedUp[j] = d.run
                PROVE  j > i
            <7>1. e.at < b /\ e.at \in Nat /\ d.at \in Nat /\ d \in backups
              BY <2>5, <3>2, <5>2
            <7>2. ~(d.at < e.at) /\ d.at # e.at
              BY <3>2, <6>1, <7>1
            <7>3. ~(j < i)
              BY <5>1, <6>1, <7>1, <7>2 DEF Completed
            <7>4. j # i
              <8>1. d.run = e.run => d = e
                BY <5>1, <7>1 DEF Dated
              <8> QED
                BY <5>1, <6>1, <7>2, <8>1
            <7>5. i \in Nat /\ j \in Nat
              BY DEF Dated
            <7> QED
              BY <7>3, <7>4, <7>5
          <6> QED
            BY <2>1, <6>1 DEF NewerThan
        <5> QED
          BY <3>4, <5>3
      <4>2. CASE backedUp[i] \notin WholeRuns
        <5>1. PICK a : Full(a) /\ NewerThan(a, i)
          BY <2>9, <4>2 DEF KeptInOrder, Displaced
        <5>2. a \in Nat
          BY <5>1 DEF Full
        <5>3. CASE a >= b
          <6>1. \A d \in backups : d.at >= a => d \in backups'
            <7> TAKE d \in backups
            <7>1. d.run = x => ~(d.at >= a)
              BY <3>2, <5>2, <5>3
            <7> QED
              BY <2>5, <7>1
          <6>2. Settled(a)' = Settled(a)
            BY <2>4, <2>5, <3>2, <6>1 DEF Settled
          <6>3. Full(a)'
            BY <2>1, <5>1, <6>2 DEF Full
          <6>4. NewerThan(a, i)'
            BY <2>1, <2>5, <5>1 DEF NewerThan
          <6> QED
            BY <6>3, <6>4
        <5>4. CASE ~(a >= b)
          <6>1. \A d \in backups : d.at >= b => d.at >= a
            BY <3>2, <5>2, <5>4
          <6>2. NewerThan(b, i)'
            BY <2>1, <2>5, <5>1, <6>1 DEF NewerThan
          <6> QED
            BY <3>4, <6>2
        <5> QED
          BY <5>3, <5>4
      <4> QED
        BY <4>1, <4>2
    <3> QED
      BY <2>1, <3>5, <3>6, <3>7 DEF Displaced
  <2> QED
    BY <2>1, <2>6, <2>7, <2>8, <2>9 DEF KeptInOrder
<1> QED
  BY <1>1, <1>2

LEMMA BackupSame ==
  /\ \A S : Backup!Cardinality(S) = Cardinality(S)
  /\ \A K : Backup!Descending(K) = Descending(K)
<1>1. \A S : Backup!Cardinality(S) = Cardinality(S)
  BY DEF Backup!Cardinality, Backup!IsFiniteSet, Cardinality, IsFiniteSet
<1>2. \A K, n : Backup!Nth(K, n) = Nth(K, n)
  BY <1>1 DEF Backup!Nth, Nth
<1> QED
  BY <1>1, <1>2 DEF Backup!Descending, Descending

\* Directories by the time they were written: who is at each place, and which runs
\* apply_retention takes.
LEMMA Ages ==
  ASSUME NEW all, IsFiniteSet(all), keeping \in Nat, \A d \in all : d.at \in Nat,
         \A d, e \in all : d.at = e.at => d = e
  PROVE  LET A == {d.at : d \in all}
             n == Cardinality(all)
         IN /\ n \in Nat
            /\ \A m \in 1..n : \E d \in all : d.at = Nth(A, m) /\ Backup!Made(all, Nth(A, m)) = d.run
            /\ \A d \in all : \E m \in 1..n : d.at = Nth(A, m)
            /\ \A m, p \in 1..n : m < p => Nth(A, m) < Nth(A, p)
            /\ Backup!Retention(all) = [i \in 1..(n - keeping) |-> Backup!Made(all, Nth(A, n + 1 - (keeping + i)))]
<1> DEFINE A == {d.at : d \in all}
           n == Cardinality(all)
           f == [d \in all |-> d.at]
<1>1. n \in Nat
  BY FS_CardinalityType
<1>2. f \in Surjection(all, A)
  BY DEF Surjection
<1>3. f \in Injection(all, A)
  <2>1. f \in [all -> A] /\ \A d, e \in all : f[d] = f[e] => d = e
    OBVIOUS
  <2> HIDE DEF f, A
  <2> QED
    BY <2>1 DEF Injection, IsInjective
<1>4. A \subseteq Int
  OBVIOUS
<1> HIDE DEF f, A
<1>5. IsFiniteSet(A) /\ Cardinality(A) <= n
  BY <1>2, FS_Surjection
<1>6. Cardinality(A) = n
  <2>1. n <= Cardinality(A)
    BY <1>3, <1>5, FS_Injection
  <2>2. Cardinality(A) \in Nat
    BY <1>5, FS_CardinalityType
  <2> QED
    BY <1>1, <1>5, <2>1, <2>2
<1>7. /\ \A m \in 1..n : Nth(A, m) \in A
      /\ \A m, p \in 1..n : m < p => Nth(A, m) < Nth(A, p)
      /\ \A t \in A : \E m \in 1..n : Nth(A, m) = t
  BY <1>4, <1>5, <1>6, NthPlaces
<1>8. \A m \in 1..n : \E d \in all : d.at = Nth(A, m) /\ Backup!Made(all, Nth(A, m)) = d.run
  <2> TAKE m \in 1..n
  <2>1. PICK t \in A : t = Nth(A, m)
    BY <1>7
  <2>2. \E d \in all : d.at = t
    BY <2>1 DEF A
  <2> DEFINE d == CHOOSE d \in all : d.at = t
  <2>3. d \in all /\ d.at = t /\ Backup!Made(all, t) = d.run
    BY <2>2 DEF Backup!Made
  <2> HIDE DEF d
  <2> QED
    BY <2>1, <2>3
<1>9. \A d \in all : \E m \in 1..n : d.at = Nth(A, m)
  <2> TAKE d \in all
  <2>1. d.at \in A
    BY DEF A
  <2> QED
    BY <1>7, <2>1
<1>10. Backup!Retention(all) = [i \in 1..(n - keeping) |-> Backup!Made(all, Nth(A, n + 1 - (keeping + i)))]
  <2>1. \A i \in 1..(n - keeping) : Descending(A)[keeping + i] = Nth(A, n + 1 - (keeping + i))
    <3> TAKE i \in 1..(n - keeping)
    <3>1. keeping + i \in 1..n
      BY <1>1
    <3> QED
      BY <1>6, <3>1 DEF Descending
  <2>2. Backup!Retention(all) = [i \in 1..(n - keeping) |-> Backup!Made(all, Descending(A)[keeping + i])]
    BY BackupSame DEF Backup!Retention, A
  <2> HIDE DEF n
  <2> QED
    BY <2>1, <2>2
<1> QED
  BY <1>1, <1>7, <1>8, <1>9, <1>10 DEF A

LEMMA Retained ==
  ASSUME NEW all, IsFiniteSet(all), keeping \in Nat \ {0}, \A d \in all : d.at \in Nat /\ d.run \in BackupRuns,
         \A d, e \in all : d.run = e.run \/ d.at = e.at => d = e
  PROVE  /\ Backup!Retention(all) \in Seq(BackupRuns)
         /\ Backup!Retention(all) # <<>> =>
              \E b \in Nat : /\ keeping <= Cardinality({d \in all : d.at >= b})
                             /\ \A d \in all, k \in DOMAIN Backup!Retention(all) : d.run = Backup!Retention(all)[k] => d.at < b
         /\ \A Q \in SUBSET {d.run : d \in all} :
              (\A k \in DOMAIN Backup!Retention(all) : Backup!Retention(all)[k] \notin Q) => IsFiniteSet(Q) /\ Cardinality(Q) <= keeping
<1> DEFINE A == {d.at : d \in all}
           n == Cardinality(all)
           L == Backup!Retention(all)
           places == (n + 1 - keeping)..n
<1>1. /\ n \in Nat
      /\ \A m \in 1..n : \E d \in all : d.at = Nth(A, m) /\ Backup!Made(all, Nth(A, m)) = d.run
      /\ \A d \in all : \E m \in 1..n : d.at = Nth(A, m)
      /\ \A m, p \in 1..n : m < p => Nth(A, m) < Nth(A, p)
      /\ L = [i \in 1..(n - keeping) |-> Backup!Made(all, Nth(A, n + 1 - (keeping + i)))]
  BY Ages
<1>2. IsFiniteSet(places) /\ Cardinality(places) = keeping
  <2>1. n + 1 - keeping \in Int /\ n \in Int /\ n + 1 - keeping <= n
    BY <1>1
  <2>2. /\ IsFiniteSet(places)
        /\ Cardinality(places) = IF n + 1 - keeping > n THEN 0 ELSE n - (n + 1 - keeping) + 1
    BY <2>1, FS_Interval
  <2> HIDE DEF n, places
  <2> QED
    BY <1>1, <2>1, <2>2
<1> HIDE DEF n, A, L
<1>3. \A i \in 1..(n - keeping) : n + 1 - (keeping + i) \in 1..(n - keeping)
  BY <1>1
<1>4. L \in Seq(BackupRuns) /\ DOMAIN L = 1..(n - keeping)
  <2>1. \A i \in 1..(n - keeping) : Backup!Made(all, Nth(A, n + 1 - (keeping + i))) \in BackupRuns
    <3> TAKE i \in 1..(n - keeping)
    <3>1. n + 1 - (keeping + i) \in 1..n
      BY <1>1
    <3> QED
      BY <1>1, <3>1
  <2>2. L \in [1..(n - keeping) -> BackupRuns]
    BY <1>1, <2>1
  <2>3. \E l \in Nat : 1..(n - keeping) = 1..l
    <3>1. CASE n - keeping >= 0
      <4>1. n - keeping \in Nat
        BY <1>1, <3>1
      <4> WITNESS n - keeping \in Nat
      <4> QED
        OBVIOUS
    <3>2. CASE n - keeping < 0
      <4>1. 1..(n - keeping) = 1..0
        BY <1>1, <3>2
      <4> QED
        BY <4>1
    <3> QED
      BY <1>1, <3>1, <3>2
  <2>4. PICK l \in Nat : 1..(n - keeping) = 1..l
    BY <2>3
  <2>5. L \in [1..l -> BackupRuns] /\ DOMAIN L = 1..(n - keeping)
    BY <2>2, <2>4
  <2> HIDE DEF n
  <2> QED
    BY <2>5, SeqDef
<1>5. \A d \in all, m \in 1..n, k \in DOMAIN L :
        d.at = Nth(A, m) /\ d.run = L[k] => m = n + 1 - (keeping + k)
  <2> TAKE d \in all, m \in 1..n, k \in DOMAIN L
  <2> HAVE d.at = Nth(A, m) /\ d.run = L[k]
  <2> DEFINE p == n + 1 - (keeping + k)
  <2>1. p \in 1..n /\ L[k] = Backup!Made(all, Nth(A, p))
    BY <1>1, <1>3, <1>4
  <2> HIDE DEF p
  <2>2. PICK e \in all : e.at = Nth(A, p) /\ Backup!Made(all, Nth(A, p)) = e.run
    BY <1>1, <2>1
  <2>3. d = e
    BY <2>1, <2>2
  <2>4. ~(Nth(A, m) < Nth(A, p)) /\ ~(Nth(A, p) < Nth(A, m))
    <3>1. d.at \in Nat
      OBVIOUS
    <3>2. ~(d.at < d.at)
      BY <3>1
    <3> QED
      BY <2>2, <2>3, <3>2
  <2>5. ~(m < p) /\ ~(p < m)
    BY <1>1, <2>1, <2>4
  <2>6. m \in Int /\ p \in Int
    BY <1>1, <2>1
  <2> QED
    BY <2>5, <2>6 DEF p
<1>6. ASSUME L # <<>>
      PROVE  \E b \in Nat : /\ keeping <= Cardinality({d \in all : d.at >= b})
                            /\ \A d \in all, k \in DOMAIN L : d.run = L[k] => d.at < b
  <2>1. n > keeping
    <3>1. n <= keeping => 1..(n - keeping) = {}
      BY <1>1
    <3>2. 1..(n - keeping) = {} => L = <<>>
      <4>1. DOMAIN L = 1..Len(L) /\ Len(L) \in Nat
        BY <1>4
      <4>2. DOMAIN L = {} => Len(L) = 0
        BY <4>1
      <4> QED
        BY <1>4, <4>2
    <3> QED
      BY <1>1, <1>6, <3>1, <3>2
  <2> DEFINE c == n + 1 - keeping
  <2>2. c \in 1..n /\ \A m \in places : m \in 1..n /\ (m = c \/ c < m)
    BY <1>1, <2>1
  <2>3. PICK b \in Nat : b = Nth(A, c)
    BY <1>1, <2>2
  <2> DEFINE S == {d \in all : d.at >= b}
             h == [m \in places |-> CHOOSE d \in all : d.at = Nth(A, m)]
  <2> HIDE DEF c, places
  <2>4. \A m \in places : h[m] \in all /\ h[m].at = Nth(A, m)
    <3> TAKE m \in places
    <3>1. \E d \in all : d.at = Nth(A, m)
      BY <1>1, <2>2
    <3> QED
      BY <3>1
  <2>5. \A m \in places : h[m] \in S
    <3> TAKE m \in places
    <3>1. h[m] \in all /\ h[m].at = Nth(A, m) /\ h[m].at \in Nat
      BY <2>4
    <3>2. m = c \/ Nth(A, c) < Nth(A, m)
      BY <1>1, <2>2
    <3>3. Nth(A, m) = b \/ b < Nth(A, m)
      BY <2>3, <3>2
    <3> HIDE DEF h
    <3>4. h[m].at >= b
      BY <2>3, <3>1, <3>3
    <3> QED
      BY <3>1, <3>4
  <2>6. \A m, p \in places : h[m] = h[p] => m = p
    <3> TAKE m, p \in places
    <3> HAVE h[m] = h[p]
    <3>1. Nth(A, m) = Nth(A, p) /\ Nth(A, m) \in Nat
      BY <2>4
    <3>2. ~(m < p) /\ ~(p < m)
      <4>1. ~(Nth(A, m) < Nth(A, p)) /\ ~(Nth(A, p) < Nth(A, m))
        BY <3>1
      <4> QED
        BY <1>1, <2>2, <4>1
    <3>3. m \in Int /\ p \in Int
      BY <2>2
    <3> QED
      BY <3>2, <3>3
  <2>7. h = [m \in places |-> h[m]]
    OBVIOUS
  <2>8. IsFiniteSet(S)
    <3>1. S \in SUBSET all
      OBVIOUS
    <3> QED
      BY <3>1, FS_Subset
  <2> HIDE DEF h, S
  <2>9. h \in Injection(places, S)
    BY <2>5, <2>6, <2>7 DEF Injection, IsInjective
  <2>10. keeping <= Cardinality(S)
    BY <1>2, <2>8, <2>9, FS_Injection
  <2>11. \A d \in all, k \in DOMAIN L : d.run = L[k] => d.at < b
    <3> TAKE d \in all, k \in DOMAIN L
    <3> HAVE d.run = L[k]
    <3>1. PICK m \in 1..n : d.at = Nth(A, m)
      BY <1>1
    <3>2. m = n + 1 - (keeping + k)
      BY <1>5, <3>1
    <3>3. m < c
      BY <1>1, <1>4, <3>2 DEF c
    <3> QED
      BY <1>1, <2>2, <2>3, <3>1, <3>3
  <2> QED
    BY <2>10, <2>11 DEF S
<1>7. ASSUME NEW Q \in SUBSET {d.run : d \in all}, \A k \in DOMAIN L : L[k] \notin Q
      PROVE  IsFiniteSet(Q) /\ Cardinality(Q) <= keeping
  <2> DEFINE g == [q \in Q |-> CHOOSE m \in 1..n : \E d \in all : d.run = q /\ d.at = Nth(A, m)]
  <2>1. \A q \in Q : g[q] \in 1..n /\ \E d \in all : d.run = q /\ d.at = Nth(A, g[q])
    <3> TAKE q \in Q
    <3>1. \E m \in 1..n : \E d \in all : d.run = q /\ d.at = Nth(A, m)
      <4>1. PICK d \in all : d.run = q
        OBVIOUS
      <4> QED
        BY <1>1, <4>1
    <3> QED
      BY <3>1
  <2>2. g = [q \in Q |-> g[q]]
    OBVIOUS
  <2> HIDE DEF g
  <2>3. \A q \in Q : g[q] \in places
    <3> TAKE q \in Q
    <3>1. g[q] \in 1..n
      BY <2>1
    <3>2. CASE g[q] < n + 1 - keeping
      <4> DEFINE k == n + 1 - keeping - g[q]
      <4>1. k \in 1..(n - keeping) /\ n + 1 - (keeping + k) = g[q]
        BY <1>1, <3>1, <3>2
      <4>2. L[k] = Backup!Made(all, Nth(A, g[q]))
        BY <1>1, <4>1
      <4>3. PICK d \in all : d.run = q /\ d.at = Nth(A, g[q])
        BY <2>1
      <4>4. PICK e \in all : e.at = Nth(A, g[q]) /\ Backup!Made(all, Nth(A, g[q])) = e.run
        BY <1>1, <3>1
      <4>5. e = d
        BY <4>3, <4>4
      <4> HIDE DEF k
      <4> QED
        BY <1>4, <1>7, <4>1, <4>2, <4>3, <4>4, <4>5
    <3>3. CASE ~(g[q] < n + 1 - keeping)
      BY <1>1, <3>1, <3>3
    <3> QED
      BY <3>2, <3>3
  <2>4. \A q, x \in Q : g[q] = g[x] => q = x
    BY <2>1
  <2> HIDE DEF places
  <2>5. g \in Injection(Q, places)
    BY <2>2, <2>3, <2>4 DEF Injection, IsInjective
  <2> QED
    BY <1>2, <2>5, FS_Injection
<1> QED
  BY <1>4, <1>6, <1>7 DEF L

\* The manifest makes the backup a whole one and the newest; what goes is older than
\* the newest ones.
LEMMA WritesSafe ==
  ASSUME Backup!BackupsAssumption, BackupsSafe, NEW r \in BackupRuns, Backup!WriteManifest(r)
  PROVE  BackupsSafe'
<1> USE DEF BackupsSafe
<1> DEFINE all == Backup!With(r, TRUE)
           L == Backup!Retention(all)
           new == [run |-> r, at |-> ticks, whole |-> TRUE]
<1>1. /\ script[r].at = "copied" /\ backups' = all /\ ticks' = ticks + 1
      /\ script' = [script EXCEPT ![r] = [at |-> "removing", remove |-> L]]
      /\ backedUp' = Append(backedUp, r) /\ UNCHANGED <<keeping, kills, crossed>>
  BY DEF Backup!WriteManifest
<1>2. /\ new \in all /\ \A d \in all : d = new \/ (d \in backups /\ d.run # r)
      /\ \A d \in backups : d.run # r => d \in all
      /\ IsFiniteSet(all)
      /\ \A d \in all : d \in [run : BackupRuns, at : Nat, whole : BOOLEAN] /\ d.at < ticks + 1
      /\ \A d, e \in all : d.run = e.run \/ d.at = e.at => d = e
  BY DirWritten
<1>3. new.whole /\ new.run = r /\ new.at = ticks
  OBVIOUS
<1>4. /\ L \in Seq(BackupRuns)
      /\ L # <<>> =>
           \E b \in Nat : /\ keeping <= Cardinality({d \in all : d.at >= b})
                          /\ \A d \in all, k \in DOMAIN L : d.run = L[k] => d.at < b
      /\ \A Q \in SUBSET {d.run : d \in all} :
           (\A k \in DOMAIN L : L[k] \notin Q) => IsFiniteSet(Q) /\ Cardinality(Q) <= keeping
  <2>1. \A d \in all : d.at \in Nat /\ d.run \in BackupRuns
    BY <1>2
  <2>2. keeping \in Nat \ {0}
    BY DEF Dated
  <2> HIDE DEF all
  <2> QED
    BY <1>2, <2>1, <2>2, Retained
<1>5. /\ \A i \in DOMAIN backedUp : backedUp[i] # r
      /\ \A d \in backups : d.run = r => ~d.whole
  BY <1>1, Unfinished
<1> HIDE DEF all, L, new
<1>6. /\ script' \in [BackupRuns -> [at : {"new", "made", "copied", "removing", "over"}, remove : Seq(BackupRuns)]]
      /\ script'[r].at = "removing" /\ script'[r].remove = L /\ \A q \in BackupRuns : q # r => script'[q] = script[q]
  <2>1. [at |-> "removing", remove |-> L] \in [at : {"new", "made", "copied", "removing", "over"}, remove : Seq(BackupRuns)]
    BY <1>4
  <2> QED
    BY <1>1, <2>1 DEF Dated
<1>7. PICK z \in Nat : /\ z = Len(backedUp) /\ DOMAIN backedUp = 1..z
                       /\ backedUp' \in Seq(BackupRuns) /\ DOMAIN backedUp' = 1..(z + 1) /\ Len(backedUp') = z + 1
                       /\ backedUp'[z + 1] = r /\ \A i \in 1..z : backedUp'[i] = backedUp[i]
  BY <1>1 DEF Dated
<1>8. \A i \in DOMAIN backedUp' : (i \in DOMAIN backedUp /\ backedUp'[i] = backedUp[i] /\ i < z + 1) \/ i = z + 1
  BY <1>7
<1>9. Dated'
  <2>1. \A d \in backups : d.run \in BackupRuns /\ script[d.run].at # "new"
    BY DEF Dated
  <2>2. \A d \in all : script'[d.run].at # "new"
    BY <1>2, <1>3, <1>6, <2>1
  <2>3. \A d \in all : d.whole => \E i \in DOMAIN backedUp' : backedUp'[i] = d.run
    <3> TAKE d \in all
    <3>1. CASE d = new
      BY <1>3, <1>7, <3>1
    <3>2. CASE d \in backups
      <4>1. d.whole => \E i \in DOMAIN backedUp : backedUp[i] = d.run
        BY <3>2 DEF Dated
      <4> QED
        BY <1>7, <4>1
    <3> QED
      BY <1>2, <3>1, <3>2
  <2>4. ticks' \in Nat
    BY <1>1 DEF Dated
  <2> QED
    BY <1>1, <1>2, <1>6, <1>7, <2>2, <2>3, <2>4 DEF Dated
<1>10. Completed'
  <2>1. \A i \in DOMAIN backedUp' : script'[backedUp'[i]].at \in {"removing", "over"}
    <3>1. \A i \in DOMAIN backedUp : backedUp[i] \in BackupRuns /\ script[backedUp[i]].at \in {"removing", "over"}
      BY DEF Dated, Completed
    <3> TAKE i \in DOMAIN backedUp'
    <3>2. CASE i = z + 1
      BY <1>6, <1>7, <3>2
    <3>3. CASE i \in DOMAIN backedUp /\ backedUp'[i] = backedUp[i]
      BY <1>5, <1>6, <3>1, <3>3
    <3> QED
      BY <1>8, <3>2, <3>3
  <2>2. \A i, j \in DOMAIN backedUp' : backedUp'[i] = backedUp'[j] => i = j
    BY <1>5, <1>7, <1>8 DEF Completed
  <2>3. ASSUME NEW d \in all, NEW e \in all, NEW i \in DOMAIN backedUp', NEW j \in DOMAIN backedUp',
               d.whole, e.whole, backedUp'[i] = d.run, backedUp'[j] = e.run, i < j
        PROVE  d.at < e.at
    <3>1. i \in DOMAIN backedUp /\ backedUp'[i] = backedUp[i]
      BY <1>7, <1>8, <2>3
    <3>2. d \in backups /\ d.run # r
      BY <1>2, <1>3, <1>5, <2>3, <3>1
    <3>3. CASE j = z + 1
      <4>1. e = new
        BY <1>2, <1>3, <1>7, <2>3, <3>3
      <4> QED
        BY <1>3, <3>2, <4>1 DEF Dated
    <3>4. CASE j # z + 1
      <4>1. j \in DOMAIN backedUp /\ backedUp'[j] = backedUp[j]
        BY <1>8, <3>4
      <4>2. e \in backups
        BY <1>2, <1>3, <1>5, <2>3, <4>1
      <4> QED
        BY <2>3, <3>1, <3>2, <4>1, <4>2 DEF Completed
    <3> QED
      BY <3>3, <3>4
  <2> QED
    BY <1>1, <2>1, <2>2, <2>3 DEF Completed
<1>11. Bounded'
  <2>1. Rest(r)' \in SUBSET {d.run : d \in all} /\ \A k \in DOMAIN L : L[k] \notin Rest(r)'
    BY <1>1, <1>6 DEF Rest, WholeRuns
  <2>2. IsFiniteSet(Rest(r)') /\ Cardinality(Rest(r)') <= keeping
    BY <1>4, <2>1
  <2>3. backedUp'[Len(backedUp')] = r
    BY <1>7
  <2> QED
    BY <1>1, <2>2, <2>3 DEF Bounded
<1>12. ASSUME ~crossed PROVE OneRun' /\ Displaced' /\ Removing'
  <2>1. \A q \in BackupRuns : q # r => script[q].at \notin {"made", "copied", "removing"}
    BY <1>1, <1>12 DEF KeptInOrder, OneRun
  <2>2. OneRun'
    BY <1>6, <2>1 DEF OneRun
  <2>3. \A d \in all : d.whole \/ script'[d.run].at = "over"
    <3> TAKE d \in all
    <3>1. CASE d = new
      BY <1>3, <3>1
    <3>2. CASE d \in backups /\ d.run # r
      <4>1. d.run \in BackupRuns /\ script[d.run].at # "new"
        BY <3>2 DEF Dated
      <4>2. script[d.run].at \in {"new", "made", "copied", "removing", "over"}
        BY <4>1 DEF Dated
      <4> QED
        BY <1>6, <2>1, <3>2, <4>1, <4>2
    <3> QED
      BY <1>2, <3>1, <3>2
  <2>4. Removing'
    <3>1. \A q \in BackupRuns : script'[q].at = "removing" => q = r
      BY <1>6, <2>1
    <3>2. ASSUME L # <<>>
          PROVE  \E b : Full(b)' /\ \A d \in all, k \in DOMAIN L : d.run = L[k] => d.at < b
      <4>1. PICK b \in Nat : /\ keeping <= Cardinality({d \in all : d.at >= b})
                             /\ \A d \in all, k \in DOMAIN L : d.run = L[k] => d.at < b
        BY <1>4, <3>2
      <4>2. Settled(b)' = {d \in all : d.at >= b}
        BY <1>1, <2>3 DEF Settled
      <4>3. Full(b)'
        BY <1>1, <4>1, <4>2 DEF Full
      <4> QED
        BY <4>1, <4>3
    <3> QED
      BY <1>1, <1>6, <3>1, <3>2 DEF Removing
  <2>5. ASSUME NEW i \in DOMAIN backedUp', backedUp'[i] \notin WholeRuns'
        PROVE  \E a : (Full(a) /\ NewerThan(a, i))'
    <3>1. WholeRuns' = WholeRuns \cup {r}
      BY <1>1, <1>2, <1>3, <1>5 DEF WholeRuns
    <3>2. i \in DOMAIN backedUp /\ backedUp'[i] = backedUp[i] /\ i < z + 1 /\ backedUp[i] \notin WholeRuns
      BY <1>7, <1>8, <2>5, <3>1
    <3>3. PICK a : Full(a) /\ NewerThan(a, i)
      BY <1>12, <3>2 DEF KeptInOrder, Displaced
    <3>4. Settled(a) \in SUBSET Settled(a)'
      <4>1. \A d \in backups : d.run \in BackupRuns
        BY DEF Dated
      <4>2. \A d \in Settled(a) : d \in backups /\ d.at >= a /\ d.run # r
        BY <1>1, <1>5 DEF Settled
      <4> QED
        BY <1>1, <1>2, <2>3, <4>2 DEF Settled
    <3>5. Full(a)'
      <4>1. Settled(a)' \in SUBSET all
        BY <1>1 DEF Settled
      <4>2. IsFiniteSet(Settled(a)')
        BY <1>2, <4>1, FS_Subset
      <4>3. /\ IsFiniteSet(Settled(a)) /\ Cardinality(Settled(a)) <= Cardinality(Settled(a)')
            /\ Cardinality(Settled(a)) \in Nat /\ Cardinality(Settled(a)') \in Nat
        BY <3>4, <4>2, FS_Subset, FS_CardinalityType
      <4>4. a \in Nat /\ keeping \in Nat /\ keeping <= Cardinality(Settled(a))
        BY <3>3 DEF Full, Dated
      <4>5. keeping <= Cardinality(Settled(a)')
        BY <4>3, <4>4
      <4> QED
        BY <1>1, <4>4, <4>5 DEF Full
    <3>6. NewerThan(a, i)'
      <4>1. ASSUME NEW d \in all, NEW j \in DOMAIN backedUp', d.whole, d.at >= a, backedUp'[j] = d.run
            PROVE  j > i
        <5>1. CASE j = z + 1
          BY <1>7, <3>2, <5>1
        <5>2. CASE j # z + 1
          <6>1. j \in DOMAIN backedUp /\ backedUp'[j] = backedUp[j]
            BY <1>8, <5>2
          <6>2. d \in backups
            BY <1>2, <1>3, <1>5, <4>1, <6>1
          <6> QED
            BY <3>3, <4>1, <6>1, <6>2 DEF NewerThan
        <5> QED
          BY <5>1, <5>2
      <4> QED
        BY <1>1, <4>1 DEF NewerThan
    <3> QED
      BY <3>5, <3>6
  <2> QED
    BY <2>2, <2>4, <2>5 DEF Displaced
<1> QED
  BY <1>1, <1>9, <1>10, <1>11, <1>12 DEF KeptInOrder

LEMMA BackupsStep == Backup!BackupsAssumption /\ BackupsSafe /\ [Backup!Next]_(Backup!vars) => BackupsSafe'
<1> SUFFICES ASSUME Backup!BackupsAssumption, BackupsSafe, [Backup!Next]_(Backup!vars) PROVE BackupsSafe'
  OBVIOUS
<1>1. CASE UNCHANGED Backup!vars
  <2>1. UNCHANGED <<keeping, script, backups, ticks, kills, backedUp, crossed>>
    BY <1>1 DEF Backup!vars
  <2>2. Dated' /\ Completed' /\ OneRun' = OneRun
    BY <2>1 DEF BackupsSafe, Dated, Completed, OneRun
  <2>3. WholeRuns' = WholeRuns /\ \A a : Settled(a)' = Settled(a)
    BY <2>1 DEF WholeRuns, Settled
  <2>4. \A a : Full(a)' = Full(a) /\ \A i : NewerThan(a, i)' = NewerThan(a, i)
    BY <2>1, <2>3 DEF Full, NewerThan
  <2>5. KeptInOrder'
    <3>1. Displaced' = Displaced
      BY <2>1, <2>3, <2>4 DEF Displaced
    <3>2. Removing' = Removing
      BY <2>1, <2>4 DEF Removing
    <3> QED
      BY <2>1, <2>2, <3>1, <3>2 DEF BackupsSafe, KeptInOrder
  <2>6. Bounded'
    <3>1. \A x : Rest(x)' = Rest(x)
      BY <2>1, <2>3 DEF Rest
    <3>2. Rest(backedUp[Len(backedUp)])' = Rest(backedUp[Len(backedUp)])
      <4>1. PICK x : x = backedUp[Len(backedUp)]
        OBVIOUS
      <4> QED
        BY <2>1, <3>1, <4>1
    <3> QED
      BY <2>1, <3>2 DEF BackupsSafe, Bounded
  <2> QED
    BY <2>2, <2>5, <2>6 DEF BackupsSafe
<1>2. CASE Backup!Next
  BY <1>2, MakesSafe, WritesSafe, RemovesSafe, EndsSafe DEF Backup!Next
<1> QED
  BY <1>1, <1>2

LEMMA BackupsTyped == BackupsSafe => Backup!TypeOK
<1> SUFFICES ASSUME BackupsSafe PROVE Backup!TypeOK
  OBVIOUS
<1>1. \A d \in backups : d \in [run : BackupRuns, at : 0..(ticks - 1), whole : BOOLEAN]
  <2> TAKE d \in backups
  <2>1. d \in [run : BackupRuns, at : Nat, whole : BOOLEAN] /\ d.at < ticks /\ ticks \in Nat
    BY DEF BackupsSafe, Dated
  <2>2. d.at \in 0..(ticks - 1)
    BY <2>1
  <2> QED
    BY <2>1, <2>2
<1> QED
  BY <1>1 DEF BackupsSafe, Dated, Backup!TypeOK

LEMMA BackupsMeant ==
  ASSUME BackupsSafe
  PROVE  Backup!BackupsKept
<1> USE DEF BackupsSafe
<1> DEFINE parts == {d \in backups : ~d.whole /\ script[d.run].at = "over"}
<1>1. ASSUME NEW i \in DOMAIN backedUp, ~crossed, backedUp[i] \notin WholeRuns
      PROVE  i <= Len(backedUp) - keeping + Cardinality(parts)
  <2>1. PICK a : Full(a) /\ NewerThan(a, i)
    BY <1>1 DEF KeptInOrder, Displaced
  <2> DEFINE W == {d \in backups : d.whole /\ d.at >= a}
             f == [d \in W |-> CHOOSE j \in DOMAIN backedUp : backedUp[j] = d.run]
             after == (i + 1)..Len(backedUp)
  <2>2. Len(backedUp) \in Nat /\ i \in 1..Len(backedUp) /\ DOMAIN backedUp = 1..Len(backedUp)
    BY DEF Dated
  <2>3. \A d \in W : f[d] \in DOMAIN backedUp /\ backedUp[f[d]] = d.run /\ f[d] > i
    BY <2>1 DEF Dated, NewerThan
  <2>4. f \in Injection(W, after)
    <3>1. \A d \in W : f[d] \in after
      <4> TAKE d \in W
      <4>1. f[d] \in 1..Len(backedUp) /\ f[d] > i
        BY <2>2, <2>3
      <4> HIDE DEF f
      <4> QED
        BY <2>2, <4>1
    <3>2. \A d, e \in W : f[d] = f[e] => d = e
      BY <2>3 DEF Dated
    <3>3. f = [d \in W |-> f[d]]
      OBVIOUS
    <3> HIDE DEF f, W, after
    <3> QED
      BY <3>1, <3>2, <3>3 DEF Injection, IsInjective
  <2>5. IsFiniteSet(after) /\ Cardinality(after) = Len(backedUp) - i
    <3>1. i + 1 \in Int /\ Len(backedUp) \in Int /\ i + 1 <= Len(backedUp) + 1
      BY <2>2
    <3>2. /\ IsFiniteSet(after)
          /\ Cardinality(after) = IF i + 1 > Len(backedUp) THEN 0 ELSE Len(backedUp) - (i + 1) + 1
      BY <3>1, FS_Interval
    <3> HIDE DEF after
    <3> QED
      BY <2>2, <3>2
  <2> HIDE DEF f, after
  <2>6. IsFiniteSet(W) /\ Cardinality(W) <= Len(backedUp) - i /\ Cardinality(W) \in Nat
    BY <2>4, <2>5, FS_Injection, FS_CardinalityType
  <2>7. IsFiniteSet(parts) /\ Cardinality(parts) \in Nat
    BY FS_Subset, FS_CardinalityType DEF Dated
  <2>8. Cardinality(Settled(a)) <= Cardinality(W) + Cardinality(parts)
    <3>1. Settled(a) \in SUBSET (W \cup parts)
      BY DEF Settled
    <3> HIDE DEF W, parts
    <3>2. IsFiniteSet(W \cup parts) /\ IsFiniteSet(W \cap parts) /\ Cardinality(W \cap parts) \in Nat
          /\ Cardinality(W \cup parts) = Cardinality(W) + Cardinality(parts) - Cardinality(W \cap parts)
      <4>1. W \cap parts \in SUBSET W
        OBVIOUS
      <4>2. IsFiniteSet(W \cap parts)
        BY <2>6, <4>1, FS_Subset
      <4> QED
        BY <2>6, <2>7, <4>2, FS_Union, FS_CardinalityType
    <3>3. IsFiniteSet(Settled(a)) /\ Cardinality(Settled(a)) <= Cardinality(W \cup parts) /\ Cardinality(Settled(a)) \in Nat
      BY <3>1, <3>2, FS_Subset, FS_CardinalityType
    <3> QED
      BY <2>6, <2>7, <3>2, <3>3
  <2>9. IsFiniteSet(Settled(a)) /\ Cardinality(Settled(a)) \in Nat /\ keeping \in Nat /\ keeping <= Cardinality(Settled(a))
    BY <2>1, FS_Subset, FS_CardinalityType DEF Dated, Settled, Full
  <2> HIDE DEF W, parts
  <2> QED
    BY <2>2, <2>6, <2>7, <2>8, <2>9
<1>2. IsFiniteSet(parts) /\ Cardinality(parts) \in Nat /\ keeping \in Nat /\ Len(backedUp) \in Nat /\ DOMAIN backedUp \subseteq Nat
  BY FS_Subset, FS_CardinalityType DEF Dated
<1>3. ASSUME NEW r \in BackupRuns, backedUp # <<>>, Backup!Last(backedUp) = r, script[r].remove = <<>>
      PROVE  Cardinality(WholeRuns) <= keeping
  <2>1. Backup!Last(backedUp) = backedUp[Len(backedUp)]
    BY DEF Backup!Last
  <2>2. Rest(r) = WholeRuns
    BY <1>3 DEF Rest
  <2> QED
    BY <1>3, <2>1, <2>2 DEF Bounded
<1> HIDE DEF parts
<1>4. ASSUME NEW i \in DOMAIN backedUp, ~crossed, i > Len(backedUp) - keeping + Cardinality(parts)
      PROVE  backedUp[i] \in WholeRuns
  BY <1>1, <1>2, <1>4
<1> QED
  BY <1>3, <1>4, BackupSame DEF Backup!BackupsKept, WholeRuns, parts

-----------------------------------------------------------------------------
(* Together.                                                               *)

\* Each component keeps what it counts on, while the others stand still.
RecordsSafe ==
  /\ which = "history" => HistorySafe
  /\ which = "attachments" => AttachSafe
  /\ which = "rag" => RagSafe
  /\ which = "library" => ViewSafe
  /\ which = "desk" => EditsSafe
  /\ which = "backups" => BackupsSafe

LEMMA RecordsInvariant == ASSUME ServicesAssumption PROVE Spec => []RecordsSafe
<1>0. /\ History!GalleryAssumption /\ Attach!AttachmentsAssumption /\ Rag!RagAssumption
      /\ View!LibraryAssumption /\ Edits!DeskAssumption /\ Backup!BackupsAssumption
  BY DEF ServicesAssumption
<1>1. Init => RecordsSafe
  BY <1>0, HistoryInit, AttachInit, RagInit, ViewInit, EditsInit, BackupsInit DEF Init, RecordsSafe
<1>2. RecordsSafe /\ [Next]_vars => RecordsSafe'
  <2> SUFFICES ASSUME RecordsSafe, [Next]_vars PROVE RecordsSafe'
    OBVIOUS
  <2>1. /\ which' = which
        /\ which = "history" => History!Next \/ UNCHANGED historyVars
        /\ which = "attachments" => Attach!Next \/ UNCHANGED attachVars
        /\ which = "rag" => Rag!Next \/ UNCHANGED ragVars
        /\ which = "library" => View!Next \/ UNCHANGED viewVars
        /\ which = "desk" => Edits!Next \/ UNCHANGED editsVars
        /\ which = "backups" => [Backup!Next]_(Backup!vars)
    BY DEF Next, vars, otherVars, recordVars, backupVars, Backup!vars
  <2>2. CASE which = "history"
    BY <1>0, <2>1, <2>2, HistoryStep, HistoryRests DEF RecordsSafe
  <2>3. CASE which = "attachments"
    BY <1>0, <2>1, <2>3, AttachStep, AttachRests DEF RecordsSafe
  <2>4. CASE which = "rag"
    BY <1>0, <2>1, <2>4, RagStep, RagRests DEF RecordsSafe
  <2>5. CASE which = "library"
    BY <1>0, <2>1, <2>5, ViewStep, ViewRests DEF RecordsSafe
  <2>6. CASE which = "desk"
    BY <1>0, <2>1, <2>6, EditsStep, EditsRests DEF RecordsSafe
  <2>7. CASE which = "backups"
    BY <1>0, <2>1, <2>7, BackupsStep DEF RecordsSafe
  <2>8. CASE which \notin {"history", "attachments", "rag", "library", "desk", "backups"}
    BY <2>1, <2>8 DEF RecordsSafe
  <2> QED
    BY <2>2, <2>3, <2>4, <2>5, <2>6, <2>7, <2>8
<1> QED
  BY <1>1, <1>2, PTL DEF Spec

\* However images are saved, recovered and deleted, with crashes anywhere: one row each,
\* and none comes back.  Whatever the texts and the limits: their chunks leave out
\* nothing, and what a message includes keeps to its budget; an attachment is whole; and
\* whatever models come and go, vectors are those of the model that is named, unless it
\* went in between.  However many pages are asked for, answered and overtaken while
\* images come and go: the view leaves out none between those it shows and shows none
\* twice, but those listed anew and unless a page was counted past some.  However many
\* deletions and edits come between: an archive that is sent holds each image chosen,
\* once, but pictures deleted since, and what an edit sets stays until a later edit.
\* However many runs of the backup script fail or are killed: unless two overlap, the
\* newest backups are there, and when the last run is over no more than are kept.
THEOREM RecordsKept == ASSUME ServicesAssumption PROVE Spec => []RecordsTrue
<1>1. RecordsSafe => RecordsTrue
  BY HistoryKept, AttachKept, RagKept, ViewKept, EditsKept, BackupsMeant
     DEF RecordsSafe, RecordsTrue, ServicesAssumption
<1> QED
  BY <1>1, RecordsInvariant, PTL

LEMMA RecordsTyped ==
  ASSUME ServicesAssumption, RecordsSafe
  PROVE  /\ which = "history" => History!TypeOK
         /\ which = "attachments" => Attach!TypeOK
         /\ which = "rag" => Rag!TypeOK
         /\ which = "library" => View!TypeOK
         /\ which = "desk" => Edits!TypeOK
         /\ which = "backups" => Backup!TypeOK
  BY HistoryKept, AttachKept, RagKept, ViewKept, EditsKept, BackupsTyped DEF RecordsSafe, ServicesAssumption
=============================================================================
