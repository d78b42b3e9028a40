----------------------------- MODULE TabsProofs -----------------------------
(***************************************************************************)
(* The photos and the calendar: their lists agree with the rows of the     *)
(* server.  Each has an inductive invariant; PartsProofs states the        *)
(* theorems.  First, what is true of sorted and filtered lists.            *)
(***************************************************************************)
EXTENDS PartsState, Lists, FiniteSetTheorems, TLAPS

-----------------------------------------------------------------------------
\* Sorted lists and filters
\* The elements smaller than x are fewer than the elements, and fewer than those
\* smaller than a greater one.
LEMMA RankGrows ==
  ASSUME NEW S \in SUBSET Int, IsFiniteSet(S), NEW x \in S
  PROVE  /\ Cardinality({y \in S : y < x}) \in 0 .. Cardinality(S) - 1
         /\ \A z \in S : x < z =>
              Cardinality({y \in S : y < x}) < Cardinality({y \in S : y < z})
<1> DEFINE below(z) == {y \in S : y < z}
<1>1. \A z \in S : IsFiniteSet(below(z)) /\ Cardinality(below(z)) \in Nat
  BY FS_Subset, FS_CardinalityType
<1>2. Cardinality(S) \in Nat
  BY FS_CardinalityType
<1>3. Cardinality(below(x)) < Cardinality(S)
  <2>1. below(x) \in SUBSET S /\ below(x) # S
    OBVIOUS
  <2> HIDE DEF below
  <2>2. Cardinality(below(x)) <= Cardinality(S) /\ Cardinality(S) # Cardinality(below(x))
    BY <2>1, FS_Subset
  <2> QED  BY <1>1, <1>2, <2>2
<1>4. ASSUME NEW z \in S, x < z PROVE Cardinality(below(x)) < Cardinality(below(z))
  <2>1. below(x) \in SUBSET below(z) /\ below(x) # below(z)
    <3>1. x \in below(z) /\ x \notin below(x)
      BY <1>4
    <3>2. \A y \in below(x) : y \in below(z)
      BY <1>4
    <3> QED  BY <3>1, <3>2
  <2>2. IsFiniteSet(below(z))
    BY <1>1
  <2>3. Cardinality(below(x)) \in Nat /\ Cardinality(below(z)) \in Nat
    BY <1>1
  <2> HIDE DEF below
  <2>4. Cardinality(below(x)) <= Cardinality(below(z))
        /\ Cardinality(below(z)) # Cardinality(below(x))
    BY <2>1, <2>2, FS_Subset
  <2> QED  BY <2>3, <2>4
<1> QED  BY <1>1, <1>2, <1>3, <1>4

\* Sorted lists the elements, each once, in ascending order.
LEMMA SortedIs ==
  ASSUME NEW S \in SUBSET Int, IsFiniteSet(S)
  PROVE  /\ Cardinality(S) \in Nat
         /\ Sorted(S) \in [1 .. Cardinality(S) -> S]
         /\ \A i, j \in 1 .. Cardinality(S) : i < j => Sorted(S)[i] < Sorted(S)[j]
         /\ \A x \in S : \E i \in 1 .. Cardinality(S) : Sorted(S)[i] = x
<1> DEFINE n == Cardinality(S)
           rank == [x \in S |-> Cardinality({y \in S : y < x})]
<1>1. n \in Nat
  BY FS_CardinalityType
<1>2. /\ rank \in [S -> 0 .. n - 1]
      /\ \A x, z \in S : x < z => rank[x] < rank[z]
  BY RankGrows
<1> HIDE DEF rank
<1>3. rank \in Injection(S, 0 .. n - 1)
  <2>1. \A x, z \in S : x # z => x < z \/ z < x
    OBVIOUS
  <2>2. \A x, z \in S : rank[x] \in Int /\ rank[z] \in Int
    BY <1>1, <1>2
  <2>3. \A x, z \in S : rank[x] = rank[z] => x = z
    BY <1>2, <2>1, <2>2
  <2> QED  BY <1>2, <2>3 DEF Injection, IsInjective
<1>4. IsFiniteSet(0 .. n - 1) /\ Cardinality(0 .. n - 1) = n
  BY <1>1, FS_Interval
<1>5. rank \in Surjection(S, 0 .. n - 1)
  BY <1>3, <1>4, FS_Injection
<1>6. \A i \in 1 .. n : \E x \in S : rank[x] = i - 1
  <2>1. \A i \in 1 .. n : i - 1 \in 0 .. n - 1
    BY <1>1
  <2> QED  BY <1>5, <2>1 DEF Surjection
<1>7. \A i \in 1 .. n : Sorted(S)[i] \in S /\ rank[Sorted(S)[i]] = i - 1
  BY <1>6 DEF Sorted, rank
<1>8. Sorted(S) \in [1 .. n -> S]
  BY <1>7 DEF Sorted
<1>9. ASSUME NEW i \in 1 .. n, NEW j \in 1 .. n, i < j PROVE Sorted(S)[i] < Sorted(S)[j]
  <2> DEFINE a == Sorted(S)[i]
             b == Sorted(S)[j]
  <2>1. a \in S /\ b \in S /\ rank[a] = i - 1 /\ rank[b] = j - 1
    BY <1>7
  <2> HIDE DEF a, b
  <2>2. ~(b < a) /\ a # b
    BY <1>1, <1>2, <1>9, <2>1
  <2>3. a \in Int /\ b \in Int
    BY <2>1
  <2>4. a < b
    BY <2>2, <2>3
  <2> QED  BY <2>4 DEF a, b
<1>10. ASSUME NEW x \in S PROVE \E i \in 1 .. n : Sorted(S)[i] = x
  <2>1. rank[x] \in 0 .. n - 1
    BY <1>2
  <2>2. rank[x] + 1 \in 1 .. n /\ (rank[x] + 1) - 1 = rank[x]
    BY <1>1, <2>1
  <2>3. rank[Sorted(S)[rank[x] + 1]] = rank[x] /\ Sorted(S)[rank[x] + 1] \in S
    BY <1>7, <2>2
  <2>4. Sorted(S)[rank[x] + 1] = x
    BY <1>3, <2>3 DEF Injection, IsInjective
  <2> QED  BY <2>2, <2>4
<1> QED  BY <1>1, <1>8, <1>9, <1>10

\* Kept takes the entries at the positions given, each once, in ascending order.
LEMMA KeptIs ==
  ASSUME NEW T, NEW s \in Seq(T), NEW P \in SUBSET DOMAIN s
  PROVE  /\ Kept(s, P) \in Seq(T)
         /\ \E at \in [DOMAIN Kept(s, P) -> P] :
              /\ \A k \in DOMAIN at : Kept(s, P)[k] = s[at[k]]
              /\ \A i, j \in DOMAIN at : i < j => at[i] < at[j]
              /\ \A p \in P : \E k \in DOMAIN at : at[k] = p
<1> DEFINE n == Cardinality(P)
           at == Sorted(P)
<1>1. DOMAIN s = 1 .. Len(s) /\ Len(s) \in Nat
  OBVIOUS
<1>2. P \in SUBSET Int /\ IsFiniteSet(P)
  <2>1. IsFiniteSet(1 .. Len(s))
    BY <1>1, FS_Interval
  <2> QED  BY <1>1, <2>1, FS_Subset
<1>3. /\ n \in Nat /\ at \in [1 .. n -> P]
      /\ \A i, j \in 1 .. n : i < j => at[i] < at[j]
      /\ \A p \in P : \E k \in 1 .. n : at[k] = p
  BY <1>2, SortedIs
<1>4. Kept(s, P) = [k \in 1 .. n |-> s[at[k]]]
  BY DEF Kept
<1> HIDE DEF n, at
<1>5. \A k \in 1 .. n : at[k] \in DOMAIN s /\ s[at[k]] \in T
  BY <1>1, <1>3
<1>6. Kept(s, P) \in Seq(T) /\ DOMAIN Kept(s, P) = 1 .. n
  BY <1>3, <1>4, <1>5
<1>7. \A k \in 1 .. n : Kept(s, P)[k] = s[at[k]]
  BY <1>4
<1>8. at \in [DOMAIN Kept(s, P) -> P] /\ DOMAIN at = 1 .. n
  BY <1>3, <1>6
<1> QED  BY <1>3, <1>6, <1>7, <1>8

-----------------------------------------------------------------------------
\* The photos: PhotosTab and the rows of its couple.  A page ends at the cursor,
\* and all that is newer is shown.
\* The answer for the first page is awaited.
AwaitsFirstPage == page # None /\ page.cursor = None

\* A deletion that is not answered yet has removed the row.
Deleted(x) ==
  \E d \in Deletion : deletion[d] # None /\ deletion[d].run /\ x \in deletion[d].ids

\* The answer of the upload will put it into the list.
Arriving(x) == upload # None /\ x \in Photos!Range(upload)

\* What is chosen, opened or named by a deletion under way
Picked == selectedIds \cup ({activePhoto} \cap Photos!Photo)
            \cup UNION {deletion[d].ids : d \in {e \in Deletion : deletion[e] # None}}

ShowsPhoto(x) == x \in Photos!Range(photos)

\* A list in descending order, and one that has every photo once and none before
\* one of a later upload
Falls(s) == \A i, j \in DOMAIN s : i < j => s[j] < s[i]
Ordered(s) == \A i, j \in DOMAIN s : i < j => s[i] # s[j] /\ ~Photos!Earlier(s[i], s[j])

\* The photos are numbered from 1 on.
Numbered == \A x \in photoRows \cup starts : x < next

\* Every row down to the cursor is shown, ...
RowsAreShown ==
  \A x \in photoRows : ~Arriving(x) /\ (~hasMore \/ cursor = None \/ x >= cursor) =>
    ShowsPhoto(x)

\* ... and what is shown is a row, or is about to leave the list, ...
ShownAreRows == \A x \in Photos!Photo : ShowsPhoto(x) => x \in photoRows \/ Deleted(x)

\* ... later uploads first and nothing below the cursor.
PhotosInOrder ==
  /\ Ordered(photos)
  /\ \A x \in Photos!Photo : ShowsPhoto(x) => x < next /\ (cursor # None => x >= cursor)
  /\ cursor # None => cursor < next

\* What is uploaded and not answered yet goes to the head of the list.
UploadIsNewest ==
  /\ upload # None => Ordered(upload)
  /\ \A x \in Photos!Photo : Arriving(x) =>
       /\ x \in photoRows /\ (cursor # None => cursor < x)
       /\ \A y \in Photos!Photo : ShowsPhoto(y) => y < x

\* Only what is or was in the list is picked.
PickedFromList == \A x \in Picked : ShowsPhoto(x) \/ (x < next /\ x \notin photoRows)

DeletedAreGone == \A x \in Photos!Photo : Deleted(x) => x \notin photoRows

\* The page that was asked for joins what is shown: it was asked for at the
\* cursor, and holds the newest rows below it.
PageKnows ==
  page # None =>
    /\ hasMore /\ page.cursor = cursor
    /\ page.cursor = None => photos = << >>
    /\ page.data # None =>
         /\ Falls(page.data)
         /\ \A x \in Photos!Range(page.data) :
              x \in photoRows /\ (cursor # None => x < cursor)
         /\ \A x \in photoRows : ~Arriving(x) /\ (cursor # None => x < cursor) =>
              \/ x \in Photos!Range(page.data)
              \/ Len(page.data) >= PageSize /\ \A y \in Photos!Range(page.data) : x < y

PhotosAgree ==
  /\ AwaitsFirstPage \/ (RowsAreShown /\ UploadIsNewest)
  /\ page = None /\ cursor = None => ~hasMore
  /\ ShownAreRows /\ PhotosInOrder /\ PickedFromList /\ DeletedAreGone /\ PageKnows

\* The list agrees with the rows as long as no mishap was noted.
PhotosInv == Photos!TypeOK /\ Numbered /\ (photosMishap = None => PhotosAgree)

\* The operators of Lists and FiniteSets are the same in the instance.
LEMMA SamePhotosLists ==
  /\ \A S : Photos!Sorted(S) = Sorted(S)
  /\ \A s, S : Photos!Kept(s, S) = Kept(s, S)
<1>1. \A S : Photos!Cardinality(S) = Cardinality(S)
  BY DEF Photos!Cardinality, Cardinality
<1>2. ASSUME NEW S PROVE Photos!Sorted(S) = Sorted(S)
  <2> DEFINE f(i) == CHOOSE x \in S : Photos!Cardinality({y \in S : y < x}) = i - 1
             g(i) == CHOOSE x \in S : Cardinality({y \in S : y < x}) = i - 1
  <2>1. \A i : f(i) = g(i)
    <3>1. \A x, i : (Photos!Cardinality({y \in S : y < x}) = i - 1)
                     = (Cardinality({y \in S : y < x}) = i - 1)
      BY <1>1
    <3> QED  BY ONLY <3>1, Zenon
  <2> HIDE DEF f, g
  <2>2. [i \in 1 .. Photos!Cardinality(S) |-> f(i)] = [i \in 1 .. Cardinality(S) |-> g(i)]
    BY <1>1, <2>1
  <2> QED  BY <2>2 DEF f, g, Photos!Sorted, Sorted
<1>3. \A s, S : Photos!Kept(s, S) = Kept(s, S)
  BY <1>1, <1>2 DEF Photos!Kept, Kept
<1> QED  BY <1>2, <1>3

\* What the assumption says of the constants of the photos
LEMMA PhotoBounds ==
  /\ MaxPhotos \in Nat /\ MaxFiles \in Nat /\ PageSize \in Nat \ {0}
  /\ Photos!Photo \in SUBSET Int /\ IsFiniteSet(Photos!Photo)
  /\ \A x \in Photos!Photo : x \in Nat /\ x # 0
  /\ None \notin Photos!Photo /\ None \notin Seq(Photos!Photo)
  /\ None \notin Photos!Fetch /\ None \notin Photos!Removal /\ None \notin Photos!Reason
<1>1. IsFiniteSet(1 .. MaxPhotos)
  BY TabsAssumption, FS_Interval
<1> QED  BY <1>1, TabsAssumption DEF Photos!NoneIsApart, Photos!Photo

\* The older of two photos may stand behind the newer one.
LEMMA Behind ==
  ASSUME starts \in SUBSET Photos!Photo, NEW x \in Photos!Photo, NEW y \in Photos!Photo,
         y < x
  PROVE  x # y /\ ~Photos!Earlier(x, y)
BY PhotoBounds DEF Photos!Earlier

LEMMA FallingIsOrdered ==
  ASSUME starts \in SUBSET Photos!Photo, NEW s \in Seq(Photos!Photo), Falls(s)
  PROVE  Ordered(s)
<1>1. \A i \in DOMAIN s : s[i] \in Photos!Photo
  OBVIOUS
<1> QED  BY <1>1, Behind DEF Falls, Ordered

\* Order depends on the starts of the uploads only, ...
LEMMA OrderSame ==
  ASSUME UNCHANGED <<photos, upload, starts>>
  PROVE  (Ordered(photos)' <=> Ordered(photos)) /\ (Ordered(upload)' <=> Ordered(upload))
BY DEF Ordered, Photos!Earlier

\* ... and on those up to its photos.
LEMMA OrderGrows ==
  ASSUME UNCHANGED photos, photos \in Seq(Photos!Photo), starts' = starts \cup {next},
         next \in Int, \A x \in Photos!Photo : ShowsPhoto(x) => x < next,
         Ordered(photos)
  PROVE  Ordered(photos)'
<1> SUFFICES ASSUME NEW i \in DOMAIN photos, NEW j \in DOMAIN photos, i < j,
                    NEW t \in starts', photos[i] < t, t <= photos[j]
             PROVE  FALSE
  BY DEF Ordered, Photos!Earlier
<1>1. photos[j] \in Photos!Photo /\ ShowsPhoto(photos[j])
  BY DEF ShowsPhoto, Photos!Range
<1>2. t # next
  <2>1. photos[j] \in Int /\ photos[j] < next
    BY <1>1, PhotoBounds
  <2> QED  BY ONLY <2>1, t <= photos[j], next \in Int
<1> QED  BY <1>2 DEF Ordered, Photos!Earlier

\* What a concatenation holds, and when it is in order
LEMMA ConcatIs ==
  ASSUME NEW s \in Seq(Photos!Photo), NEW t \in Seq(Photos!Photo),
         starts \in SUBSET Photos!Photo
  PROVE  /\ s \o t \in Seq(Photos!Photo)
         /\ \A x : x \in Photos!Range(s \o t) <=>
           x \in Photos!Range(s) \/ x \in Photos!Range(t)
         /\ /\ Ordered(s) /\ Ordered(t)
            /\ \A x \in Photos!Range(s), y \in Photos!Range(t) : y < x
            => Ordered(s \o t)
<1> DEFINE u == s \o t
<1>1. /\ Len(s) \in Nat /\ Len(t) \in Nat
      /\ DOMAIN s = 1 .. Len(s) /\ DOMAIN t = 1 .. Len(t)
      /\ DOMAIN u = 1 .. Len(s) + Len(t)
      /\ u \in Seq(Photos!Photo)
      /\ \A i \in 1 .. Len(s) + Len(t) :
        u[i] = IF i <= Len(s) THEN s[i] ELSE t[i - Len(s)]
  OBVIOUS
<1> HIDE DEF u
<1>2. \A x \in Photos!Range(u) : x \in Photos!Range(s) \/ x \in Photos!Range(t)
  <2> SUFFICES ASSUME NEW i \in DOMAIN u
               PROVE  u[i] \in Photos!Range(s) \/ u[i] \in Photos!Range(t)
    BY DEF Photos!Range
  <2>1. CASE i <= Len(s)
    BY <1>1, <2>1 DEF Photos!Range
  <2>2. CASE ~(i <= Len(s))
    <3>1. i - Len(s) \in DOMAIN t /\ u[i] = t[i - Len(s)]
      BY <1>1, <2>2
    <3> QED  BY <3>1 DEF Photos!Range
  <2> QED  BY <2>1, <2>2
<1>3. \A x \in Photos!Range(s) : x \in Photos!Range(u)
  <2> SUFFICES ASSUME NEW i \in DOMAIN s PROVE s[i] \in Photos!Range(u)
    BY DEF Photos!Range
  <2>1. i \in DOMAIN u /\ u[i] = s[i]
    BY <1>1
  <2> QED  BY <2>1 DEF Photos!Range
<1>4. \A x \in Photos!Range(t) : x \in Photos!Range(u)
  <2> SUFFICES ASSUME NEW i \in DOMAIN t PROVE t[i] \in Photos!Range(u)
    BY DEF Photos!Range
  <2>1. Len(s) + i \in DOMAIN u /\ u[Len(s) + i] = t[i]
    BY <1>1
  <2> QED  BY <2>1 DEF Photos!Range
<1>5. ASSUME Ordered(s), Ordered(t),
             \A x \in Photos!Range(s), y \in Photos!Range(t) : y < x
      PROVE  Ordered(u)
  <2> SUFFICES ASSUME NEW i \in DOMAIN u, NEW j \in DOMAIN u, i < j
               PROVE  u[i] # u[j] /\ ~Photos!Earlier(u[i], u[j])
    BY DEF Ordered
  <2>1. CASE j <= Len(s)
    BY <1>1, <1>5, <2>1 DEF Ordered
  <2>2. CASE i <= Len(s) /\ ~(j <= Len(s))
    <3>1. i \in DOMAIN s /\ u[i] = s[i] /\ j - Len(s) \in DOMAIN t /\ u[j] = t[j - Len(s)]
      BY <1>1, <2>2
    <3>2. u[j] < u[i] /\ u[i] \in Photos!Photo /\ u[j] \in Photos!Photo
      BY <1>5, <3>1 DEF Photos!Range
    <3> QED  BY <3>2, Behind
  <2>3. CASE ~(i <= Len(s))
    <3>1. /\ i - Len(s) \in DOMAIN t /\ u[i] = t[i - Len(s)]
          /\ j - Len(s) \in DOMAIN t /\ u[j] = t[j - Len(s)] /\ i - Len(s) < j - Len(s)
      BY <1>1, <2>3
    <3> QED  BY <1>5, <3>1 DEF Ordered
  <2> QED  BY <1>1, <2>1, <2>2, <2>3
<1> QED  BY <1>1, <1>2, <1>3, <1>4, <1>5 DEF u

\* What a filter by the ids to delete leaves
LEMMA FilterIs ==
  ASSUME NEW s \in Seq(Photos!Photo), NEW D
  PROVE  LET t == Photos!Kept(s, {i \in DOMAIN s : s[i] \notin D})
         IN  /\ t \in Seq(Photos!Photo)
             /\ \A x : x \in Photos!Range(t) <=> x \in Photos!Range(s) /\ x \notin D
             /\ Ordered(s) => Ordered(t)
<1> DEFINE P == {i \in DOMAIN s : s[i] \notin D}
           t == Photos!Kept(s, P)
<1>1. P \in SUBSET DOMAIN s
  OBVIOUS
<1>2. \A i : i \in P <=> i \in DOMAIN s /\ s[i] \notin D
  OBVIOUS
<1> HIDE DEF P
<1>3. t \in Seq(Photos!Photo)
  BY <1>1, KeptIs, SamePhotosLists
<1>4. PICK at \in [DOMAIN t -> P] :
        /\ \A k \in DOMAIN at : t[k] = s[at[k]]
        /\ \A i, j \in DOMAIN at : i < j => at[i] < at[j]
        /\ \A p \in P : \E k \in DOMAIN at : at[k] = p
  BY <1>1, KeptIs, SamePhotosLists
<1> HIDE DEF t
<1>5. ASSUME NEW x \in Photos!Range(t) PROVE x \in Photos!Range(s) /\ x \notin D
  <2>1. PICK k \in DOMAIN t : x = t[k]
    BY DEF Photos!Range
  <2>2. at[k] \in P /\ x = s[at[k]]
    BY <1>4, <2>1
  <2> QED  BY <1>2, <2>2 DEF Photos!Range
<1>6. ASSUME NEW x \in Photos!Range(s), x \notin D PROVE x \in Photos!Range(t)
  <2>1. PICK i \in DOMAIN s : x = s[i]
    BY DEF Photos!Range
  <2>2. i \in P
    BY <1>2, <1>6, <2>1
  <2>3. PICK k \in DOMAIN t : at[k] = i
    BY <1>4, <2>2
  <2>4. x = t[k]
    BY <1>4, <2>1, <2>3
  <2> QED  BY <2>4 DEF Photos!Range
<1>7. ASSUME Ordered(s) PROVE Ordered(t)
  <2> SUFFICES ASSUME NEW i \in DOMAIN t, NEW j \in DOMAIN t, i < j
               PROVE  t[i] # t[j] /\ ~Photos!Earlier(t[i], t[j])
    BY DEF Ordered
  <2>1. /\ at[i] \in DOMAIN s /\ at[j] \in DOMAIN s /\ at[i] < at[j]
        /\ t[i] = s[at[i]] /\ t[j] = s[at[j]]
    BY <1>2, <1>4
  <2> QED  BY <1>7, <2>1 DEF Ordered
<1> QED  BY <1>3, <1>5, <1>6, <1>7 DEF t, P

\* findMany by createdAt descending: all of S, newest first
LEMMA NewestIs ==
  ASSUME NEW S \in SUBSET Photos!Photo
  PROVE  /\ Photos!NewestFirst(S) \in Seq(S)
         /\ Falls(Photos!NewestFirst(S))
         /\ \A x : x \in Photos!Range(Photos!NewestFirst(S)) <=> x \in S
<1> DEFINE n == Cardinality(S)
           a == Photos!Sorted(S)
           s == Photos!NewestFirst(S)
<1>1. S \in SUBSET Int /\ IsFiniteSet(S)
  BY PhotoBounds, FS_Subset
<1>2. /\ n \in Nat /\ a \in [1 .. n -> S]
      /\ \A i, j \in 1 .. n : i < j => a[i] < a[j]
      /\ \A x \in S : \E i \in 1 .. n : a[i] = x
  BY <1>1, SortedIs, SamePhotosLists
<1> HIDE DEF n
<1>3. a \in Seq(S) /\ Len(a) = n
  <2> HIDE DEF a
  <2> QED  BY <1>2
<1>4. s = [i \in 1 .. n |-> a[(n - i) + 1]]
  BY <1>3 DEF Photos!NewestFirst, Photos!Reverse
<1> HIDE DEF a, s
<1>5. \A i \in 1 .. n : (n - i) + 1 \in 1 .. n
  BY <1>2
<1>6. \A i \in 1 .. n : s[i] = a[(n - i) + 1] /\ s[i] \in S
  BY <1>2, <1>4, <1>5
<1>7. s \in Seq(S) /\ DOMAIN s = 1 .. n
  BY <1>2, <1>4, <1>6
<1>8. Falls(s)
  <2> SUFFICES ASSUME NEW i \in 1 .. n, NEW j \in 1 .. n, i < j PROVE s[j] < s[i]
    BY <1>7 DEF Falls
  <2>1. (n - j) + 1 < (n - i) + 1
    BY <1>2
  <2> QED  BY <1>2, <1>5, <1>6, <2>1
<1>9. ASSUME NEW x \in S PROVE x \in Photos!Range(s)
  <2>1. PICK i \in 1 .. n : a[i] = x
    BY <1>2
  <2>2. (n - i) + 1 \in 1 .. n /\ (n - ((n - i) + 1)) + 1 = i
    BY <1>2
  <2>3. s[(n - i) + 1] = x
    BY <1>6, <2>1, <2>2
  <2> QED  BY <1>7, <2>2, <2>3 DEF Photos!Range
<1>10. \A x \in Photos!Range(s) : x \in S
  BY <1>6, <1>7 DEF Photos!Range
<1> QED  BY <1>7, <1>8, <1>9, <1>10 DEF s

\* What findMany of a page returns: the newest rows below the cursor, and all of
\* them unless the page is full
LEMMA FoundIs ==
  ASSUME photoRows \in SUBSET Photos!Photo, NEW c \in Photos!Photo \cup {None}
  PROVE  LET s == Photos!Found(c)
             older == IF c = None THEN photoRows
               ELSE {x \in photoRows : c \in photoRows /\ x < c}
         IN  /\ s \in Seq(Photos!Photo) /\ Falls(s)
             /\ \A x \in Photos!Range(s) : x \in older
             /\ \A x \in older : \/ x \in Photos!Range(s)
                                 \/ Len(s) >= PageSize /\ \A y \in Photos!Range(s) : x < y
<1> DEFINE older == IF c = None THEN photoRows
             ELSE {x \in photoRows : c \in photoRows /\ x < c}
           all == Photos!NewestFirst(older)
           k == IF Len(all) < PageSize THEN Len(all) ELSE PageSize
           s == SubSeq(all, 1, k)
<1>1. s = Photos!Found(c)
  BY DEF Photos!Found
<1>2. older \in SUBSET Photos!Photo
  OBVIOUS
<1> HIDE DEF older
<1>3. all \in Seq(older) /\ Falls(all) /\ \A x : x \in Photos!Range(all) <=> x \in older
  BY <1>2, NewestIs
<1> HIDE DEF all
<1>4. Len(all) \in Nat /\ DOMAIN all = 1 .. Len(all)
        /\ \A i \in 1 .. Len(all) : all[i] \in Int
  <2>1. /\ Len(all) \in Nat /\ DOMAIN all = 1 .. Len(all)
        /\ \A i \in 1 .. Len(all) : all[i] \in older
    BY <1>3
  <2>2. \A x \in older : x \in Int
    BY <1>2, PhotoBounds
  <2> QED  BY <2>1, <2>2
<1>5. k \in 0 .. Len(all) /\ (k < Len(all) => k = PageSize)
  <2>1. Len(all) \in Nat /\ PageSize \in Nat
    BY <1>4, PhotoBounds
  <2> QED  BY <2>1
<1> HIDE DEF k
<1>6. s = [i \in 1 .. k |-> all[i]] /\ Len(s) = k
  BY <1>3, <1>4, <1>5
<1> HIDE DEF s
<1>7. \A i \in 1 .. k : s[i] = all[i] /\ s[i] \in older
  BY <1>3, <1>4, <1>5, <1>6
<1>8. s \in Seq(Photos!Photo) /\ DOMAIN s = 1 .. k
  BY <1>2, <1>4, <1>5, <1>6, <1>7
<1>9. Falls(s)
  BY <1>3, <1>4, <1>5, <1>7, <1>8 DEF Falls
<1>10. \A x \in Photos!Range(s) : x \in older
  BY <1>7, <1>8 DEF Photos!Range
<1>11. ASSUME NEW x \in older
       PROVE  \/ x \in Photos!Range(s)
              \/ Len(s) >= PageSize /\ \A y \in Photos!Range(s) : x < y
  <2>1. PICK i \in 1 .. Len(all) : x = all[i]
    BY <1>3, <1>4 DEF Photos!Range
  <2>2. CASE i <= k
    <3>1. i \in DOMAIN s /\ s[i] = x
      BY <1>7, <1>8, <2>1, <2>2
    <3> QED  BY <3>1 DEF Photos!Range
  <2>3. CASE ~(i <= k)
    <3>1. k = PageSize /\ Len(s) >= PageSize
      BY <1>4, <1>5, <1>6, <2>3
    <3>2. ASSUME NEW j \in 1 .. k PROVE x < s[j]
      <4>1. j \in 1 .. Len(all) /\ j < i /\ s[j] = all[j]
        BY <1>4, <1>5, <1>7, <2>3
      <4> QED  BY <1>3, <1>4, <2>1, <4>1 DEF Falls
    <3>3. \A y \in Photos!Range(s) : x < y
      BY <1>8, <3>2 DEF Photos!Range
    <3> QED  BY <3>1, <3>3
  <2> QED  BY <2>2, <2>3
<1> QED  BY <1>1, <1>8, <1>9, <1>10, <1>11 DEF older

\* The rows of an upload: each of the new numbers once, in any order
LEMMA FilesAre ==
  ASSUME NEW n \in Nat \ {0}, next \in Nat \ {0}, next + n - 1 \in Photos!Photo,
         NEW files \in Photos!Batches(n)
  PROVE  /\ files \in Seq(Photos!Photo) /\ files # << >>
         /\ \A x : x \in Photos!Range(files) <=> x \in next .. next + n - 1
         /\ \A i, j \in DOMAIN files : files[i] = files[j] => i = j
<1> DEFINE T == next .. next + n - 1
<1>1. /\ files \in [1 .. n -> T]
      /\ \A i, j \in 1 .. n : files[i] = files[j] => i = j
  BY DEF Photos!Batches
<1>2. T \in SUBSET Photos!Photo
  BY PhotoBounds DEF Photos!Photo
<1>3. /\ IsFiniteSet(T) /\ Cardinality(T) = n
      /\ Cardinality(1 .. n) = n
  <2>1. next \in Int /\ next + n - 1 \in Int /\ 1 \in Int /\ n \in Int
    OBVIOUS
  <2>2. /\ IsFiniteSet(T)
        /\ Cardinality(T) = IF next > next + n - 1 THEN 0 ELSE (next + n - 1) - next + 1
        /\ Cardinality(1 .. n) = IF 1 > n THEN 0 ELSE n - 1 + 1
    BY <2>1, FS_Interval
  <2> HIDE DEF T
  <2> QED  BY <2>2
<1> HIDE DEF T
<1>4. files \in Surjection(1 .. n, T)
  <2>1. files \in Injection(1 .. n, T)
    BY <1>1 DEF Injection, IsInjective
  <2> QED  BY <1>3, <2>1, FS_Injection
<1>5. \A x : x \in Photos!Range(files) <=> x \in T
  <2>1. DOMAIN files = 1 .. n /\ \A i \in 1 .. n : files[i] \in T
    BY <1>1
  <2>2. \A x \in T : \E i \in 1 .. n : files[i] = x
    BY <1>4 DEF Surjection
  <2> QED  BY <2>1, <2>2 DEF Photos!Range
<1>6. files \in Seq(Photos!Photo) /\ files # << >> /\ DOMAIN files = 1 .. n
  <2>1. files \in [1 .. n -> Photos!Photo]
    BY <1>1, <1>2
  <2> QED  BY <2>1
<1> QED  BY <1>1, <1>5, <1>6 DEF T

\* What an upload adds to the rows
LEMMA CreateIs ==
  ASSUME Photos!TypeOK, Numbered, NEW n \in 1 .. MaxFiles, Photos!Create(n)
  PROVE  /\ n \in Nat \ {0} /\ next \in Nat \ {0} /\ next + n - 1 \in Photos!Photo
         /\ next' = next + n /\ next' > next /\ next' \in 1 .. MaxPhotos + 1
         /\ photoRows' \in SUBSET Photos!Photo
         /\ \A x : x \in photoRows' <=> x \in photoRows \/ x \in next .. next + n - 1
         /\ \A x \in next .. next + n - 1 : x \in Photos!Photo /\ next <= x
         /\ starts' = starts \cup {next} /\ starts' \in SUBSET Photos!Photo
         /\ Numbered'
<1>1. /\ MaxPhotos \in Nat /\ MaxFiles \in Nat /\ photoRows \in SUBSET Photos!Photo
      /\ next \in 1 .. MaxPhotos + 1 /\ starts \in SUBSET Photos!Photo
  BY PhotoBounds DEF Photos!TypeOK
<1>2. /\ next + n - 1 \in 1 .. MaxPhotos
      /\ photoRows' = photoRows \cup next .. next + n - 1 /\ next' = next + n
      /\ starts' = starts \cup {next}
  BY DEF Photos!Create, Photos!Photo
<1>3. n \in Nat \ {0} /\ next \in Nat \ {0}
  BY <1>1
<1>4. next' > next /\ next' \in 1 .. MaxPhotos + 1 /\ next \in 1 .. MaxPhotos
  BY <1>1, <1>2, <1>3
<1>5. \A x \in next .. next + n - 1 : x \in 1 .. MaxPhotos /\ next <= x /\ x < next'
  BY <1>1, <1>2, <1>3
<1>6. photoRows' \in SUBSET Photos!Photo /\ starts' \in SUBSET Photos!Photo
  BY <1>1, <1>2, <1>4, <1>5 DEF Photos!Photo
<1>7. Numbered'
  <2>1. ASSUME NEW x \in photoRows \cup starts PROVE x < next'
    <3>1. x \in Int /\ x < next
      BY <1>1, PhotoBounds DEF Numbered
    <3> QED  BY <1>1, <1>4, <3>1
  <2> QED  BY <1>2, <1>4, <1>5, <2>1 DEF Numbered
<1> QED  BY <1>2, <1>3, <1>4, <1>5, <1>6, <1>7 DEF Photos!Photo

\* Every step keeps the types.
LEMMA PhotosTyped ==
  ASSUME Photos!TypeOK, Numbered, Photos!Next
  PROVE  Photos!TypeOK' /\ Numbered'
<1> DEFINE Typed == Photos!TypeOK' /\ Numbered'
<1> USE DEF Photos!TypeOK
<1>0. Photos!Reason = {"cursor", "first", "lost", "partner", "left"}
        /\ (UNCHANGED Photos!server => Numbered')
  BY DEF Photos!Reason, Numbered, Photos!server
<1>1. CASE Photos!FindMany
  <2>1. page \in Photos!Fetch /\ page.cursor \in Photos!Photo \cup {None}
    BY <1>1 DEF Photos!FindMany, Photos!Loading, Photos!Fetch
  <2>2. Photos!Found(page.cursor) \in Seq(Photos!Photo)
    BY <2>1, FoundIs
  <2>3. page' \in Photos!Fetch
    BY <1>1, <2>1, <2>2 DEF Photos!FindMany, Photos!Fetch
  <2> QED  BY <1>0, <1>1, <2>3 DEF Photos!FindMany, Photos!Note, Photos!server,
                                   Photos!list, Photos!choice
<1>2. CASE Photos!LoadMore
  <2>1. page' \in Photos!Fetch
    BY <1>2 DEF Photos!LoadMore, Photos!Fetch
  <2> QED  BY <1>0, <1>2, <2>1 DEF Photos!LoadMore, Photos!server, Photos!list,
                                   Photos!choice
<1>3. CASE Photos!PageArrives
  <2>1. page.data \in Seq(Photos!Photo)
    BY <1>3 DEF Photos!PageArrives, Photos!Loading, Photos!Fetch
  <2>2. photos' \in Seq(Photos!Photo)
    BY <1>3, <2>1, ConcatIs DEF Photos!PageArrives
  <2>3. cursor' \in Photos!Photo \cup {None}
    <3>1. page.data # << >> => Photos!Last(page.data) \in Photos!Photo
      BY <2>1 DEF Photos!Last
    <3> QED  BY <1>3, <3>1 DEF Photos!PageArrives
  <2>4. hasMore' \in BOOLEAN
    BY <1>3 DEF Photos!PageArrives
  <2> QED  BY <1>0, <1>3, <2>2, <2>3, <2>4 DEF Photos!PageArrives, Photos!Note,
                                               Photos!server, Photos!choice
<1>4. CASE Photos!PageFails
  BY <1>0, <1>4 DEF Photos!PageFails, Photos!Note, Photos!server, Photos!list,
                    Photos!choice
<1>5. CASE Photos!StartUpload
  <2>1. upload' \in Seq(Photos!Photo)
    BY <1>5 DEF Photos!StartUpload
  <2> QED  BY <1>0, <1>5, <2>1 DEF Photos!StartUpload, Photos!server, Photos!list,
                                   Photos!choice
<1>6. ASSUME NEW n \in 1 .. MaxFiles, Photos!RunUpload(n) PROVE Typed
  <2>1. Photos!Create(n)
    BY <1>6 DEF Photos!RunUpload
  <2>2. upload' \in Seq(Photos!Photo)
    BY <1>6, <2>1, CreateIs, FilesAre DEF Photos!RunUpload
  <2> QED  BY <1>6, <2>1, <2>2, CreateIs DEF Photos!RunUpload, Photos!list, Photos!choice
<1>7. CASE Photos!UploadArrives
  <2>1. photos' \in Seq(Photos!Photo)
    BY <1>7, ConcatIs DEF Photos!UploadArrives, Photos!Uploaded
  <2> QED  BY <1>0, <1>7, <2>1 DEF Photos!UploadArrives, Photos!Note, Photos!server,
                                   Photos!choice
<1>8. CASE Photos!UploadFails
  BY <1>0, <1>8 DEF Photos!UploadFails, Photos!Note, Photos!server, Photos!list,
                    Photos!choice
<1>9. ASSUME NEW x \in Photos!Photo, Photos!Click(x) PROVE Typed
  BY <1>0, <1>9 DEF Photos!Click, Photos!server, Photos!list
<1>10. ASSUME NEW x \in Photos!Photo, Photos!PartnerDeletes(x) PROVE Typed
  BY <1>0, <1>10 DEF Photos!PartnerDeletes, Photos!Note, Photos!list, Photos!choice,
                     Numbered
<1>11. CASE Photos!EnterSelect \/ Photos!ExitSelect \/ Photos!Back
  BY <1>0, <1>11 DEF Photos!EnterSelect, Photos!ExitSelect, Photos!Back, Photos!server,
                     Photos!list
<1>12. ASSUME NEW n \in 1 .. MaxFiles, Photos!PartnerUploads(n) PROVE Typed
  <2>1. Photos!Create(n)
    BY <1>12 DEF Photos!PartnerUploads
  <2> QED  BY <1>0, <1>12, <2>1, CreateIs DEF Photos!PartnerUploads, Photos!Note,
                                              Photos!list, Photos!choice
<1>13. ASSUME NEW d \in Deletion, NEW ids \in SUBSET Photos!Photo, Photos!Delete(d, ids)
       PROVE  deletion' \in [Deletion -> Photos!Removal \cup {None}]
  BY <1>13 DEF Photos!Delete, Photos!Removal
<1>14. ASSUME NEW d \in Deletion, Photos!DeleteSelected(d) \/ Photos!DeleteActive(d)
       PROVE  Typed
  <2>1. \E ids \in SUBSET Photos!Photo : Photos!Delete(d, ids)
    BY <1>14 DEF Photos!DeleteSelected, Photos!DeleteActive
  <2>2. deletion' \in [Deletion -> Photos!Removal \cup {None}]
    BY <2>1, <1>13
  <2> QED  BY <1>0, <1>14, <2>2 DEF Photos!DeleteSelected, Photos!DeleteActive,
                                    Photos!Delete, Photos!server, Photos!list
<1>15. ASSUME NEW d \in Deletion, Photos!RunDeletion(d) PROVE Typed
  <2>1. deletion' \in [Deletion -> Photos!Removal \cup {None}]
    BY <1>15 DEF Photos!RunDeletion, Photos!Removal
  <2> QED  BY <1>15, <2>1 DEF Photos!RunDeletion, Photos!list, Photos!choice, Numbered
<1>16. ASSUME NEW d \in Deletion, Photos!DeletionArrives(d) PROVE Typed
  <2>1. photos' \in Seq(Photos!Photo)
    <3> DEFINE ids == deletion[d].ids
    <3>1. photos' = Photos!Kept(photos, {i \in DOMAIN photos : photos[i] \notin ids})
            /\ photos \in Seq(Photos!Photo)
      BY <1>16 DEF Photos!DeletionArrives
    <3> HIDE DEF ids
    <3> QED  BY ONLY <3>1, FilterIs
  <2>2. deletion' \in [Deletion -> Photos!Removal \cup {None}]
    <3>1. deletion' = [deletion EXCEPT ![d] = None]
      BY <1>16 DEF Photos!DeletionArrives
    <3> QED  BY <3>1
  <2>3. UNCHANGED <<Photos!server, hasMore, cursor, page, upload, photosLeft,
                    Photos!choice, photosMishap>>
    BY <1>16 DEF Photos!DeletionArrives
  <2> QED  BY <1>0, <2>1, <2>2, <2>3 DEF Photos!server, Photos!choice
<1>17. ASSUME NEW d \in Deletion, Photos!DeletionFails(d) PROVE Typed
  <2>1. deletion' = [deletion EXCEPT ![d] = None]
          /\ UNCHANGED <<Photos!server, Photos!list, page, upload, photosLeft,
                         Photos!choice>>
          /\ photosMishap' \in Photos!Reason \cup {None}
    BY <1>0, <1>17 DEF Photos!DeletionFails, Photos!Note
  <2>2. deletion' \in [Deletion -> Photos!Removal \cup {None}]
    BY <2>1
  <2> QED  BY <1>0, <2>1, <2>2 DEF Photos!server, Photos!list, Photos!choice
<1>18. CASE Photos!Remount
  <2>1. /\ photos' = << >> /\ hasMore' = TRUE /\ cursor' = None
        /\ page' = Photos!FirstPage /\ upload' = None
        /\ deletion' = [d \in Deletion |-> None]
        /\ selectMode' = FALSE /\ selectedIds' = {} /\ activePhoto' = None
        /\ photosMishap' = None /\ UNCHANGED Photos!server
    BY <1>18 DEF Photos!Remount
  <2>2. photosLeft' \in [upload : BOOLEAN, ids : SUBSET Photos!Photo]
    <3> DEFINE waiting == {d \in Deletion : deletion[d] # None /\ ~deletion[d].run}
               some == IF waiting = {} THEN {photosLeft.ids}
                       ELSE {deletion[d].ids : d \in waiting}
    <3>1. PICK ids \in some :
            photosLeft' = [upload |-> photosLeft.upload \/ upload = << >>, ids |-> ids]
      BY <1>18 DEF Photos!Remount
    <3>2. \A d \in waiting : deletion[d].ids \in SUBSET Photos!Photo
      BY DEF Photos!Removal
    <3>3. ids \in SUBSET Photos!Photo
      BY <3>2
    <3>4. (photosLeft.upload \/ upload = << >>) \in BOOLEAN
      OBVIOUS
    <3> HIDE DEF some
    <3> QED  BY <3>1, <3>3, <3>4
  <2>3. page' \in Photos!Fetch
    BY <2>1 DEF Photos!FirstPage, Photos!Fetch
  <2>4. photos' \in Seq(Photos!Photo)
          /\ deletion' \in [Deletion -> Photos!Removal \cup {None}]
    BY <2>1
  <2> QED  BY <1>0, <2>1, <2>2, <2>3, <2>4 DEF Photos!server
<1>19. ASSUME NEW n \in 1 .. MaxFiles, Photos!RunLeftUpload(n) PROVE Typed
  <2>1. Photos!Create(n)
    BY <1>19 DEF Photos!RunLeftUpload
  <2> QED  BY <1>0, <1>19, <2>1, CreateIs DEF Photos!RunLeftUpload, Photos!Note,
                                              Photos!list, Photos!choice
<1>20. CASE Photos!RunLeftDeletion
  BY <1>0, <1>20 DEF Photos!RunLeftDeletion, Photos!Note, Photos!list, Photos!choice,
                     Numbered
<1> HIDE DEF Photos!TypeOK
<1> QED
  BY <1>1, <1>2, <1>3, <1>4, <1>5, <1>6, <1>7, <1>8, <1>9, <1>10, <1>11, <1>12, <1>14,
     <1>15, <1>16, <1>17, <1>18, <1>19, <1>20 DEF Photos!Next

\* A tab that has just been mounted awaits its first page.
Mounted ==
  /\ photos = << >> /\ hasMore = TRUE /\ cursor = None
  /\ page = Photos!FirstPage /\ upload = None
  /\ deletion = [d \in Deletion |-> None]
  /\ selectMode = FALSE /\ selectedIds = {} /\ activePhoto = None

LEMMA MountedAgrees == Mounted => PhotosAgree
<1> SUFFICES ASSUME Mounted PROVE PhotosAgree
  OBVIOUS
<1>1. page # None /\ page.cursor = None /\ page.data = None
  <2>1. Photos!FirstPage \in Photos!Fetch
    BY DEF Photos!FirstPage, Photos!Fetch
  <2> QED  BY <2>1, PhotoBounds DEF Mounted, Photos!FirstPage
<1>2. AwaitsFirstPage /\ \A x : ~ShowsPhoto(x)
  BY <1>1 DEF AwaitsFirstPage, Mounted, ShowsPhoto, Photos!Range
<1>3. Ordered(photos)
  BY DEF Ordered, Mounted
<1>4. Picked = {} /\ \A x : ~Deleted(x)
  BY PhotoBounds DEF Picked, Deleted, Mounted
<1> QED
  BY <1>1, <1>2, <1>3, <1>4
     DEF Mounted, PhotosAgree, ShownAreRows, PhotosInOrder, PickedFromList, DeletedAreGone,
         PageKnows

\* The invariant holds initially, ...
LEMMA PhotosInit == Photos!Init => PhotosInv
<1> SUFFICES ASSUME Photos!Init PROVE PhotosInv
  OBVIOUS
<1>1. PICK n \in 0 .. MaxPhotos : photoRows = 1 .. n /\ next = n + 1 /\ starts = 1 .. n
  BY DEF Photos!Init
<1>2. Mounted /\ photosMishap = None /\ photosLeft = [upload |-> FALSE, ids |-> {}]
  BY DEF Photos!Init, Mounted
<1>3. n \in Nat /\ n <= MaxPhotos /\ MaxPhotos \in Nat
  BY PhotoBounds
<1>4. photoRows \in SUBSET Photos!Photo /\ next \in 1 .. MaxPhotos + 1
        /\ starts \in SUBSET Photos!Photo /\ Numbered
  BY <1>1, <1>3 DEF Photos!Photo, Numbered
<1>5. Photos!TypeOK
  <2>1. photos \in Seq(Photos!Photo)
          /\ deletion \in [Deletion -> Photos!Removal \cup {None}]
          /\ photosLeft \in [upload : BOOLEAN, ids : SUBSET Photos!Photo]
    BY <1>2 DEF Mounted
  <2>2. page \in Photos!Fetch \cup {None}
    BY <1>2 DEF Mounted, Photos!FirstPage, Photos!Fetch
  <2> QED  BY <1>2, <1>4, <2>1, <2>2 DEF Photos!TypeOK, Mounted
<1> QED  BY <1>2, <1>4, <1>5, MountedAgrees DEF PhotosInv

\* A choice among the photos shown, and a deletion that has not run yet
LEMMA PickKeeps ==
  ASSUME PhotosAgree, UNCHANGED <<Photos!server, Photos!list, page, upload>>,
         \A x : Deleted(x)' <=> Deleted(x),
         \A x \in Picked' : x \in Picked \/ ShowsPhoto(x)
  PROVE  PhotosAgree'
<1>1. /\ \A x : ShowsPhoto(x)' <=> ShowsPhoto(x)
      /\ \A x : Arriving(x)' <=> Arriving(x)
      /\ Ordered(photos)' <=> Ordered(photos)
      /\ Ordered(upload)' <=> Ordered(upload)
  BY OrderSame DEF ShowsPhoto, Arriving, Photos!list, Photos!server
<1>2. PickedFromList'
  BY <1>1 DEF PhotosAgree, PickedFromList, Photos!server
<1> QED
  BY <1>1, <1>2
     DEF PhotosAgree, AwaitsFirstPage, RowsAreShown, ShownAreRows, PhotosInOrder,
         UploadIsNewest, DeletedAreGone, PageKnows, Photos!server, Photos!list

\* What Deleted and Picked depend on
LEMMA DeletedSame ==
  ASSUME UNCHANGED deletion PROVE \A x : Deleted(x)' <=> Deleted(x)
BY DEF Deleted

LEMMA PickedSame ==
  ASSUME UNCHANGED <<deletion, Photos!choice>> PROVE Picked' = Picked
BY DEF Picked, Photos!choice

\* A deletion that starts names its ids, and has removed nothing.
LEMMA DeleteSays ==
  ASSUME Photos!TypeOK, NEW d \in Deletion, NEW ids \in SUBSET Photos!Photo,
         Photos!Delete(d, ids)
  PROVE  /\ \A x : Deleted(x)' <=> Deleted(x)
         /\ UNION {deletion'[e].ids : e \in {f \in Deletion : deletion'[f] # None}}
              = ids \cup
                UNION {deletion[e].ids : e \in {f \in Deletion : deletion[f] # None}}
<1> DEFINE r == [ids |-> ids, run |-> FALSE]
<1>1. /\ deletion[d] = None /\ deletion' = [deletion EXCEPT ![d] = r]
      /\ deletion \in [Deletion -> Photos!Removal \cup {None}]
  BY DEF Photos!Delete, Photos!TypeOK
<1>2. r \in Photos!Removal /\ r # None /\ r.ids = ids /\ r.run = FALSE
  <2>1. r \in Photos!Removal
    BY DEF Photos!Removal
  <2> QED  BY <2>1, PhotoBounds
<1> HIDE DEF r
<1>3. deletion'[d] = r /\ \A e \in Deletion : e # d => deletion'[e] = deletion[e]
  BY <1>1
<1>4. \A x : Deleted(x)' <=> Deleted(x)
  BY <1>1, <1>2, <1>3 DEF Deleted
<1>5. ASSUME NEW x
      PROVE  (\E e \in Deletion : deletion'[e] # None /\ x \in deletion'[e].ids)
               <=> x \in ids
                 \/ \E e \in Deletion : deletion[e] # None /\ x \in deletion[e].ids
  <2>1. ~(\E e \in {d} : deletion[e] # None /\ x \in deletion[e].ids)
    BY <1>1
  <2>2. deletion'[d] # None /\ (x \in deletion'[d].ids <=> x \in ids)
    BY <1>2, <1>3
  <2>3. \A e \in Deletion \ {d} : deletion'[e] = deletion[e]
    BY <1>3
  <2> QED  BY <2>1, <2>2, <2>3
<1> QED  BY <1>4, <1>5

\* What the user chooses is in the list.
LEMMA PicksKeep ==
  ASSUME Photos!TypeOK, PhotosAgree,
         \/ Photos!EnterSelect \/ Photos!ExitSelect \/ Photos!Back
         \/ \E x \in Photos!Photo : Photos!Click(x)
         \/ \E d \in Deletion : Photos!DeleteSelected(d) \/ Photos!DeleteActive(d)
  PROVE  PhotosAgree'
<1>1. CASE Photos!EnterSelect \/ Photos!ExitSelect \/ Photos!Back
  <2>1. /\ UNCHANGED <<Photos!server, Photos!list, page, upload, deletion>>
        /\ selectedIds' \subseteq selectedIds /\ activePhoto' \in {activePhoto, None}
    BY <1>1 DEF Photos!EnterSelect, Photos!ExitSelect, Photos!Back
  <2>2. \A x \in Picked' : x \in Picked
    BY <2>1, PhotoBounds DEF Picked
  <2> QED  BY <2>1, <2>2, DeletedSame, PickKeeps
<1>2. ASSUME NEW x \in Photos!Photo, Photos!Click(x) PROVE PhotosAgree'
  <2>1. /\ UNCHANGED <<Photos!server, Photos!list, page, upload, deletion>>
        /\ x \in Photos!Range(photos)
        /\ selectedIds' \subseteq selectedIds \cup {x}
        /\ activePhoto' \in {activePhoto, x}
    BY <1>2 DEF Photos!Click
  <2>2. \A y \in Picked' : y \in Picked \/ y = x
    BY <2>1 DEF Picked
  <2>3. ShowsPhoto(x)
    BY <2>1 DEF ShowsPhoto
  <2> QED  BY <2>1, <2>2, <2>3, DeletedSame, PickKeeps
<1>3. ASSUME NEW d \in Deletion, Photos!DeleteSelected(d) \/ Photos!DeleteActive(d)
      PROVE  PhotosAgree'
  <2>1. PICK ids \in SUBSET Photos!Photo :
          /\ Photos!Delete(d, ids)
          /\ ids \subseteq selectedIds \cup ({activePhoto} \cap Photos!Photo)
          /\ selectedIds' \subseteq selectedIds /\ activePhoto' \in {activePhoto, None}
    <3>1. CASE Photos!DeleteSelected(d)
      <4>1. selectedIds \in SUBSET Photos!Photo /\ Photos!Delete(d, selectedIds)
        BY <3>1 DEF Photos!DeleteSelected, Photos!TypeOK
      <4> QED  BY <3>1, <4>1 DEF Photos!DeleteSelected
    <3>2. CASE Photos!DeleteActive(d)
      <4>1. {activePhoto} \in SUBSET Photos!Photo /\ Photos!Delete(d, {activePhoto})
        BY <3>2 DEF Photos!DeleteActive, Photos!TypeOK
      <4> QED  BY <3>2, <4>1 DEF Photos!DeleteActive
    <3> QED  BY <1>3, <3>1, <3>2
  <2>2. /\ \A x : Deleted(x)' <=> Deleted(x)
        /\ UNION {deletion'[e].ids : e \in {f \in Deletion : deletion'[f] # None}}
             = ids \cup
               UNION {deletion[e].ids : e \in {f \in Deletion : deletion[f] # None}}
    BY <2>1, DeleteSays
  <2>3. \A x \in Picked' : x \in Picked
    BY <2>1, <2>2, PhotoBounds DEF Picked
  <2>4. UNCHANGED <<Photos!server, Photos!list, page, upload>>
    BY <2>1 DEF Photos!Delete
  <2> QED  BY <2>2, <2>3, <2>4, PickKeeps
<1> QED  BY <1>1, <1>2, <1>3

\* A step that leaves the mishap unnoted has met none.
LEMMA NoMishap ==
  ASSUME photosMishap = None, photosMishap' = None, NEW r \in Photos!Reason,
         NEW h \in BOOLEAN, Photos!Note(r, h)
  PROVE  ~h
BY PhotoBounds DEF Photos!Note

\* What only the list, the photos of the upload and what is picked depend on
LEMMA SameList ==
  ASSUME UNCHANGED <<Photos!server, Photos!list, upload, deletion, Photos!choice>>
  PROVE  /\ \A x : ShowsPhoto(x)' <=> ShowsPhoto(x)
         /\ \A x : Arriving(x)' <=> Arriving(x)
         /\ \A x : Deleted(x)' <=> Deleted(x)
         /\ Picked' = Picked
         /\ Ordered(photos)' <=> Ordered(photos)
         /\ Ordered(upload)' <=> Ordered(upload)
BY OrderSame, DeletedSame, PickedSame DEF ShowsPhoto, Arriving, Photos!list, Photos!server

\* loadMore asks at the cursor.
LEMMA LoadKeeps ==
  ASSUME Photos!TypeOK, PhotosAgree, Photos!LoadMore
  PROVE  PhotosAgree'
<1>1. /\ page = None /\ hasMore /\ cursor # None
      /\ page' = [cursor |-> cursor, data |-> None] /\ cursor \in Photos!Photo
      /\ UNCHANGED <<Photos!server, Photos!list, upload, deletion, Photos!choice>>
  BY DEF Photos!LoadMore, Photos!CanLoadMore, Photos!Loading, Photos!TypeOK
<1>2. page'.cursor = cursor /\ page'.data = None
  BY <1>1
<1>3. RowsAreShown /\ UploadIsNewest /\ hasMore'
  BY <1>1 DEF PhotosAgree, AwaitsFirstPage, Photos!list
<1> QED
  BY <1>1, <1>2, <1>3, SameList
     DEF PhotosAgree, RowsAreShown, ShownAreRows, PhotosInOrder, UploadIsNewest,
         PickedFromList, DeletedAreGone, PageKnows, Photos!server, Photos!list

\* The page is found while the list stays as it is.
LEMMA FindManyKeeps ==
  ASSUME Photos!TypeOK, PhotosAgree, Photos!FindMany, photosMishap = None,
         photosMishap' = None
  PROVE  PhotosAgree'
<1> DEFINE s == Photos!Found(page.cursor)
           older == IF page.cursor = None THEN photoRows
                    ELSE {x \in photoRows : page.cursor \in photoRows /\ x < page.cursor}
<1>1. /\ page # None /\ page' = [page EXCEPT !.data = s]
      /\ UNCHANGED <<Photos!server, Photos!list, upload, deletion, Photos!choice>>
      /\ page \in Photos!Fetch /\ page.cursor \in Photos!Photo \cup {None}
      /\ photoRows \in SUBSET Photos!Photo
  BY DEF Photos!FindMany, Photos!Loading, Photos!Fetch, Photos!TypeOK
<1>2. /\ s \in Seq(Photos!Photo) /\ Falls(s)
      /\ \A x \in Photos!Range(s) : x \in older
      /\ \A x \in older : \/ x \in Photos!Range(s)
                          \/ Len(s) >= PageSize /\ \A y \in Photos!Range(s) : x < y
  BY <1>1, FoundIs
<1>3. ~Photos!CutOff(page.cursor)
  BY NoMishap DEF Photos!FindMany, Photos!CutOff, Photos!Reason
<1> HIDE DEF s
<1>4. page'.cursor = page.cursor /\ page'.data = s /\ page'.cursor = cursor
  BY <1>1 DEF Photos!Fetch, PhotosAgree, PageKnows
<1>5. \A x \in photoRows : cursor # None => (x \in older <=> x < cursor)
  BY <1>3, <1>4, <1>1 DEF Photos!CutOff
<1>6. /\ \A x \in Photos!Range(s) : x \in photoRows /\ (cursor # None => x < cursor)
      /\ \A x \in photoRows : ~Arriving(x) /\ (cursor # None => x < cursor) =>
           \/ x \in Photos!Range(s)
           \/ Len(s) >= PageSize /\ \A y \in Photos!Range(s) : x < y
  BY <1>1, <1>2, <1>4, <1>5
<1>7. /\ \A x : ShowsPhoto(x)' <=> ShowsPhoto(x)
      /\ \A x : Arriving(x)' <=> Arriving(x)
      /\ \A x : Deleted(x)' <=> Deleted(x)
      /\ Picked' = Picked
      /\ Ordered(photos)' <=> Ordered(photos)
      /\ Ordered(upload)' <=> Ordered(upload)
  BY <1>1, SameList
<1>8. PageKnows'
  <2>1. hasMore /\ (page.cursor = None => photos = << >>)
    BY <1>1 DEF PhotosAgree, PageKnows
  <2> QED  BY <1>1, <1>2, <1>4, <1>6, <1>7, <2>1 DEF PageKnows, Falls, Photos!server, Photos!list
<1>9. (AwaitsFirstPage \/ (RowsAreShown /\ UploadIsNewest))'
  <2>1. CASE page.cursor = None
    <3>1. page' \in Photos!Fetch /\ page' # None
      BY <1>1, <1>2, PhotoBounds DEF Photos!Fetch
    <3> QED  BY <1>4, <2>1, <3>1 DEF AwaitsFirstPage
  <2>2. CASE page.cursor # None
    BY <1>1, <1>7, <2>2 DEF PhotosAgree, AwaitsFirstPage, RowsAreShown,
                            UploadIsNewest, Photos!server, Photos!list
  <2> QED  BY <2>1, <2>2
<1>10. page' # None
  BY <1>1, <1>2, PhotoBounds DEF Photos!Fetch
<1> QED
  BY <1>1, <1>7, <1>8, <1>9, <1>10
     DEF PhotosAgree, ShownAreRows, PhotosInOrder, PickedFromList,
         DeletedAreGone, Photos!server, Photos!list

\* The page joins the list: nothing between the two is left out.
LEMMA PageKeeps ==
  ASSUME Photos!TypeOK, Numbered, PhotosAgree, Photos!PageArrives, photosMishap = None,
         photosMishap' = None
  PROVE  PhotosAgree'
<1> DEFINE s == page.data
           first == page.cursor = None
<1>1. /\ page # None /\ s # None /\ page' = None
      /\ photos' = IF first THEN s ELSE photos \o s
      /\ hasMore' = (hasMore /\ Len(s) >= PageSize)
      /\ cursor' = IF s = << >> THEN cursor ELSE Photos!Last(s)
      /\ UNCHANGED <<Photos!server, upload, deletion, Photos!choice>>
  BY DEF Photos!PageArrives, Photos!Loading
<1>2. first => (upload = None \/ upload = << >>) /\ \A x : ~Arriving(x)
  <2>1. ~(first /\ Photos!Uploaded)
    BY NoMishap DEF Photos!PageArrives, Photos!Reason
  <2> QED  BY <2>1 DEF Photos!Uploaded, Arriving, Photos!Range
<1>3. /\ page \in Photos!Fetch /\ s \in Seq(Photos!Photo)
      /\ photos \in Seq(Photos!Photo) /\ hasMore \in BOOLEAN
      /\ photoRows \in SUBSET Photos!Photo /\ cursor \in Photos!Photo \cup {None}
      /\ next \in Int
      /\ starts \in SUBSET Photos!Photo /\ Picked \in SUBSET Photos!Photo
  <2>1. Picked \in SUBSET Photos!Photo
    BY DEF Photos!TypeOK, Photos!Removal, Picked
  <2> QED  BY <1>1, <2>1, PhotoBounds DEF Photos!TypeOK, Photos!Fetch, Photos!Photo
<1>4. /\ hasMore /\ page.cursor = cursor /\ (first => photos = << >>)
      /\ Falls(s)
      /\ \A x \in Photos!Range(s) : x \in photoRows /\ (cursor # None => x < cursor)
      /\ \A x \in photoRows : ~Arriving(x) /\ (cursor # None => x < cursor) =>
           \/ x \in Photos!Range(s)
           \/ Len(s) >= PageSize /\ \A y \in Photos!Range(s) : x < y
  BY <1>1 DEF PhotosAgree, PageKnows
<1>5. /\ PhotosInOrder /\ ShownAreRows /\ PickedFromList /\ DeletedAreGone
      /\ first \/ (RowsAreShown /\ UploadIsNewest)
  BY DEF PhotosAgree, AwaitsFirstPage
<1> HIDE DEF s, first
<1>6. /\ \A x : ShowsPhoto(x)' <=> ShowsPhoto(x) \/ x \in Photos!Range(s)
      /\ Ordered(photos')
  <2>1. CASE first
    <3>1. \A x : ~ShowsPhoto(x)
      BY <1>4, <2>1 DEF ShowsPhoto, Photos!Range
    <3>2. Ordered(s)
      BY <1>3, <1>4, FallingIsOrdered
    <3> QED  BY <1>1, <2>1, <3>1, <3>2 DEF ShowsPhoto
  <2>2. CASE ~first
    <3>1. cursor # None
      BY <1>4, <2>2 DEF first
    <3>2. \A x \in Photos!Range(photos) : x \in Photos!Photo
      BY <1>3 DEF Photos!Range
    <3>3. \A x \in Photos!Range(s) : x \in Photos!Photo
      BY <1>3 DEF Photos!Range
    <3>4. ASSUME NEW x \in Photos!Range(photos), NEW y \in Photos!Range(s) PROVE y < x
      <4>1. x \in Photos!Photo /\ y \in Photos!Photo /\ x >= cursor /\ y < cursor
              /\ cursor \in Photos!Photo
        BY <1>3, <1>4, <1>5, <3>1, <3>2, <3>3 DEF PhotosInOrder, ShowsPhoto
      <4> QED  BY <4>1 DEF Photos!Photo
    <3>5. Ordered(photos) /\ Ordered(s)
      BY <1>3, <1>4, <1>5, FallingIsOrdered DEF PhotosInOrder
    <3> QED  BY <1>1, <1>3, <2>2, <3>4, <3>5, ConcatIs DEF ShowsPhoto
  <2> QED  BY <2>1, <2>2
<1>7. Ordered(photos)' /\ (Ordered(upload)' <=> Ordered(upload))
  <2>1. UNCHANGED <<upload, starts>>
    BY <1>1 DEF Photos!server
  <2> QED  BY <1>6, <2>1 DEF Ordered, Photos!Earlier
<1>8. /\ \A x : Deleted(x)' <=> Deleted(x)
      /\ \A x : Arriving(x)' <=> Arriving(x)
      /\ Picked' = Picked /\ photoRows' = photoRows /\ next' = next /\ upload' = upload
  BY <1>1, DeletedSame, PickedSame DEF Photos!server, Arriving
<1>9. \A x \in Photos!Range(s) : x \in Photos!Photo
  BY <1>3 DEF Photos!Range
\* The last of the page is its smallest.
<1>10. s # << >> => /\ cursor' \in Photos!Range(s) /\ cursor' \in Photos!Photo
                    /\ \A x \in Photos!Range(s) : x >= cursor'
  <2> SUFFICES ASSUME s # << >>
               PROVE  /\ cursor' \in Photos!Range(s) /\ cursor' \in Photos!Photo
                      /\ \A x \in Photos!Range(s) : x >= cursor'
    OBVIOUS
  <2>1. cursor' = s[Len(s)] /\ Len(s) \in DOMAIN s /\ \A i \in DOMAIN s : i <= Len(s)
          /\ s[i] \in Photos!Photo
    BY <1>1, <1>3 DEF Photos!Last
  <2>2. cursor' \in Photos!Range(s) /\ cursor' \in Photos!Photo
    BY <2>1 DEF Photos!Range
  <2>3. ASSUME NEW i \in DOMAIN s PROVE s[i] >= cursor'
    <3>1. CASE i = Len(s)
      BY <2>1, <3>1 DEF Photos!Photo
    <3>2. CASE i # Len(s)
      <4>1. i < Len(s)
        BY <1>3, <2>1, <3>2
      <4>2. s[Len(s)] < s[i]
        BY <1>4, <2>1, <4>1 DEF Falls
      <4> QED  BY <2>1, <4>2 DEF Photos!Photo
    <3> QED  BY <3>1, <3>2
  <2> QED  BY <2>2, <2>3 DEF Photos!Range
<1>11. s = << >> => cursor' = cursor /\ \A x : x \notin Photos!Range(s)
  BY <1>1 DEF Photos!Range
<1>12. PhotosInOrder'
  <2>1. ASSUME NEW x \in Photos!Photo, ShowsPhoto(x) \/ x \in Photos!Range(s)
        PROVE  x < next /\ (cursor' # None => x >= cursor')
    <3>1. x < next
      BY <1>4, <1>5, <2>1 DEF PhotosInOrder, Numbered
    <3>2. CASE s = << >>
      BY <1>5, <1>11, <2>1, <3>1, <3>2 DEF PhotosInOrder
    <3>3. CASE s # << >> /\ x \in Photos!Range(s)
      BY <1>10, <3>1, <3>3
    <3>4. CASE s # << >> /\ ShowsPhoto(x)
      <4>1. ~first
        BY <1>4, <3>4 DEF ShowsPhoto, Photos!Range
      <4>2. cursor \in Photos!Photo /\ x >= cursor /\ cursor' < cursor
              /\ cursor' \in Photos!Photo
        <5>1. cursor \in Photos!Photo /\ x >= cursor
          BY <1>3, <1>4, <1>5, <2>1, <3>4, <4>1 DEF PhotosInOrder, first
        <5> QED  BY <1>4, <1>10, <3>4, <5>1, PhotoBounds
      <4> QED  BY <3>1, <4>2 DEF Photos!Photo
    <3> QED  BY <2>1, <3>2, <3>3, <3>4
  <2>2. \A x \in photoRows : x < next
    BY DEF Numbered
  <2>3. cursor' # None => cursor' < next
    BY <1>4, <1>5, <1>10, <1>11, <2>2 DEF PhotosInOrder
  <2> QED  BY <1>6, <1>7, <1>8, <2>1, <2>2, <2>3 DEF PhotosInOrder
<1>13. RowsAreShown'
  <2> SUFFICES ASSUME NEW x \in photoRows, ~Arriving(x),
                      ~hasMore' \/ cursor' = None \/ x >= cursor', ~ShowsPhoto(x)
               PROVE  x \in Photos!Range(s)
    BY <1>6, <1>8 DEF RowsAreShown
  <2>1. cursor # None => x < cursor
    <3> SUFFICES ASSUME cursor # None PROVE x < cursor
      OBVIOUS
    <3>1. ~first
      BY <1>4 DEF first
    <3>2. ~(x >= cursor) /\ x \in Photos!Photo /\ cursor \in Photos!Photo
      BY <1>3, <1>5, <3>1 DEF RowsAreShown
    <3> QED  BY <3>2 DEF Photos!Photo
  <2>2. \/ x \in Photos!Range(s)
        \/ Len(s) >= PageSize /\ \A y \in Photos!Range(s) : x < y
    BY <1>4, <2>1
  <2>3. ASSUME Len(s) >= PageSize, \A y \in Photos!Range(s) : x < y PROVE FALSE
    <3>1. s # << >>
      <4>1. PageSize \in Nat \ {0}
        BY PhotoBounds
      <4> QED  BY <2>3, <4>1
    <3>2. cursor' \in Photos!Photo /\ x < cursor' /\ x \in Photos!Photo
      BY <1>3, <1>10, <2>3, <3>1
    <3>3. cursor' # None
      BY <3>2, PhotoBounds
    <3>4. hasMore'
      BY <1>1, <1>4, <2>3
    <3> QED  BY <3>2, <3>3, <3>4 DEF Photos!Photo
  <2> QED  BY <2>2, <2>3
<1>14. cursor' = None => ~hasMore'
  <2> SUFFICES ASSUME cursor' = None PROVE ~hasMore'
    OBVIOUS
  <2>1. s = << >>
    BY <1>10, PhotoBounds
  <2>2. Len(s) = 0 /\ PageSize \in Nat \ {0}
    BY <2>1, PhotoBounds
  <2>3. ~(Len(s) >= PageSize)
    BY <2>2
  <2> QED  BY <1>1, <2>3, Zenon
<1>15. ShownAreRows'
  BY <1>4, <1>5, <1>6, <1>8 DEF ShownAreRows
<1>16. UploadIsNewest'
  <2>1. upload # None => Ordered(upload)'
    <3>1. CASE first
      <4>1. upload # None => Ordered(upload)
        BY <1>2, <3>1 DEF Ordered
      <4> QED  BY <1>7, <4>1
    <3>2. CASE ~first
      BY <1>5, <1>7, <3>2 DEF UploadIsNewest
    <3> QED  BY <3>1, <3>2
  <2>2. ASSUME NEW x \in Photos!Photo, Arriving(x)
        PROVE  /\ x \in photoRows /\ (cursor' # None => cursor' < x)
               /\ \A y \in Photos!Photo : ShowsPhoto(y) \/ y \in Photos!Range(s) => y < x
    <3>1. ~first /\ UploadIsNewest
      BY <1>2, <1>5, <2>2
    <3>2. cursor \in Photos!Photo /\ cursor < x
      BY <1>3, <1>4, <2>2, <3>1 DEF UploadIsNewest, first
    <3>3. \A y \in Photos!Range(s) : y < x
      BY <1>4, <1>9, <3>2, PhotoBounds DEF Photos!Photo
    <3>4. cursor' < x
      BY <1>10, <1>11, <3>2, <3>3
    <3> QED  BY <2>2, <3>1, <3>3, <3>4 DEF UploadIsNewest
  <2> QED  BY <1>6, <1>8, <2>1, <2>2 DEF UploadIsNewest
<1>17. PickedFromList' /\ DeletedAreGone'
  BY <1>5, <1>6, <1>8 DEF PickedFromList, DeletedAreGone
<1> QED
  BY <1>1, <1>12, <1>13, <1>14, <1>15, <1>16, <1>17 DEF PhotosAgree, PageKnows

\* A page that fails leaves the list as it is, unless it was the first.
LEMMA PageFailKeeps ==
  ASSUME Photos!TypeOK, PhotosAgree, Photos!PageFails, photosMishap = None,
         photosMishap' = None
  PROVE  PhotosAgree'
<1>1. /\ page # None /\ page' = None
      /\ UNCHANGED <<Photos!server, Photos!list, upload, deletion, Photos!choice>>
  BY DEF Photos!PageFails, Photos!Loading
<1>2. page.cursor # None /\ page.cursor = cursor
  BY <1>1, NoMishap DEF Photos!PageFails, PhotosAgree, PageKnows, Photos!Reason
<1>3. RowsAreShown /\ UploadIsNewest
  BY <1>2 DEF PhotosAgree, AwaitsFirstPage
<1> QED
  BY <1>1, <1>2, <1>3, SameList
     DEF PhotosAgree, RowsAreShown, ShownAreRows, PhotosInOrder, UploadIsNewest,
         PickedFromList, DeletedAreGone, PageKnows, Photos!server, Photos!list

\* An upload that starts has no rows yet.
LEMMA StartUploadKeeps ==
  ASSUME Photos!TypeOK, PhotosAgree, Photos!StartUpload
  PROVE  PhotosAgree'
<1>1. /\ upload = None /\ upload' = << >>
      /\ UNCHANGED <<Photos!server, Photos!list, page, deletion, Photos!choice>>
  BY DEF Photos!StartUpload, Photos!UploadEnabled
<1>2. /\ \A x : ShowsPhoto(x)' <=> ShowsPhoto(x)
      /\ \A x : ~Arriving(x) /\ ~Arriving(x)'
      /\ \A x : Deleted(x)' <=> Deleted(x)
      /\ Picked' = Picked
      /\ Ordered(photos)' <=> Ordered(photos)
  BY <1>1, DeletedSame, PickedSame
     DEF ShowsPhoto, Arriving, Photos!Range, Ordered, Photos!Earlier, Photos!list,
         Photos!server
<1>3. Ordered(upload)'
  BY <1>1 DEF Ordered
<1> QED
  BY <1>1, <1>2, <1>3
     DEF PhotosAgree, AwaitsFirstPage, RowsAreShown, ShownAreRows, PhotosInOrder,
         UploadIsNewest, PickedFromList, DeletedAreGone, PageKnows, Photos!server,
         Photos!list

\* The new rows are above all that is shown or picked.
LEMMA NewRowsKeep ==
  ASSUME Photos!TypeOK, Numbered, PhotosAgree, NEW n \in 1 .. MaxFiles, Photos!Create(n),
         UNCHANGED <<Photos!list, page, deletion, Photos!choice>>
  PROVE  /\ PhotosInOrder' /\ ShownAreRows' /\ PickedFromList' /\ DeletedAreGone'
         /\ \A x : ShowsPhoto(x)' <=> ShowsPhoto(x)
<1>1. /\ next \in Nat /\ next' \in Nat /\ next' > next
      /\ \A x : x \in photoRows' <=> x \in photoRows \/ x \in next .. next + n - 1
      /\ \A x \in next .. next + n - 1 : x \in Photos!Photo /\ next <= x
      /\ starts' = starts \cup {next}
  BY CreateIs
<1>2. /\ photos \in Seq(Photos!Photo) /\ cursor \in Photos!Photo \cup {None}
      /\ \A x \in Photos!Photo : x \in Nat
      /\ Picked \in SUBSET Photos!Photo
      /\ UNCHANGED <<photos, cursor>>
  <2>1. Picked \in SUBSET Photos!Photo
    BY DEF Photos!TypeOK, Photos!Removal, Picked
  <2> QED  BY <2>1, PhotoBounds DEF Photos!TypeOK, Photos!list
<1>3. /\ \A x : ShowsPhoto(x)' <=> ShowsPhoto(x)
      /\ \A x : Deleted(x)' <=> Deleted(x)
      /\ Picked' = Picked
  BY DeletedSame, PickedSame DEF ShowsPhoto, Photos!list
<1>4. PhotosInOrder /\ ShownAreRows /\ PickedFromList /\ DeletedAreGone
  BY DEF PhotosAgree
<1>5. PhotosInOrder'
  <2>1. Ordered(photos)'
    BY <1>1, <1>2, <1>4, OrderGrows DEF PhotosInOrder
  <2>2. /\ \A x \in Photos!Photo : ShowsPhoto(x) => x < next'
        /\ cursor # None => cursor < next'
    BY <1>1, <1>2, <1>4 DEF PhotosInOrder
  <2> QED  BY <1>2, <1>3, <1>4, <2>1, <2>2 DEF PhotosInOrder
<1>6. \A x \in Picked : ShowsPhoto(x) \/ x < next
  BY <1>4 DEF PickedFromList
<1>7. \A x \in Picked : x < next
  BY <1>2, <1>4, <1>6 DEF PhotosInOrder
<1>8. \A x \in Picked : x < next' /\ x \notin next .. next + n - 1
  BY <1>1, <1>2, <1>7
<1>9. PickedFromList'
  BY <1>1, <1>3, <1>4, <1>8 DEF PickedFromList
<1>10. DeletedAreGone'
  <2>1. ASSUME NEW x \in Photos!Photo, Deleted(x) PROVE x \notin photoRows'
    <3>1. x \in Picked
      BY <2>1 DEF Deleted, Picked
    <3> QED  BY <1>1, <1>4, <1>8, <2>1, <3>1 DEF DeletedAreGone
  <2> QED  BY <1>3, <2>1 DEF DeletedAreGone
<1>11. ShownAreRows'
  BY <1>1, <1>3, <1>4 DEF ShownAreRows
<1> QED  BY <1>3, <1>5, <1>9, <1>10, <1>11

\* The answer will bring all the new rows.
LEMMA RunUploadKeeps ==
  ASSUME Photos!TypeOK, Numbered, PhotosAgree, NEW n \in 1 .. MaxFiles,
         Photos!RunUpload(n)
  PROVE  PhotosAgree'
<1>1. /\ upload = << >> /\ Photos!Create(n)
      /\ UNCHANGED <<Photos!list, page, deletion, Photos!choice>>
  BY DEF Photos!RunUpload
<1>2. PICK files \in Photos!Batches(n) : upload' = files
  BY DEF Photos!RunUpload
<1>3. /\ n \in Nat \ {0} /\ next \in Nat \ {0} /\ next + n - 1 \in Photos!Photo
      /\ \A x : x \in photoRows' <=> x \in photoRows \/ x \in next .. next + n - 1
      /\ \A x \in next .. next + n - 1 : x \in Photos!Photo /\ next <= x
      /\ starts' = starts \cup {next}
  BY <1>1, CreateIs
<1>4. /\ files \in Seq(Photos!Photo)
      /\ \A x : x \in Photos!Range(files) <=> x \in next .. next + n - 1
      /\ \A i, j \in DOMAIN files : files[i] = files[j] => i = j
  BY <1>3, FilesAre
<1>5. /\ PhotosInOrder' /\ ShownAreRows' /\ PickedFromList' /\ DeletedAreGone'
      /\ \A x : ShowsPhoto(x)' <=> ShowsPhoto(x)
  BY <1>1, NewRowsKeep
<1>6. /\ \A x : ~Arriving(x)
      /\ \A x : Arriving(x)' <=> x \in next .. next + n - 1
  <2>1. files # None
    BY <1>4, PhotoBounds
  <2> QED  BY <1>1, <1>2, <1>4, <2>1 DEF Arriving, Photos!Range
<1>7. PhotosInOrder /\ PageKnows
  BY DEF PhotosAgree
<1>8. /\ photoRows \in SUBSET Photos!Photo /\ starts \in SUBSET Photos!Photo
      /\ cursor \in Photos!Photo \cup {None} /\ \A x \in Photos!Photo : x \in Nat
  BY PhotoBounds DEF Photos!TypeOK
<1>9. \A x \in photoRows : x \notin next .. next + n - 1
  <2>1. \A x \in photoRows : x \in Nat /\ x < next
    BY <1>8 DEF Numbered
  <2> QED  BY <1>3, <2>1
<1>10. (AwaitsFirstPage \/ RowsAreShown)'
  BY <1>1, <1>3, <1>5, <1>6 DEF PhotosAgree, AwaitsFirstPage, RowsAreShown, Photos!list
\* No upload starts within this one.
<1>11. Ordered(upload)'
  <2> SUFFICES ASSUME NEW i \in DOMAIN files, NEW j \in DOMAIN files, i < j,
                      NEW t \in starts', files[i] < t, t <= files[j]
               PROVE  FALSE
    <3>1. \A i, j \in DOMAIN files : i < j => files[i] # files[j]
      <4>1. \A i \in DOMAIN files : i \in Nat
        BY <1>4
      <4> QED  BY <1>4, <4>1
    <3> QED  BY <1>2, <3>1 DEF Ordered, Photos!Earlier
  <2>1. files[i] \in Nat /\ next <= files[i]
    BY <1>3, <1>4, <1>8 DEF Photos!Range
  <2>2. t \in Nat /\ t <= next
    BY <1>3, <1>8 DEF Numbered
  <2> QED  BY <1>3, <2>1, <2>2
<1>12. UploadIsNewest'
  <2>1. ASSUME NEW x \in next .. next + n - 1
        PROVE  /\ x \in photoRows' /\ (cursor # None => cursor < x)
               /\ \A y \in Photos!Photo : ShowsPhoto(y) => y < x
    <3>1. x \in Nat /\ next <= x
      BY <1>3
    <3>2. \A y \in Photos!Photo : ShowsPhoto(y) => y < x
      BY <1>3, <1>7, <1>8, <3>1 DEF PhotosInOrder
    <3>3. cursor # None => cursor < x
      BY <1>3, <1>7, <1>8, <3>1 DEF PhotosInOrder
    <3> QED  BY <1>3, <3>2, <3>3
  <2> QED  BY <1>1, <1>5, <1>6, <1>11, <2>1 DEF UploadIsNewest, Photos!list
<1>13. PageKnows'
  <2>1. ASSUME page # None, page.data # None, NEW x \in photoRows', ~Arriving(x)',
               cursor # None => x < cursor
        PROVE  \/ x \in Photos!Range(page.data)
               \/ Len(page.data) >= PageSize /\ \A y \in Photos!Range(page.data) : x < y
    <3>1. x \in photoRows /\ ~Arriving(x)
      BY <1>3, <1>6, <2>1
    <3> QED  BY <1>7, <2>1, <3>1 DEF PageKnows
  <2>2. ASSUME page # None, page.data # None
        PROVE  \A x \in Photos!Range(page.data) : x \in photoRows'
    BY <1>3, <1>7, <2>2 DEF PageKnows
  <2> QED  BY <1>1, <1>7, <2>1, <2>2 DEF PageKnows, Falls, Photos!list
<1> QED
  BY <1>1, <1>5, <1>10, <1>12, <1>13 DEF PhotosAgree, Photos!list

\* The answer goes to the head of the list.
LEMMA UploadArrivesKeeps ==
  ASSUME Photos!TypeOK, Numbered, PhotosAgree, Photos!UploadArrives, photosMishap = None,
         photosMishap' = None
  PROVE  PhotosAgree'
<1>1. /\ upload # None /\ photos' = upload \o photos /\ upload' = None
      /\ UNCHANGED <<Photos!server, hasMore, cursor, page, deletion, Photos!choice>>
  BY DEF Photos!UploadArrives, Photos!Uploaded
<1>2. ~(page # None /\ page.cursor = None)
  BY NoMishap DEF Photos!UploadArrives, Photos!Loading, Photos!Reason
<1>3. /\ PhotosInOrder /\ ShownAreRows /\ UploadIsNewest /\ PickedFromList
      /\ DeletedAreGone /\ PageKnows /\ RowsAreShown
  BY <1>2 DEF PhotosAgree, AwaitsFirstPage
<1>4. /\ photos \in Seq(Photos!Photo) /\ photoRows \in SUBSET Photos!Photo
      /\ cursor \in Photos!Photo \cup {None} /\ starts \in SUBSET Photos!Photo
      /\ upload \in Seq(Photos!Photo) /\ \A x \in Photos!Photo : x \in Int
      /\ next \in Int
  BY <1>1, PhotoBounds DEF Photos!TypeOK
<1>5. \A x \in Photos!Photo : Arriving(x) =>
        /\ x \in photoRows /\ (cursor # None => cursor < x)
        /\ \A y \in Photos!Photo : ShowsPhoto(y) => y < x
  BY <1>3 DEF UploadIsNewest
<1>6. \A x : Arriving(x) <=> x \in Photos!Range(upload)
  BY <1>1 DEF Arriving
<1>7. /\ \A x \in Photos!Range(photos) : x \in Photos!Photo /\ ShowsPhoto(x)
      /\ \A x \in Photos!Range(upload) : x \in Photos!Photo /\ Arriving(x)
  BY <1>4, <1>6 DEF Photos!Range, ShowsPhoto
<1>8. /\ \A x : ShowsPhoto(x)' <=> Arriving(x) \/ ShowsPhoto(x)
      /\ Ordered(photos')
  <2>1. \A x \in Photos!Range(upload), y \in Photos!Range(photos) : y < x
    BY <1>5, <1>7
  <2>2. Ordered(upload) /\ Ordered(photos)
    BY <1>1, <1>3 DEF UploadIsNewest, PhotosInOrder
  <2> QED  BY <1>1, <1>4, <1>6, <2>1, <2>2, ConcatIs DEF ShowsPhoto
<1>9. Ordered(photos)'
  <2>1. UNCHANGED starts
    BY <1>1 DEF Photos!server
  <2> QED  BY <1>8, <2>1 DEF Ordered, Photos!Earlier
<1>10. (\A x : Deleted(x)' <=> Deleted(x)) /\ Picked' = Picked
  BY <1>1, DeletedSame, PickedSame
<1>11. \A x : ~Arriving(x)'
  BY <1>1 DEF Arriving
<1>12. PhotosInOrder'
  <2>1. \A x \in Photos!Photo : Arriving(x) => x < next /\ (cursor # None => x >= cursor)
    BY <1>4, <1>5 DEF Numbered
  <2> QED  BY <1>1, <1>3, <1>8, <1>9, <2>1 DEF PhotosInOrder, Photos!server
<1>13. RowsAreShown' /\ ShownAreRows'
  BY <1>1, <1>3, <1>5, <1>8, <1>10 DEF RowsAreShown, ShownAreRows, Photos!server
<1>14. UploadIsNewest'
  BY <1>1, <1>11 DEF UploadIsNewest
<1>15. PickedFromList' /\ DeletedAreGone'
  BY <1>1, <1>3, <1>8, <1>10 DEF PickedFromList, DeletedAreGone, Photos!server
<1>16. PageKnows'
  <2>1. ASSUME page # None, page.data # None, NEW x \in photoRows,
               cursor # None => x < cursor
        PROVE  \/ x \in Photos!Range(page.data)
               \/ Len(page.data) >= PageSize /\ \A y \in Photos!Range(page.data) : x < y
    <3>1. cursor # None
      BY <1>2, <1>3, <2>1 DEF PageKnows
    <3>2. ~Arriving(x)
      BY <1>4, <1>5, <2>1, <3>1
    <3> QED  BY <1>3, <2>1, <3>2 DEF PageKnows
  <2> QED  BY <1>1, <1>2, <1>3, <2>1 DEF PageKnows, Falls, Photos!server
<1> QED
  BY <1>1, <1>3, <1>12, <1>13, <1>14, <1>15, <1>16 DEF PhotosAgree

\* An upload that fails without a mishap has left no rows.
LEMMA UploadFailKeeps ==
  ASSUME Photos!TypeOK, PhotosAgree, Photos!UploadFails, photosMishap = None,
         photosMishap' = None
  PROVE  PhotosAgree'
<1>1. /\ upload # None /\ upload' = None
      /\ UNCHANGED <<Photos!server, Photos!list, page, deletion, Photos!choice>>
  BY DEF Photos!UploadFails
<1>2. upload = << >>
  BY <1>1, NoMishap DEF Photos!UploadFails, Photos!Uploaded, Photos!Reason
<1>3. /\ \A x : ShowsPhoto(x)' <=> ShowsPhoto(x)
      /\ \A x : ~Arriving(x) /\ ~Arriving(x)'
      /\ \A x : Deleted(x)' <=> Deleted(x)
      /\ Picked' = Picked
      /\ Ordered(photos)' <=> Ordered(photos)
  BY <1>1, <1>2, DeletedSame, PickedSame
     DEF ShowsPhoto, Arriving, Photos!Range, Ordered, Photos!Earlier, Photos!list,
         Photos!server
<1> QED
  BY <1>1, <1>3
     DEF PhotosAgree, AwaitsFirstPage, RowsAreShown, ShownAreRows, PhotosInOrder,
         UploadIsNewest, PickedFromList, DeletedAreGone, PageKnows, Photos!server,
         Photos!list

\* The rows go: what is shown of them is about to leave the list.
LEMMA RunDeletionKeeps ==
  ASSUME Photos!TypeOK, PhotosAgree, NEW d \in Deletion, Photos!RunDeletion(d)
  PROVE  PhotosAgree'
<1> DEFINE ids == deletion[d].ids
<1>1. /\ deletion[d] # None /\ ~deletion[d].run /\ photoRows' = photoRows \ ids
      /\ deletion' = [deletion EXCEPT ![d].run = TRUE]
      /\ UNCHANGED <<next, starts, Photos!list, page, upload, Photos!choice>>
      /\ deletion \in [Deletion -> Photos!Removal \cup {None}]
      /\ deletion[d] \in Photos!Removal
  BY DEF Photos!RunDeletion, Photos!TypeOK
<1>2. /\ deletion'[d] \in Photos!Removal /\ deletion'[d].ids = ids
      /\ deletion'[d].run = TRUE
      /\ \A e \in Deletion : e # d => deletion'[e] = deletion[e]
      /\ deletion'[d] # None
  <2>1. deletion'[d] = [deletion[d] EXCEPT !.run = TRUE]
    BY <1>1
  <2>2. deletion'[d] \in Photos!Removal /\ deletion'[d].ids = ids
          /\ deletion'[d].run = TRUE
    BY <1>1, <2>1 DEF Photos!Removal
  <2>3. \A e \in Deletion : e # d => deletion'[e] = deletion[e]
    BY <1>1
  <2> QED  BY <2>2, <2>3, PhotoBounds
<1> HIDE DEF ids
<1>3. \A x : Deleted(x)' <=> Deleted(x) \/ x \in ids
  BY <1>1, <1>2 DEF Deleted, ids
<1>4. Picked' = Picked
  <2>1. \A e \in Deletion : (deletion'[e] # None <=> deletion[e] # None)
                            /\ deletion'[e].ids = deletion[e].ids
    BY <1>1, <1>2 DEF ids
  <2>2. UNION {deletion'[e].ids : e \in {f \in Deletion : deletion'[f] # None}}
          = UNION {deletion[e].ids : e \in {f \in Deletion : deletion[f] # None}}
    BY <2>1
  <2> QED  BY <1>1, <2>2 DEF Picked, Photos!choice
<1>5. /\ \A x : ShowsPhoto(x)' <=> ShowsPhoto(x)
      /\ \A x : Arriving(x)' <=> Arriving(x)
      /\ Ordered(photos)' <=> Ordered(photos)
      /\ Ordered(upload)' <=> Ordered(upload)
  BY <1>1, OrderSame DEF ShowsPhoto, Arriving, Photos!list
<1>6. /\ PhotosInOrder /\ ShownAreRows /\ PickedFromList /\ DeletedAreGone /\ PageKnows
      /\ AwaitsFirstPage \/ (RowsAreShown /\ UploadIsNewest)
  BY DEF PhotosAgree
<1>7. \A x \in ids : x \in Photos!Photo /\ (x \in photoRows => ShowsPhoto(x))
  <2>1. \A x \in ids : x \in Photos!Photo /\ x \in Picked
    BY <1>1 DEF ids, Photos!Removal, Picked
  <2> QED  BY <1>6, <2>1 DEF PickedFromList
<1>8. /\ photoRows \in SUBSET Photos!Photo /\ cursor \in Photos!Photo \cup {None}
      /\ \A x \in Photos!Photo : x \in Int
  BY PhotoBounds DEF Photos!TypeOK
<1>9. PhotosInOrder' /\ ShownAreRows' /\ PickedFromList' /\ DeletedAreGone'
  BY <1>1, <1>3, <1>4, <1>5, <1>6
     DEF PhotosInOrder, ShownAreRows, PickedFromList, DeletedAreGone, Photos!list
<1>10. UploadIsNewest => UploadIsNewest'
  <2>1. ASSUME UploadIsNewest, NEW x \in Photos!Photo, Arriving(x), x \in ids PROVE FALSE
    <3>1. x < x
      BY <1>7, <2>1 DEF UploadIsNewest
    <3> QED  BY <1>8, <3>1
  <2> QED  BY <1>1, <1>5, <2>1 DEF UploadIsNewest, Photos!list
<1>11. (AwaitsFirstPage \/ (RowsAreShown /\ UploadIsNewest))'
  BY <1>1, <1>5, <1>6, <1>10 DEF AwaitsFirstPage, RowsAreShown, Photos!list
<1>12. PageKnows'
  <2> SUFFICES ASSUME page # None PROVE PageKnows'
    BY <1>1 DEF PageKnows
  <2>1. /\ hasMore /\ page.cursor = cursor
        /\ page.cursor = None => photos = << >>
    BY <1>6 DEF PageKnows
  <2>2. ASSUME NEW x \in photoRows, cursor # None => x < cursor PROVE x \notin ids
    <3> SUFFICES ASSUME x \in ids PROVE FALSE
      OBVIOUS
    <3>1. ShowsPhoto(x)
      BY <1>7
    <3>2. cursor # None
      BY <2>1, <3>1 DEF ShowsPhoto, Photos!Range
    <3>3. x >= cursor /\ x \in Int /\ cursor \in Int
      BY <1>6, <1>8, <3>1, <3>2 DEF PhotosInOrder
    <3> QED  BY <2>2, <3>2, <3>3
  <2>3. ASSUME page.data # None, NEW x \in Photos!Range(page.data)
        PROVE  x \in photoRows \ ids /\ (cursor # None => x < cursor)
    BY <1>6, <2>2, <2>3 DEF PageKnows
  <2> QED  BY <1>1, <1>5, <1>6, <2>1, <2>3 DEF PageKnows, Falls, Photos!list
<1> QED
  BY <1>1, <1>6, <1>9, <1>11, <1>12 DEF PhotosAgree, Photos!list

\* A deletion is over: what it has named is no longer chosen for it.
LEMMA DeletionOver ==
  ASSUME Photos!TypeOK, NEW d \in Deletion, deletion' = [deletion EXCEPT ![d] = None],
         UNCHANGED Photos!choice
  PROVE  /\ Picked' \subseteq Picked
         /\ \A x : Deleted(x)' => Deleted(x)
         /\ \A x : Deleted(x) => Deleted(x)' \/ (deletion[d].run /\ x \in deletion[d].ids)
<1>1. deletion'[d] = None /\ \A e \in Deletion : e # d => deletion'[e] = deletion[e]
  BY DEF Photos!TypeOK
<1>2. \A x : Deleted(x)' => Deleted(x)
  BY <1>1 DEF Deleted
<1>3. \A x : Deleted(x) => Deleted(x)' \/ (deletion[d].run /\ x \in deletion[d].ids)
  BY <1>1 DEF Deleted
<1>4. Picked' \subseteq Picked
  <2>1. \A e \in Deletion : deletion'[e] # None =>
          deletion[e] # None /\ deletion'[e].ids = deletion[e].ids
    BY <1>1
  <2> QED  BY <2>1 DEF Picked, Photos!choice
<1> QED  BY <1>2, <1>3, <1>4

\* What was deleted leaves the list.
LEMMA DeletionArrivesKeeps ==
  ASSUME Photos!TypeOK, Numbered, PhotosAgree, NEW d \in Deletion, Photos!DeletionArrives(d)
  PROVE  PhotosAgree'
<1> DEFINE ids == deletion[d].ids
<1>1. /\ deletion[d] # None /\ deletion[d].run
      /\ photos' = Photos!Kept(photos, {i \in DOMAIN photos : photos[i] \notin ids})
      /\ deletion' = [deletion EXCEPT ![d] = None]
      /\ UNCHANGED <<Photos!server, hasMore, cursor, page, upload, Photos!choice>>
      /\ photos \in Seq(Photos!Photo) /\ photoRows \in SUBSET Photos!Photo
      /\ deletion[d] \in Photos!Removal
  BY DEF Photos!DeletionArrives, Photos!TypeOK
<1>2. /\ \A x : ShowsPhoto(x)' <=> ShowsPhoto(x) /\ x \notin ids
      /\ Ordered(photos) => Ordered(photos')
  <2> DEFINE t == Photos!Kept(photos, {i \in DOMAIN photos : photos[i] \notin ids})
  <2>1. /\ \A x : x \in Photos!Range(t) <=> x \in Photos!Range(photos) /\ x \notin ids
        /\ Ordered(photos) => Ordered(t)
    <3> HIDE DEF ids
    <3> QED  BY <1>1, FilterIs
  <2>2. photos' = t
    BY <1>1
  <2> HIDE DEF t
  <2> QED  BY <2>1, <2>2 DEF ShowsPhoto
<1>3. /\ \A x \in Picked' : x \in Picked
      /\ \A x : Deleted(x)' => Deleted(x)
      /\ \A x : Deleted(x) => Deleted(x)' \/ x \in ids
  BY <1>1, DeletionOver
<1>4. /\ PhotosInOrder /\ ShownAreRows /\ PickedFromList /\ DeletedAreGone /\ PageKnows
      /\ AwaitsFirstPage \/ (RowsAreShown /\ UploadIsNewest)
  BY DEF PhotosAgree
<1>5. \A x \in ids : x \in Photos!Photo /\ x \notin photoRows /\ x < next
  <2>1. \A x \in ids : x \in Photos!Photo /\ x \in Picked /\ Deleted(x)
    BY <1>1 DEF Photos!Removal, Picked, Deleted
  <2> HIDE DEF ids
  <2> QED  BY <1>4, <2>1 DEF DeletedAreGone, PickedFromList, PhotosInOrder
<1> HIDE DEF ids
<1>6. /\ Ordered(photos) => Ordered(photos)'
      /\ Ordered(upload)' <=> Ordered(upload)
      /\ \A x : Arriving(x)' <=> Arriving(x)
  <2>1. UNCHANGED <<upload, starts>>
    BY <1>1 DEF Photos!server
  <2> QED  BY <1>2, <2>1 DEF Ordered, Photos!Earlier, Arriving
<1>7. /\ PhotosInOrder' /\ ShownAreRows' /\ PickedFromList' /\ DeletedAreGone'
      /\ UploadIsNewest => UploadIsNewest'
  BY <1>1, <1>2, <1>3, <1>4, <1>5, <1>6
     DEF PhotosInOrder, ShownAreRows, UploadIsNewest, PickedFromList, DeletedAreGone,
         Photos!server
<1>8. (AwaitsFirstPage \/ (RowsAreShown /\ UploadIsNewest))'
  BY <1>1, <1>2, <1>4, <1>5, <1>6, <1>7 DEF AwaitsFirstPage, RowsAreShown, Photos!server
<1>9. page # None /\ page.cursor = None => photos' = << >>
  <2> SUFFICES ASSUME photos = << >> PROVE photos' = << >>
    BY <1>4 DEF PageKnows
  <2>1. photos' \in Seq(Photos!Photo)
    BY <1>1, FilterIs
  <2>2. \A i \in DOMAIN photos' : FALSE
    BY <1>2 DEF ShowsPhoto, Photos!Range
  <2>3. ASSUME NEW s \in Seq(Photos!Photo), \A i \in DOMAIN s : FALSE PROVE s = << >>
    <3>1. DOMAIN s = 1 .. Len(s) /\ Len(s) \in Nat
      OBVIOUS
    <3>2. ~(1 \in 1 .. Len(s))
      BY <2>3, <3>1
    <3> QED  BY <3>1, <3>2
  <2> QED  BY <2>1, <2>2, <2>3
<1>10. PageKnows'
  BY <1>1, <1>4, <1>6, <1>9 DEF PageKnows, Falls, Photos!server
<1> QED
  BY <1>1, <1>4, <1>7, <1>8, <1>10 DEF PhotosAgree

\* A deletion that fails without a mishap has removed no row.
LEMMA DeletionFailKeeps ==
  ASSUME Photos!TypeOK, PhotosAgree, NEW d \in Deletion, Photos!DeletionFails(d),
         photosMishap = None, photosMishap' = None
  PROVE  PhotosAgree'
<1>1. /\ deletion[d] # None /\ deletion' = [deletion EXCEPT ![d] = None]
      /\ UNCHANGED <<Photos!server, Photos!list, page, upload, Photos!choice>>
      /\ deletion[d] \in Photos!Removal
  BY DEF Photos!DeletionFails, Photos!TypeOK
<1>2. ~deletion[d].run
  <2>1. deletion[d].run \in BOOLEAN
    BY <1>1 DEF Photos!Removal
  <2> QED  BY <2>1, NoMishap DEF Photos!DeletionFails, Photos!Reason
<1>3. /\ \A x \in Picked' : x \in Picked
      /\ \A x : Deleted(x)' <=> Deleted(x)
  BY <1>1, <1>2, DeletionOver
<1> QED  BY <1>1, <1>3, PickKeeps

\* What was left behind runs before the first page is read, or removes nothing.
LEMMA LeftKeeps ==
  ASSUME Photos!TypeOK, Numbered, PhotosAgree, photosMishap = None, photosMishap' = None,
         Photos!RunLeftDeletion \/ \E n \in 1 .. MaxFiles : Photos!RunLeftUpload(n)
  PROVE  PhotosAgree'
<1>1. ASSUME page = Photos!FirstPage, UNCHANGED <<Photos!list, page, deletion>>,
             PhotosInOrder', ShownAreRows', PickedFromList', DeletedAreGone'
      PROVE  PhotosAgree'
  <2>1. page # None /\ page.cursor = None /\ page.data = None
    <3>1. page \in Photos!Fetch
      BY <1>1 DEF Photos!FirstPage, Photos!Fetch
    <3> QED  BY <1>1, <3>1, PhotoBounds DEF Photos!FirstPage
  <2>2. AwaitsFirstPage'
    BY <1>1, <2>1 DEF AwaitsFirstPage
  <2>3. PageKnows'
    BY <1>1, <2>1 DEF PhotosAgree, PageKnows, Photos!list
  <2> QED  BY <1>1, <2>1, <2>2, <2>3 DEF PhotosAgree
<1>2. ASSUME NEW n \in 1 .. MaxFiles, Photos!RunLeftUpload(n) PROVE PhotosAgree'
  <2>1. /\ Photos!Create(n)
        /\ UNCHANGED <<Photos!list, page, upload, deletion, Photos!choice>>
    BY <1>2 DEF Photos!RunLeftUpload
  <2>2. page = Photos!FirstPage
    BY <1>2, NoMishap DEF Photos!RunLeftUpload, Photos!FirstRead, Photos!Reason
  <2>3. PhotosInOrder' /\ ShownAreRows' /\ PickedFromList' /\ DeletedAreGone'
    BY <2>1, NewRowsKeep
  <2> QED  BY <1>1, <2>1, <2>2, <2>3
<1>3. CASE Photos!RunLeftDeletion
  <2>1. /\ photoRows' = photoRows \ photosLeft.ids
        /\ UNCHANGED <<next, starts, Photos!list, page, upload, deletion, Photos!choice>>
    BY <1>3 DEF Photos!RunLeftDeletion
  <2>2. page = Photos!FirstPage \/ photoRows' = photoRows
    BY <1>3, NoMishap DEF Photos!RunLeftDeletion, Photos!FirstRead, Photos!Reason
  <2>3. CASE photoRows' = photoRows
    BY <2>1, <2>3, DeletedSame, PickedSame, PickKeeps DEF Photos!server
  <2>4. CASE page = Photos!FirstPage
    <3>1. page # None /\ page.cursor = None
      <4>1. page \in Photos!Fetch
        BY <2>4 DEF Photos!FirstPage, Photos!Fetch
      <4> QED  BY <2>4, <4>1, PhotoBounds DEF Photos!FirstPage
    <3>2. photos = << >>
      BY <3>1 DEF PhotosAgree, PageKnows
    <3>3. \A x : ~ShowsPhoto(x) /\ ~ShowsPhoto(x)'
      BY <2>1, <3>2 DEF ShowsPhoto, Photos!Range, Photos!list
    <3>4. /\ \A x : Deleted(x)' <=> Deleted(x)
          /\ Picked' = Picked
          /\ Ordered(photos)' <=> Ordered(photos)
      BY <2>1, DeletedSame, PickedSame, OrderSame DEF Photos!list
    <3>5. PhotosInOrder' /\ ShownAreRows' /\ PickedFromList' /\ DeletedAreGone'
      BY <2>1, <3>3, <3>4
         DEF PhotosAgree, PhotosInOrder, ShownAreRows, PickedFromList, DeletedAreGone,
             Photos!list
    <3> QED  BY <1>1, <2>1, <2>4, <3>5
  <2> QED  BY <2>2, <2>3, <2>4
<1> QED  BY <1>2, <1>3

\* ... it is inductive ...
LEMMA PhotosNext ==
  ASSUME PhotosInv, Photos!Next
  PROVE  PhotosInv'
<1>1. Photos!TypeOK' /\ Numbered'
  BY PhotosTyped DEF PhotosInv
<1>2. CASE Photos!Remount
  <2>1. Mounted'
    BY <1>2 DEF Photos!Remount, Mounted
  <2>2. Mounted' => PhotosAgree'
    BY MountedAgrees, PTL
  <2> QED  BY <1>1, <2>1, <2>2 DEF PhotosInv
<1>3. CASE ~Photos!Remount
  <2> SUFFICES ASSUME photosMishap' = None PROVE PhotosAgree'
    BY <1>1 DEF PhotosInv
  <2>1. photosMishap = None
    BY <1>3
       DEF Photos!Next, Photos!FindMany, Photos!LoadMore, Photos!PageArrives,
           Photos!PageFails, Photos!StartUpload, Photos!RunUpload, Photos!UploadArrives,
           Photos!UploadFails, Photos!Click, Photos!PartnerDeletes, Photos!EnterSelect,
           Photos!ExitSelect, Photos!Back, Photos!PartnerUploads, Photos!DeleteSelected,
           Photos!DeleteActive, Photos!Delete, Photos!RunDeletion, Photos!DeletionArrives,
           Photos!DeletionFails, Photos!RunLeftUpload, Photos!RunLeftDeletion, Photos!Note
  <2>2. Photos!TypeOK /\ Numbered /\ PhotosAgree
    BY <2>1 DEF PhotosInv
  <2>3. /\ \A n \in 1 .. MaxFiles : ~Photos!PartnerUploads(n)
        /\ \A x \in Photos!Photo : ~Photos!PartnerDeletes(x)
    BY <2>1, PhotoBounds
       DEF Photos!PartnerUploads, Photos!PartnerDeletes, Photos!Note, Photos!Reason
  <2> QED
    BY <1>3, <2>1, <2>2, <2>3, LoadKeeps, FindManyKeeps, PageKeeps, PageFailKeeps,
       StartUploadKeeps, RunUploadKeeps, UploadArrivesKeeps, UploadFailKeeps, PicksKeep,
       RunDeletionKeeps, DeletionArrivesKeeps, DeletionFailKeeps, LeftKeeps
       DEF Photos!Next
<1> QED  BY <1>2, <1>3

\* What the photos do not change keeps their invariant.
LEMMA PhotosRest ==
  ASSUME PhotosInv, UNCHANGED photoTab
  PROVE  PhotosInv'
<1>1. UNCHANGED <<photoRows, next, starts, photos, hasMore, cursor, page, upload, deletion,
                  photosLeft, selectMode, selectedIds, activePhoto, photosMishap>>
  BY DEF photoTab
<1>2. Photos!TypeOK' /\ Numbered'
  BY <1>1 DEF PhotosInv, Photos!TypeOK, Numbered
<1>3. PhotosAgree => PhotosAgree'
  <2>1. UNCHANGED <<Photos!server, Photos!list, page, upload, deletion, Photos!choice>>
    BY <1>1 DEF Photos!server, Photos!list, Photos!choice
  <2> QED  BY <2>1, DeletedSame, PickedSame, PickKeeps
<1> QED  BY <1>1, <1>2, <1>3 DEF PhotosInv

\* ... and once nothing is under way, it is PhotosAreRows.
LEMMA PhotosShow == PhotosInv => Photos!PhotosAreRows
<1> SUFFICES ASSUME PhotosInv, page = None, upload = None, photosMishap = None,
                    deletion = [d \in Deletion |-> None]
             PROVE  /\ Photos!Range(photos) = {x \in photoRows : cursor = None \/ x >= cursor}
                    /\ Ordered(photos)
                    /\ ~hasMore => Photos!Range(photos) = photoRows
  BY DEF Photos!PhotosAreRows, Ordered
<1>1. Photos!TypeOK /\ RowsAreShown /\ ShownAreRows /\ PhotosInOrder
  BY DEF PhotosInv, PhotosAgree, AwaitsFirstPage
<1>2. \A x : ~Deleted(x) /\ ~Arriving(x)
  BY DEF Deleted, Arriving
<1>3. ASSUME NEW x, x \in Photos!Range(photos)
      PROVE  x \in photoRows /\ (cursor = None \/ x >= cursor)
  <2>1. x \in Photos!Photo /\ ShowsPhoto(x)
    BY <1>1, <1>3 DEF Photos!TypeOK, Photos!Range, ShowsPhoto
  <2> QED  BY <1>1, <1>2, <2>1 DEF ShownAreRows, PhotosInOrder
<1>4. ASSUME NEW x \in photoRows, ~hasMore \/ cursor = None \/ x >= cursor
      PROVE  x \in Photos!Range(photos)
  BY <1>1, <1>2, <1>4 DEF RowsAreShown, ShowsPhoto
<1>5. Ordered(photos)
  BY <1>1 DEF PhotosInOrder
<1> QED  BY <1>3, <1>4, <1>5

-----------------------------------------------------------------------------
\* The calendar: the list is the rows of the month but for the writes under way,
\* as long as no mishap was noted.
IsFetch(r) == eventCall[r] # None /\ eventCall[r].kind = "fetch"
IsWrite(r) == eventCall[r] # None /\ eventCall[r].kind \in Calendar!Changes

\* A write that has been done but not answered, and the ids of such writes
Done(r) == IsWrite(r) /\ eventCall[r].run
Changing(id) == \E w \in Request : Done(w) /\ eventCall[w].event.id = id

\* A write names a proper event, and its id once it has one.
CallsTyped ==
  \A w \in Request : IsWrite(w) =>
    /\ eventCall[w].run \/ eventCall[w].kind = "delete" =>
         eventCall[w].event \in Calendar!Shown
    /\ eventCall[w].kind = "update" => eventCall[w].event.id \in Event

\* Ids that the page knows are not free any more.
IdsTaken ==
  /\ \A e \in Calendar!Range(events) : rows[e.id] # None
  /\ \A r \in Request : IsFetch(r) =>
       \A e \in Calendar!Range(eventCall[r].data) : rows[e.id] # None
  /\ \A w \in Request : Done(w) => rows[eventCall[w].event.id] # None

\* An undisturbed write is what the row says, and the only one.
WritesStand ==
  \A w \in Request : Done(w) /\ eventCall[w].since = None =>
    /\ rows[eventCall[w].event.id] =
         IF eventCall[w].kind = "delete" THEN Gone ELSE Calendar!Row(eventCall[w].event)
    /\ \A v \in Request :
         /\ Done(v) /\ eventCall[v].since = None
         /\ eventCall[v].event.id = eventCall[w].event.id
         => v = w

\* A list has the rows of a month, but for those that a write is changing.
ListHas(s, m) ==
  /\ \A i, j \in DOMAIN s : s[i].id = s[j].id => i = j
  /\ \A e \in Calendar!Shown : ~Changing(e.id) /\ Calendar!Month(e.at) = m =>
       (e \in Calendar!Range(s) <=> rows[e.id] = Calendar!Row(e))

\* An event has been created and its answer will add it to the list.
Created(w) == Done(w) /\ eventCall[w].kind = "create" /\ eventCall[w].since = None

\* An undisturbed fetch has the rows of its month, the created one included.
FetchesMatch ==
  \A r \in Request : IsFetch(r) /\ eventCall[r].run /\ eventCall[r].since = None =>
    /\ ListHas(eventCall[r].data, eventCall[r].month)
    /\ \A w \in Request : Created(w) =>
         \A e \in Calendar!Range(eventCall[r].data) : e.id = eventCall[w].event.id =>
           e = eventCall[w].event

\* The list has the rows of its month unless a fetch of them is under way, and
\* what the answer of a create will add is not in it.
AwaitsMonth == \E r \in Request : IsFetch(r) /\ eventCall[r].month = currentMonth
ListMatches ==
  eventsMishap = None /\ ~AwaitsMonth =>
    /\ ListHas(events, currentMonth)
    /\ \A w \in Request : Created(w) => ~Calendar!Listed(eventCall[w].event.id)

CalendarInv ==
  Calendar!TypeOK /\ CallsTyped /\ IdsTaken /\ WritesStand /\ FetchesMatch /\ ListMatches

\* The operators of Lists and FiniteSets are the same in the instance.
LEMMA SameCalendarLists ==
  /\ \A S : Calendar!Sorted(S) = Sorted(S)
  /\ \A s, S : Calendar!Kept(s, S) = Kept(s, S)
  /\ \A S : Calendar!Cardinality(S) = Cardinality(S)
<1>1. \A S : Calendar!Cardinality(S) = Cardinality(S)
  BY DEF Calendar!Cardinality, Cardinality
<1>2. ASSUME NEW S PROVE Calendar!Sorted(S) = Sorted(S)
  <2> DEFINE f(i) == CHOOSE x \in S : Calendar!Cardinality({y \in S : y < x}) = i - 1
             g(i) == CHOOSE x \in S : Cardinality({y \in S : y < x}) = i - 1
  <2>1. \A i : f(i) = g(i)
    <3>1. \A x, i : (Calendar!Cardinality({y \in S : y < x}) = i - 1)
                     = (Cardinality({y \in S : y < x}) = i - 1)
      BY <1>1
    <3> QED  BY ONLY <3>1, Zenon
  <2> HIDE DEF f, g
  <2>2. [i \in 1 .. Calendar!Cardinality(S) |-> f(i)] = [i \in 1 .. Cardinality(S) |-> g(i)]
    BY <1>1, <2>1
  <2> QED  BY <2>2 DEF f, g, Calendar!Sorted, Sorted
<1>3. \A s, S : Calendar!Kept(s, S) = Kept(s, S)
  BY <1>1, <1>2 DEF Calendar!Kept, Kept
<1> QED  BY <1>1, <1>2, <1>3

\* What the assumption says of the constants of the calendar
LEMMA CalendarBounds ==
  /\ Calendar!Time \in SUBSET Int /\ 0 \in Calendar!Months /\ Offset \in Int
  /\ IsFiniteSet(Event)
  /\ None # Gone /\ None \notin Calendar!Content /\ Gone \notin Calendar!Content
  /\ None \notin Event /\ None \notin Calendar!Days /\ None \notin Calendar!Shown
  /\ None \notin Calendar!FetchCall /\ None \notin Calendar!WriteCall
  /\ None \notin Calendar!Reasons
<1>1. Hours \in Nat \ {0} /\ MonthHours \in Nat \ {0} /\ Offset \in Int
        /\ IsFiniteSet(Event)
  BY TabsAssumption
<1>2. Calendar!Time \in SUBSET Int /\ 0 \in Calendar!Time
  BY <1>1 DEF Calendar!Time
<1>3. Calendar!Month(0) = 0
  <2>1. \A n \in Nat \ {0} : 0 \div n = 0
    OBVIOUS
  <2> QED  BY <1>1, <2>1 DEF Calendar!Month
<1>4. 0 \in Calendar!Months
  BY <1>2, <1>3 DEF Calendar!Months
<1> QED  BY <1>1, <1>2, <1>4, TabsAssumption DEF Calendar!NoneIsApart

\* An event and its row say the same.
LEMMA RowIs ==
  ASSUME Calendar!TypeOK, NEW e \in Calendar!Shown
  PROVE  /\ Calendar!Row(e) \in Calendar!Content /\ Calendar!Row(e) # None
         /\ Calendar!Row(e) # Gone
         /\ rows[e.id] = Calendar!Row(e) <=>
           Calendar!IsRow(e.id) /\ rows[e.id].at = e.at /\ rows[e.id].text = e.text
<1>1. Calendar!Row(e) \in Calendar!Content /\ e.id \in Event
  BY DEF Calendar!Row, Calendar!Content, Calendar!Shown
<1>2. rows[e.id] \in Calendar!Content \cup {None, Gone}
  BY <1>1 DEF Calendar!TypeOK
<1>3. Calendar!Row(e) # None /\ Calendar!Row(e) # Gone
  BY <1>1, CalendarBounds
<1>4. \A c \in Calendar!Content : c = Calendar!Row(e) <=> c.at = e.at /\ c.text = e.text
  BY DEF Calendar!Content, Calendar!Row
<1> QED  BY <1>1, <1>2, <1>3, <1>4, CalendarBounds DEF Calendar!IsRow

\* The events of a month are its rows, at most one of each id, and finitely many.
LEMMA RowsAre ==
  ASSUME Calendar!TypeOK, NEW m
  PROVE  /\ Calendar!RowsOf(m) \in SUBSET Calendar!Shown
         /\ \A e \in Calendar!Shown : e \in Calendar!RowsOf(m) <=>
           Calendar!Month(e.at) = m /\ rows[e.id] = Calendar!Row(e)
         /\ \A e, f \in Calendar!RowsOf(m) : e.id = f.id => e = f
         /\ IsFiniteSet(Calendar!RowsOf(m))
<1> DEFINE E == {e \in Event : Calendar!IsRow(e) /\ Calendar!Month(rows[e].at) = m}
           entry == [e \in E |-> [id |-> e, at |-> rows[e].at, text |-> rows[e].text]]
<1>1. \A e \in E : rows[e] \in Calendar!Content
  BY DEF Calendar!TypeOK, Calendar!IsRow
<1>2. Calendar!RowsOf(m) = {entry[e] : e \in E}
  BY DEF Calendar!RowsOf
<1>3. \A e \in E : entry[e] \in Calendar!Shown /\ entry[e].id = e
        /\ entry[e].at = rows[e].at
        /\ entry[e].text = rows[e].text
  BY <1>1 DEF Calendar!Content, Calendar!Shown
<1>4. Calendar!RowsOf(m) \in SUBSET Calendar!Shown
  BY <1>2, <1>3
<1>5. ASSUME NEW e \in Calendar!Shown
      PROVE  e \in Calendar!RowsOf(m) <=>
               Calendar!Month(e.at) = m /\ rows[e.id] = Calendar!Row(e)
  <2>1. ASSUME e \in Calendar!RowsOf(m)
        PROVE  Calendar!Month(e.at) = m /\ rows[e.id] = Calendar!Row(e)
    <3>1. PICK f \in E : e = entry[f]
      BY <1>2, <2>1
    <3>2. e.id = f /\ e.at = rows[f].at /\ e.text = rows[f].text
      BY <1>3, <3>1
    <3> QED  BY <3>2, RowIs
  <2>2. ASSUME Calendar!Month(e.at) = m, rows[e.id] = Calendar!Row(e)
        PROVE  e \in Calendar!RowsOf(m)
    <3>1. Calendar!IsRow(e.id) /\ rows[e.id].at = e.at /\ rows[e.id].text = e.text
      BY <2>2, RowIs
    <3>2. e.id \in E
      BY <2>2, <3>1 DEF Calendar!Shown
    <3>3. entry[e.id] = e
      BY <3>1, <3>2 DEF Calendar!Shown
    <3> QED  BY <1>2, <3>2, <3>3
  <2> QED  BY <2>1, <2>2
<1>6. \A e, f \in Calendar!RowsOf(m) : e.id = f.id => e = f
  BY <1>2, <1>3
<1>7. IsFiniteSet(Calendar!RowsOf(m))
  <2>1. IsFiniteSet(E)
    BY CalendarBounds, FS_Subset
  <2>2. entry \in Surjection(E, Calendar!RowsOf(m))
    <3>1. entry \in [E -> Calendar!RowsOf(m)]
      BY <1>2
    <3>2. \A t \in Calendar!RowsOf(m) : \E e \in E : entry[e] = t
      BY <1>2
    <3> HIDE DEF entry, E
    <3> QED  BY <3>1, <3>2 DEF Surjection
  <2> HIDE DEF entry, E
  <2> QED  BY <2>1, <2>2, FS_Surjection
<1> QED  BY <1>4, <1>5, <1>6, <1>7

\* An order of a finite set is a sequence of all its elements, each once.
LEMMA OrderIs ==
  ASSUME NEW S, IsFiniteSet(S), NEW s \in Calendar!SetToSeqs(S)
  PROVE  /\ s \in Seq(S)
         /\ \A x \in S : x \in Calendar!Range(s)
         /\ \A i, j \in DOMAIN s : s[i] = s[j] => i = j
<1> DEFINE n == Cardinality(S)
<1>1. n \in Nat
  BY FS_CardinalityType
<1>2. s \in [1 .. n -> S] /\ \A i, j \in 1 .. n : i # j => s[i] # s[j]
  <2>1. Calendar!Cardinality(S) = n
    BY SameCalendarLists
  <2> HIDE DEF n
  <2> QED  BY <2>1, Zenon DEF Calendar!SetToSeqs
<1> HIDE DEF n
<1>3. s \in Injection(1 .. n, S)
  BY <1>2 DEF Injection, IsInjective
<1>4. IsFiniteSet(1 .. n) /\ Cardinality(1 .. n) = n
  BY <1>1, FS_Interval
<1>5. s \in Surjection(1 .. n, S)
  BY <1>3, <1>4, FS_Injection DEF n
<1>6. s \in Seq(S)
  BY <1>1, <1>2
<1>7. \A x \in S : x \in Calendar!Range(s)
  BY <1>2, <1>5 DEF Surjection, Calendar!Range
<1> QED  BY <1>2, <1>6, <1>7

\* What findByMonth returns: the rows of the month, each once
LEMMA FindIs ==
  ASSUME Calendar!TypeOK, NEW m, NEW s \in Calendar!FindByMonth(m)
  PROVE  /\ s \in Seq(Calendar!Shown)
         /\ \A i, j \in DOMAIN s : s[i].id = s[j].id => i = j
         /\ \A e \in Calendar!Shown : e \in Calendar!Range(s) <=>
           Calendar!Month(e.at) = m /\ rows[e.id] = Calendar!Row(e)
         /\ \A e \in Calendar!Range(s) : e \in Calendar!Shown
<1> DEFINE S == Calendar!RowsOf(m)
<1>1. /\ S \in SUBSET Calendar!Shown /\ IsFiniteSet(S)
      /\ \A e \in Calendar!Shown : e \in S <=>
        Calendar!Month(e.at) = m /\ rows[e.id] = Calendar!Row(e)
      /\ \A e, f \in S : e.id = f.id => e = f
  BY RowsAre
<1>2. s \in Calendar!SetToSeqs(S)
  BY DEF Calendar!FindByMonth
<1> HIDE DEF S
<1>3. /\ s \in Seq(S) /\ \A x \in S : x \in Calendar!Range(s)
      /\ \A i, j \in DOMAIN s : s[i] = s[j] => i = j
  BY <1>1, <1>2, OrderIs
<1>4. Len(s) \in Nat /\ DOMAIN s = 1 .. Len(s) /\ s \in [1 .. Len(s) -> S]
  BY <1>3
<1>5. s \in Seq(Calendar!Shown)
  <2>1. s \in [1 .. Len(s) -> Calendar!Shown]
    BY <1>1, <1>4
  <2> QED  BY <1>4, <2>1
<1>6. \A e \in Calendar!Range(s) : e \in S
  BY <1>4 DEF Calendar!Range
<1>7. \A i, j \in DOMAIN s : s[i].id = s[j].id => i = j
  BY <1>1, <1>3, <1>4
<1> QED  BY <1>1, <1>3, <1>5, <1>6, <1>7

\* A filter by a condition on the ids
LEMMA DayIs ==
  ASSUME Calendar!TypeOK, NEW d
  PROVE  Calendar!OnDay(d) \in Seq(Calendar!Shown)
<1>1. events \in Seq(Calendar!Shown)
  BY DEF Calendar!TypeOK
<1>2. {i \in DOMAIN events : Calendar!Day(events[i].at) = d} \in SUBSET DOMAIN events
  OBVIOUS
<1> QED  BY <1>1, <1>2, KeptIs, SameCalendarLists DEF Calendar!OnDay

\* A request is a fetch or a write.
LEMMA CallKindIs ==
  ASSUME Calendar!TypeOK, NEW r \in Request
  PROVE  /\ IsFetch(r) => eventCall[r] \in Calendar!FetchCall
         /\ IsWrite(r) => eventCall[r] \in Calendar!WriteCall
         /\ eventCall[r] # None => IsFetch(r) \/ IsWrite(r)
         /\ ~(IsFetch(r) /\ IsWrite(r))
<1>1. eventCall[r] \in Calendar!FetchCall \cup Calendar!WriteCall \cup {None}
  BY DEF Calendar!TypeOK
<1>2. \A c \in Calendar!FetchCall : c.kind = "fetch" /\ c.kind \notin Calendar!Changes
  BY DEF Calendar!FetchCall, Calendar!Changes
<1>3. \A c \in Calendar!WriteCall : c.kind # "fetch" /\ c.kind \in Calendar!Changes
  BY DEF Calendar!WriteCall, Calendar!Changes
<1>4. \A k \in Calendar!Changes : k # "fetch"
  BY DEF Calendar!Changes
<1> QED  BY <1>1, <1>2, <1>3, <1>4 DEF IsFetch, IsWrite

\* What noting a reason changes: only since, and only of answered calls in S
LEMMA NoteIs ==
  ASSUME Calendar!TypeOK, NEW S \in SUBSET Request, NEW x \in Calendar!Reasons, NEW cs,
         cs = Calendar!Note(eventCall, S, x)
  PROVE  /\ cs \in [Request -> Calendar!FetchCall \cup Calendar!WriteCall \cup {None}]
         /\ \A r \in Request :
              /\ cs[r] = eventCall[r]
                \/ (r \in S /\ eventCall[r] # None /\ eventCall[r].run /\ cs[r].since = x)
              /\ r \in S /\ eventCall[r] # None /\ eventCall[r].run => cs[r].since = x
              /\ eventCall[r] = None <=> cs[r] = None
              /\ IsFetch(r) => /\ cs[r] \in Calendar!FetchCall
                               /\ cs[r].month = eventCall[r].month
                               /\ cs[r].run = eventCall[r].run
                               /\ cs[r].data = eventCall[r].data
              /\ IsWrite(r) => /\ cs[r] \in Calendar!WriteCall
                               /\ cs[r].kind = eventCall[r].kind
                               /\ cs[r].run = eventCall[r].run
                               /\ cs[r].event = eventCall[r].event
<1>1. ASSUME NEW r \in Request
      PROVE  cs[r] = IF r \in S /\ eventCall[r] # None /\ eventCall[r].run
                     THEN [eventCall[r] EXCEPT !.since = x] ELSE eventCall[r]
  BY DEF Calendar!Note
<1>2. \A c \in Calendar!FetchCall : LET d == [c EXCEPT !.since = x]
                                    IN  /\ d \in Calendar!FetchCall
                                             /\ d.month = c.month /\ d.run = c.run
                                        /\ d.data = c.data /\ d.since = x
  BY DEF Calendar!FetchCall, Calendar!Mishap
<1>3. \A c \in Calendar!WriteCall : LET d == [c EXCEPT !.since = x]
                                    IN  /\ d \in Calendar!WriteCall /\ d.kind = c.kind
                                             /\ d.run = c.run
                                        /\ d.event = c.event /\ d.since = x
  BY DEF Calendar!WriteCall, Calendar!Mishap
<1>4. ASSUME NEW r \in Request
      PROVE  /\ cs[r] \in Calendar!FetchCall \cup Calendar!WriteCall \cup {None}
             /\ cs[r] = eventCall[r]
               \/ (r \in S /\ eventCall[r] # None /\ eventCall[r].run /\ cs[r].since = x)
             /\ r \in S /\ eventCall[r] # None /\ eventCall[r].run => cs[r].since = x
             /\ eventCall[r] = None <=> cs[r] = None
             /\ IsFetch(r) => /\ cs[r] \in Calendar!FetchCall
                              /\ cs[r].month = eventCall[r].month
                              /\ cs[r].run = eventCall[r].run
                              /\ cs[r].data = eventCall[r].data
             /\ IsWrite(r) => /\ cs[r] \in Calendar!WriteCall
                              /\ cs[r].kind = eventCall[r].kind
                              /\ cs[r].run = eventCall[r].run
                              /\ cs[r].event = eventCall[r].event
  <2>1. CASE r \in S /\ eventCall[r] # None /\ eventCall[r].run
    <3>1. cs[r] = [eventCall[r] EXCEPT !.since = x]
      BY <1>1, <2>1
    <3>2. CASE IsFetch(r)
      <4> DEFINE d == [eventCall[r] EXCEPT !.since = x]
      <4>1. eventCall[r] \in Calendar!FetchCall /\ ~IsWrite(r)
        BY <3>2, CallKindIs
      <4>2. /\ d \in Calendar!FetchCall
            /\ d.month = eventCall[r].month /\ d.run = eventCall[r].run
            /\ d.data = eventCall[r].data /\ d.since = x
        BY <1>2, <4>1
      <4>3. cs[r] = d
        BY <3>1
      <4> HIDE DEF d
      <4>4. d # None
        BY <4>2, CalendarBounds
      <4> QED  BY <2>1, <4>1, <4>2, <4>3, <4>4
    <3>3. CASE IsWrite(r)
      <4> DEFINE d == [eventCall[r] EXCEPT !.since = x]
      <4>1. eventCall[r] \in Calendar!WriteCall /\ ~IsFetch(r)
        BY <3>3, CallKindIs
      <4>2. /\ d \in Calendar!WriteCall /\ d.kind = eventCall[r].kind
            /\ d.run = eventCall[r].run
            /\ d.event = eventCall[r].event /\ d.since = x
        BY <1>3, <4>1
      <4>3. cs[r] = d
        BY <3>1
      <4> HIDE DEF d
      <4>4. d # None
        BY <4>2, CalendarBounds
      <4> QED  BY <2>1, <4>1, <4>2, <4>3, <4>4
    <3> QED  BY <2>1, <3>2, <3>3, CallKindIs
  <2>2. CASE ~(r \in S /\ eventCall[r] # None /\ eventCall[r].run)
    <3>1. cs[r] = eventCall[r]
      BY <1>1, <2>2
    <3> QED  BY <2>2, <3>1, CallKindIs
  <2> QED  BY <2>1, <2>2
<1>5. cs \in [Request -> Calendar!FetchCall \cup Calendar!WriteCall \cup {None}]
  <2>1. cs = [r \in Request |-> cs[r]]
    BY DEF Calendar!Note
  <2> QED  BY <1>4, <2>1
<1> QED  BY <1>4, <1>5

EventCall == Calendar!FetchCall \cup Calendar!WriteCall \cup {None}

\* What a write may say
ProperWrite(c) ==
  /\ c.run \/ c.kind = "delete" => c.event \in Calendar!Shown
  /\ c.kind = "update" => c.event.id \in Event

\* A proper call that is set keeps the types, ...
LEMMA CallSet ==
  ASSUME Calendar!TypeOK, CallsTyped, NEW r \in Request,
         NEW c \in EventCall, c \in Calendar!WriteCall => ProperWrite(c),
         eventCall' = [eventCall EXCEPT ![r] = c]
  PROVE  eventCall' \in [Request -> EventCall] /\ CallsTyped'
<1>1. eventCall \in [Request -> EventCall]
  BY DEF Calendar!TypeOK, EventCall
<1>2. eventCall' \in [Request -> EventCall] /\ eventCall'[r] = c
        /\ \A w \in Request : w # r => eventCall'[w] = eventCall[w]
  BY <1>1
<1>3. IsWrite(r)' => c \in Calendar!WriteCall
  <2>1. \A f \in Calendar!FetchCall : f.kind \notin Calendar!Changes
    BY DEF Calendar!FetchCall, Calendar!Changes
  <2> QED  BY <1>2, <2>1 DEF EventCall, IsWrite
<1>4. CallsTyped'
  BY <1>2, <1>3 DEF CallsTyped, IsWrite, ProperWrite
<1> QED  BY <1>2, <1>4

\* ... after a note, too, ...
LEMMA CallsNoted ==
  ASSUME Calendar!TypeOK, CallsTyped, NEW S \in SUBSET Request,
         NEW x \in Calendar!Reasons,
         NEW r \in Request, NEW c \in EventCall,
         c \in Calendar!WriteCall => ProperWrite(c),
         eventCall' = [Calendar!Note(eventCall, S, x) EXCEPT ![r] = c]
  PROVE  eventCall' \in [Request -> EventCall] /\ CallsTyped'
<1> DEFINE cs == Calendar!Note(eventCall, S, x)
<1>1. /\ cs \in [Request -> EventCall]
      /\ \A w \in Request :
           /\ eventCall[w] = None <=> cs[w] = None
           /\ IsFetch(w) => cs[w] \in Calendar!FetchCall
           /\ IsWrite(w) => /\ cs[w].kind = eventCall[w].kind
                            /\ cs[w].run = eventCall[w].run
                            /\ cs[w].event = eventCall[w].event
  BY NoteIs DEF EventCall
<1> HIDE DEF cs
<1>2. eventCall' \in [Request -> EventCall] /\ eventCall'[r] = c
        /\ \A w \in Request : w # r => eventCall'[w] = cs[w]
  BY <1>1 DEF cs
<1>3. \A f \in Calendar!FetchCall : f.kind \notin Calendar!Changes
  BY DEF Calendar!FetchCall, Calendar!Changes
<1>4. IsWrite(r)' => c \in Calendar!WriteCall
  BY <1>2, <1>3 DEF EventCall, IsWrite
<1>5. ASSUME NEW w \in Request, w # r, IsWrite(w)' PROVE IsWrite(w)
  <2>1. ~IsFetch(w) /\ eventCall[w] # None
    BY <1>1, <1>2, <1>3, <1>5 DEF IsWrite
  <2> QED  BY <2>1, CallKindIs
<1>6. CallsTyped'
  BY <1>1, <1>2, <1>4, <1>5 DEF CallsTyped, IsWrite, ProperWrite
<1> QED  BY <1>2, <1>6

\* ... and a note that is for no one changes nothing.
LEMMA NoAnswerNoted ==
  ASSUME Calendar!TypeOK, NEW x PROVE Calendar!Note(eventCall, {}, x) = eventCall
BY DEF Calendar!Note, Calendar!TypeOK

\* The form is filled from an event.
LEMMA EventIs ==
  ASSUME Calendar!TypeOK, modalView = "edit"
  PROVE  selectedEvent \in Calendar!Shown
BY DEF Calendar!TypeOK

\* The types are kept by each step of the form, ...
LEMMA SubmitTyped ==
  ASSUME Calendar!TypeOK, CallsTyped, NEW r \in Request, NEW at \in Calendar!Time,
         NEW text \in Text,
         Calendar!Submit(r, at, text)
  PROVE  Calendar!TypeOK' /\ CallsTyped'
<1>1. ASSUME NEW id \in Event \cup {None}, NEW k \in {"create", "update"},
             k = "update" =>
               id \in Event, eventCall' =
                 [eventCall EXCEPT ![r] = Calendar!Write(k, Calendar!Entry(id, at, text))]
      PROVE  eventCall' \in [Request -> EventCall] /\ CallsTyped'
  <2> DEFINE c == Calendar!Write(k, Calendar!Entry(id, at, text))
  <2>1. at - Offset \in Int
    BY CalendarBounds
  <2>2. c \in Calendar!WriteCall /\ ProperWrite(c)
    BY <1>1, <2>1 DEF Calendar!Write, Calendar!Entry, Calendar!ToISO, Calendar!WriteCall,
                      Calendar!Changes, Calendar!Mishap, ProperWrite
  <2> QED  BY <1>1, <2>2, CallSet DEF EventCall
<1>2. eventCall' \in [Request -> EventCall] /\ CallsTyped'
  <2>1. CASE Calendar!Create(r, at, text)
    BY <1>1, <2>1 DEF Calendar!Create
  <2>2. CASE Calendar!Update(r, at, text)
    <3>1. selectedEvent.id \in Event
      BY <2>2, EventIs DEF Calendar!Update, Calendar!Shown
    <3> QED  BY <1>1, <2>2, <3>1 DEF Calendar!Update
  <2> QED  BY <2>1, <2>2 DEF Calendar!Submit
<1> QED  BY <1>2 DEF Calendar!Submit, Calendar!TypeOK, EventCall, Calendar!hook,
                     Calendar!modal

LEMMA DeleteTyped ==
  ASSUME Calendar!TypeOK, CallsTyped, NEW r \in Request, Calendar!Delete(r)
  PROVE  Calendar!TypeOK' /\ CallsTyped'
<1> DEFINE c == Calendar!Write("delete", selectedEvent)
<1>1. selectedEvent \in Calendar!Shown
  BY EventIs DEF Calendar!Delete
<1>2. Calendar!Time \in SUBSET Int
  BY CalendarBounds
<1>3. c \in Calendar!WriteCall /\ ProperWrite(c)
  BY <1>1, <1>2 DEF Calendar!Write, Calendar!WriteCall, Calendar!Changes, Calendar!Mishap,
                    ProperWrite, Calendar!Shown
<1>4. eventCall' \in [Request -> EventCall] /\ CallsTyped'
  BY <1>3, CallSet DEF Calendar!Delete, EventCall
<1> QED  BY <1>4 DEF Calendar!Delete, Calendar!TypeOK, EventCall, Calendar!hook,
                     Calendar!modal

\* ... by datesSet, ...
LEMMA DatesTyped ==
  ASSUME Calendar!TypeOK, CallsTyped, NEW r \in Request, NEW m \in Calendar!Months,
         Calendar!DatesSet(m, r)
  PROVE  Calendar!TypeOK' /\ CallsTyped'
<1>1. Calendar!Fetch(m) \in Calendar!FetchCall
  BY DEF Calendar!Fetch, Calendar!FetchCall, Calendar!Mishap
<1>2. Calendar!Fetch(m) \in EventCall /\ Calendar!Fetch(m) \notin Calendar!WriteCall
  BY <1>1 DEF EventCall, Calendar!Fetch, Calendar!WriteCall, Calendar!Changes
<1>3. eventCall' \in [Request -> EventCall] /\ CallsTyped'
  BY <1>2, CallSet DEF Calendar!DatesSet
<1> QED  BY <1>3 DEF Calendar!DatesSet, Calendar!TypeOK, EventCall, Calendar!modal

\* ... by what opens and closes the form, ...
LEMMA ModalTyped ==
  ASSUME Calendar!TypeOK, CallsTyped,
         \/ \E d \in Calendar!Days : Calendar!DateClick(d)
         \/ \E e \in Calendar!Range(events) : Calendar!SelectEvent(e)
         \/ Calendar!NewEvent \/ Calendar!CloseForm
  PROVE  Calendar!TypeOK' /\ CallsTyped'
<1>1. UNCHANGED <<rows, Calendar!hook, eventCall, eventsMishap>>
  BY DEF Calendar!DateClick, Calendar!SelectEvent, Calendar!NewEvent, Calendar!CloseForm
<1> DEFINE Modal == /\ modalView \in {"closed", "list", "create", "edit"}
                    /\ selectedDate \in Calendar!Days \cup {None}
                    /\ selectedEvent \in Calendar!Shown \cup {None}
                    /\ modalView = "closed" <=> selectedDate = None
                    /\ modalView = "edit" <=> selectedEvent # None
<1>2. Modal'
  <2>1. ASSUME NEW d \in Calendar!Days, Calendar!DateClick(d) PROVE Modal'
    <3>1. selectedDate' = d /\ d # None
      BY <2>1, CalendarBounds DEF Calendar!DateClick
    <3>2. \/ Calendar!View("create", None) \/ Calendar!View("list", None)
          \/ Len(Calendar!OnDay(d)) = 1 /\ Calendar!View("edit", Calendar!OnDay(d)[1])
      BY <2>1 DEF Calendar!DateClick
    <3>3. Len(Calendar!OnDay(d)) = 1 => Calendar!OnDay(d)[1] \in Calendar!Shown
      BY DayIs
    <3> QED  BY <3>1, <3>2, <3>3, CalendarBounds DEF Calendar!View
  <2>2. ASSUME NEW e, Calendar!SelectEvent(e) PROVE Modal'
    <3>1. e \in Calendar!Shown /\ e # None
      <4>1. Calendar!OnDay(selectedDate) \in Seq(Calendar!Shown)
        BY DayIs
      <4> QED  BY <2>2, <4>1, CalendarBounds DEF Calendar!SelectEvent, Calendar!Range
    <3> QED  BY <2>2, <3>1 DEF Calendar!SelectEvent, Calendar!View, Calendar!TypeOK
  <2>3. CASE Calendar!NewEvent
    BY <2>3 DEF Calendar!NewEvent, Calendar!View, Calendar!TypeOK
  <2>4. CASE Calendar!CloseForm
    BY <2>4 DEF Calendar!CloseForm, Calendar!BackToList, Calendar!Close, Calendar!View,
                Calendar!TypeOK
  <2> QED  BY <2>1, <2>2, <2>3, <2>4
<1> QED  BY <1>1, <1>2 DEF Calendar!TypeOK, Calendar!hook, CallsTyped, IsWrite

\* ... by what the server does, ...
LEMMA RunFetchTyped ==
  ASSUME Calendar!TypeOK, CallsTyped, NEW r \in Request, eventCall[r] # None,
         Calendar!RunFetch(r)
  PROVE  /\ eventCall' \in [Request -> EventCall] /\ CallsTyped' /\ rows' = rows
         /\ \E data \in Calendar!FindByMonth(eventCall[r].month) :
              eventCall'[r] = [eventCall[r] EXCEPT !.run = TRUE, !.data = data]
         /\ eventCall'[r] \in Calendar!FetchCall
         /\ \A w \in Request : w # r => eventCall'[w] = eventCall[w]
<1>1. PICK data \in Calendar!FindByMonth(eventCall[r].month) :
        eventCall' = [eventCall EXCEPT ![r].run = TRUE, ![r].data = data]
  BY DEF Calendar!RunFetch
<1>2. data \in Seq(Calendar!Shown)
  BY FindIs
<1>3. eventCall[r] \in Calendar!FetchCall
  BY CallKindIs DEF Calendar!RunFetch, IsFetch
<1> DEFINE c == [eventCall[r] EXCEPT !.run = TRUE, !.data = data]
<1>4. c \in Calendar!FetchCall /\ c \notin Calendar!WriteCall
  BY <1>2, <1>3 DEF Calendar!FetchCall, Calendar!WriteCall, Calendar!Changes
<1>5. eventCall' = [eventCall EXCEPT ![r] = c]
  BY <1>1 DEF Calendar!TypeOK
<1> HIDE DEF c
<1>6. eventCall' \in [Request -> EventCall] /\ CallsTyped'
  BY <1>4, <1>5, CallSet DEF EventCall
<1>7. eventCall'[r] = c /\ \A w \in Request : w # r => eventCall'[w] = eventCall[w]
  BY <1>5 DEF Calendar!TypeOK
<1> QED  BY <1>4, <1>6, <1>7 DEF c, Calendar!RunFetch

LEMMA RunCreateTyped ==
  ASSUME Calendar!TypeOK, CallsTyped, NEW r \in Request, eventCall[r] # None,
         Calendar!RunCreate(r)
  PROVE  /\ eventCall' \in [Request -> EventCall] /\ CallsTyped'
         /\ rows' \in [Event -> Calendar!Content \cup {None, Gone}]
         /\ \E id \in Calendar!Unused :
              /\ rows' = [rows EXCEPT ![id] = Calendar!Row(eventCall'[r].event)]
              /\ eventCall'[r].event.id = id /\ eventCall'[r].event \in Calendar!Shown
         /\ eventCall'[r].since = eventCall[r].since /\ eventCall'[r].kind = "create"
         /\ eventCall'[r].run = TRUE
         /\ eventCall'[r] \in Calendar!WriteCall
         /\ \A w \in Request : w # r => eventCall'[w] = eventCall[w]
<1>1. PICK id \in Calendar!Unused :
        /\ rows' = [rows EXCEPT ![id] = Calendar!Row(eventCall[r].event)]
        /\ eventCall' = [eventCall EXCEPT ![r].run = TRUE, ![r].event.id = id]
  BY DEF Calendar!RunCreate
<1>2. eventCall[r] \in Calendar!WriteCall /\ eventCall[r].kind = "create"
        /\ eventCall[r].event.at \in Calendar!Time /\ id \in Event
  BY CallKindIs DEF Calendar!RunCreate, IsWrite, Calendar!Changes, Calendar!Unused
<1> DEFINE c == [eventCall[r] EXCEPT !.run = TRUE, !.event.id = id]
<1>3. /\ c.kind = "create" /\ c.run = TRUE /\ c.since = eventCall[r].since
      /\ c.event.id = id /\ c.event.at = eventCall[r].event.at
      /\ c.event.text = eventCall[r].event.text
      /\ c \in Calendar!WriteCall /\ c.event \in Calendar!Shown
  BY <1>2 DEF Calendar!WriteCall, Calendar!Shown
<1>4. eventCall' = [eventCall EXCEPT ![r] = c]
  BY <1>1 DEF Calendar!TypeOK
<1> HIDE DEF c
<1>5. ProperWrite(c)
  BY <1>3 DEF ProperWrite
<1>6. eventCall' \in [Request -> EventCall] /\ CallsTyped'
  BY <1>3, <1>4, <1>5, CallSet DEF EventCall
<1>7. eventCall'[r] = c /\ \A w \in Request : w # r => eventCall'[w] = eventCall[w]
  BY <1>4 DEF Calendar!TypeOK
<1>8. Calendar!Row(c.event) = Calendar!Row(eventCall[r].event)
        /\ Calendar!Row(c.event) \in Calendar!Content
  BY <1>3 DEF Calendar!Row, Calendar!Content, Calendar!Shown
<1>9. rows' \in [Event -> Calendar!Content \cup {None, Gone}]
  BY <1>1, <1>2, <1>8 DEF Calendar!TypeOK
<1> QED  BY <1>1, <1>3, <1>6, <1>7, <1>8, <1>9

LEMMA OvertakeTyped ==
  ASSUME Calendar!TypeOK, CallsTyped, NEW r \in Request, eventCall[r] # None,
         Calendar!RunUpdate(r) \/ Calendar!RunRemove(r)
  PROVE  /\ eventCall' \in [Request -> EventCall] /\ CallsTyped'
         /\ rows' \in [Event -> Calendar!Content \cup {None, Gone}]
         /\ IsWrite(r) /\ ~eventCall[r].run /\ eventCall[r].kind # "create"
         /\ eventCall[r].event \in Calendar!Shown
         /\ rows' = [rows EXCEPT ![eventCall[r].event.id] =
                       IF eventCall[r].kind = "delete" THEN Gone
                         ELSE Calendar!Row(eventCall[r].event)]
         /\ Calendar!IsRow(eventCall[r].event.id)
         /\ eventCall'[r] = [eventCall[r] EXCEPT !.run = TRUE]
         /\ \A w \in Request : w # r =>
              /\ eventCall'[w] = eventCall[w] \/ eventCall'[w].since = "overtaken"
              /\ eventCall[w] = None <=> eventCall'[w] = None
              /\ IsFetch(w) => eventCall'[w] = eventCall[w]
              /\ IsWrite(w) =>
                   /\ eventCall'[w] \in Calendar!WriteCall
                   /\ eventCall'[w].kind = eventCall[w].kind
                   /\ eventCall'[w].run = eventCall[w].run
                   /\ eventCall'[w].event = eventCall[w].event
                   /\ eventCall[w].run /\ eventCall[w].event.id = eventCall[r].event.id =>
                        eventCall'[w].since = "overtaken"
<1> DEFINE e == eventCall[r].event
           S == {w \in Calendar!Pending(Calendar!Changes) : eventCall[w].event.id = e.id}
           cs == Calendar!Note(eventCall, S, "overtaken")
           c == [eventCall[r] EXCEPT !.run = TRUE]
<1>1. /\ eventCall[r].kind \in {"update", "delete"} /\ ~eventCall[r].run
      /\ Calendar!IsRow(e.id)
      /\ eventCall' = [cs EXCEPT ![r].run = TRUE]
      /\ rows' = [rows EXCEPT ![e.id] = IF eventCall[r].kind = "delete" THEN Gone
                                        ELSE Calendar!Row(e)]
      /\ eventCall[r].kind = "update" => e.at \in Calendar!Time
  BY Zenon DEF Calendar!RunUpdate, Calendar!RunRemove, Calendar!Overtake
<1>2. IsWrite(r) /\ eventCall[r] \in Calendar!WriteCall
  BY <1>1, CallKindIs DEF IsWrite, Calendar!Changes
<1>3. e \in Calendar!Shown
  BY <1>1, <1>2 DEF CallsTyped, Calendar!WriteCall, Calendar!Shown
<1>4. S \in SUBSET Request /\ "overtaken" \in Calendar!Reasons /\ \A w \in S : IsWrite(w)
  BY DEF Calendar!Pending, Calendar!Reasons, IsWrite
<1> HIDE DEF S
<1>5. /\ cs \in [Request -> EventCall]
      /\ \A w \in Request :
           /\ \/ cs[w] = eventCall[w]
              \/ /\ w \in S /\ eventCall[w] # None /\ eventCall[w].run
                 /\ cs[w].since = "overtaken"
           /\ w \in S /\ eventCall[w] # None /\ eventCall[w].run =>
                cs[w].since = "overtaken"
           /\ eventCall[w] = None <=> cs[w] = None
           /\ IsWrite(w) => /\ cs[w] \in Calendar!WriteCall
                            /\ cs[w].kind = eventCall[w].kind
                            /\ cs[w].run = eventCall[w].run
                            /\ cs[w].event = eventCall[w].event
  BY <1>4, NoteIs DEF EventCall
<1> HIDE DEF cs
<1>6. cs[r] = eventCall[r]
  BY <1>1, <1>5
<1>7. eventCall' = [cs EXCEPT ![r] = c]
  BY <1>1, <1>5, <1>6
<1>8. c \in Calendar!WriteCall /\ c.event = e /\ c.kind = eventCall[r].kind
  BY <1>2 DEF Calendar!WriteCall
<1>9. ProperWrite(c)
  BY <1>1, <1>3, <1>8 DEF ProperWrite, Calendar!Shown
<1> HIDE DEF c
<1>10. eventCall' \in [Request -> EventCall] /\ CallsTyped'
  BY <1>4, <1>7, <1>8, <1>9, CallsNoted DEF cs, EventCall
<1>11. eventCall'[r] = c /\ \A w \in Request : w # r => eventCall'[w] = cs[w]
  BY <1>5, <1>7
<1>12. rows' \in [Event -> Calendar!Content \cup {None, Gone}]
  <2> DEFINE x == IF eventCall[r].kind = "delete" THEN Gone ELSE Calendar!Row(e)
  <2>1. x \in Calendar!Content \cup {None, Gone}
    BY <1>3 DEF Calendar!Row, Calendar!Content, Calendar!Shown
  <2>2. rows' = [rows EXCEPT ![e.id] = x]
          /\ rows \in [Event -> Calendar!Content \cup {None, Gone}]
    BY <1>1 DEF Calendar!TypeOK
  <2> HIDE DEF e, x
  <2> QED  BY <2>1, <2>2
<1>13. \A w \in Request : IsWrite(w) /\ eventCall[w].event.id = e.id => w \in S
  BY DEF S, Calendar!Pending, IsWrite
<1>14. \A w \in Request : IsFetch(w) => w \notin S
  BY <1>4, CallKindIs
<1>15. ASSUME NEW w \in Request, w # r
       PROVE  /\ eventCall'[w] = eventCall[w] \/ eventCall'[w].since = "overtaken"
              /\ eventCall[w] = None <=> eventCall'[w] = None
              /\ IsFetch(w) => eventCall'[w] = eventCall[w]
              /\ IsWrite(w) =>
                   /\ eventCall'[w] \in Calendar!WriteCall
                   /\ eventCall'[w].kind = eventCall[w].kind
                   /\ eventCall'[w].run = eventCall[w].run
                   /\ eventCall'[w].event = eventCall[w].event
                   /\ eventCall[w].run /\ eventCall[w].event.id = e.id =>
                     eventCall'[w].since = "overtaken"
  <2> HIDE DEF e
  <2>1. eventCall'[w] = cs[w]
    BY <1>11, <1>15
  <2>2. IsFetch(w) => cs[w] = eventCall[w]
    BY <1>5, <1>14
  <2>3. IsWrite(w) => eventCall[w] # None
    BY DEF IsWrite
  <2> QED  BY <1>5, <1>13, <2>1, <2>2, <2>3
<1>16. eventCall'[r] = [eventCall[r] EXCEPT !.run = TRUE]
  BY <1>11 DEF c
<1>17. eventCall[r].kind # "create"
  BY <1>1
<1> QED
  BY <1>1, <1>2, <1>3, <1>10, <1>12, <1>15, <1>16, <1>17

\* ... by what the partner writes, ...
LEMMA PartnerTyped ==
  ASSUME Calendar!TypeOK, CallsTyped, NEW id \in Event,
         NEW row \in Calendar!Content \cup {Gone},
         Calendar!PartnerWrites(id, row)
  PROVE  Calendar!TypeOK' /\ CallsTyped'
<1> DEFINE cs == Calendar!Note(eventCall, Request, "partner")
<1>1. "partner" \in Calendar!Reasons
  BY DEF Calendar!Reasons
<1>2. /\ cs \in [Request -> EventCall]
      /\ \A w \in Request :
           /\ eventCall[w] = None <=> cs[w] = None
           /\ IsFetch(w) => cs[w] \in Calendar!FetchCall
           /\ IsWrite(w) => /\ cs[w].kind = eventCall[w].kind
                            /\ cs[w].run = eventCall[w].run
                            /\ cs[w].event = eventCall[w].event
  BY <1>1, NoteIs DEF EventCall
<1> HIDE DEF cs
<1>3. eventCall' = cs
  BY DEF Calendar!PartnerWrites, cs
<1>4. \A f \in Calendar!FetchCall : f.kind \notin Calendar!Changes
  BY DEF Calendar!FetchCall, Calendar!Changes
<1>5. ASSUME NEW w \in Request, IsWrite(w)' PROVE IsWrite(w)
  <2>1. ~IsFetch(w) /\ eventCall[w] # None
    BY <1>2, <1>3, <1>4, <1>5 DEF IsWrite
  <2> QED  BY <2>1, CallKindIs
<1>6. CallsTyped'
  BY <1>2, <1>3, <1>5 DEF CallsTyped, IsWrite
<1>7. rows' \in [Event -> Calendar!Content \cup {None, Gone}]
  BY DEF Calendar!PartnerWrites, Calendar!TypeOK
<1> QED  BY <1>1, <1>2, <1>3, <1>6, <1>7
         DEF Calendar!PartnerWrites, Calendar!TypeOK, EventCall, Calendar!Mishap,
             Calendar!hook, Calendar!modal

\* ... and by what comes in.
LEMMA FetchArrivesTyped ==
  ASSUME Calendar!TypeOK, CallsTyped, NEW r \in Request, Calendar!FetchArrives(r)
  PROVE  Calendar!TypeOK' /\ CallsTyped'
<1>1. eventCall[r] \in Calendar!FetchCall /\ IsFetch(r)
  BY CallKindIs DEF Calendar!FetchArrives, Calendar!Pending, IsFetch
<1>2. events' \in Seq(Calendar!Shown) /\ eventsMishap' \in Calendar!Mishap
  BY <1>1 DEF Calendar!FetchArrives, Calendar!FetchCall, Calendar!Mishap, Calendar!Reasons
<1>3. eventCall' \in [Request -> EventCall] /\ CallsTyped'
  BY CallSet, CalendarBounds DEF Calendar!FetchArrives, EventCall
<1> QED  BY <1>2, <1>3 DEF Calendar!FetchArrives, Calendar!TypeOK, EventCall,
                           Calendar!modal

LEMMA ChangedTyped ==
  ASSUME Calendar!TypeOK, NEW k \in Calendar!Changes, NEW e \in Calendar!Shown
  PROVE  Calendar!Changed(k, e) \in Seq(Calendar!Shown)
<1>1. events \in Seq(Calendar!Shown)
  BY DEF Calendar!TypeOK
<1>2. Append(events, e) \in Seq(Calendar!Shown)
  BY <1>1
<1>3. [i \in DOMAIN events |-> IF events[i].id = e.id THEN e ELSE events[i]] \in
        Seq(Calendar!Shown)
  BY <1>1
<1>4. Calendar!Kept(events, {i \in DOMAIN events : events[i].id # e.id}) \in
        Seq(Calendar!Shown)
  <2>1. {i \in DOMAIN events : events[i].id # e.id} \in SUBSET DOMAIN events
    OBVIOUS
  <2> QED  BY <1>1, <2>1, KeptIs, SameCalendarLists
<1> QED  BY <1>2, <1>3, <1>4 DEF Calendar!Changed, Calendar!Changes

LEMMA WriteArrivesTyped ==
  ASSUME Calendar!TypeOK, CallsTyped, NEW r \in Request, Calendar!WriteArrives(r)
  PROVE  Calendar!TypeOK' /\ CallsTyped'
<1>1. IsWrite(r) /\ eventCall[r] \in Calendar!WriteCall
        /\ eventCall[r].event \in Calendar!Shown /\ eventCall[r].kind \in Calendar!Changes
  BY CallKindIs DEF Calendar!WriteArrives, Calendar!Pending, IsWrite, CallsTyped
<1>2. events' \in Seq(Calendar!Shown)
  BY <1>1, ChangedTyped DEF Calendar!WriteArrives
<1>3. eventsMishap' \in Calendar!Mishap
  BY <1>1 DEF Calendar!WriteArrives, Calendar!WriteCall, Calendar!Mishap,
              Calendar!Reasons, Calendar!TypeOK
<1>4. Calendar!Pending({"fetch"}) \in SUBSET Request /\ "undone" \in Calendar!Reasons
  BY DEF Calendar!Pending, Calendar!Reasons
<1>5. eventCall' \in [Request -> EventCall] /\ CallsTyped'
  BY <1>4, CallsNoted, CalendarBounds DEF Calendar!WriteArrives, EventCall
<1> QED  BY <1>2, <1>3, <1>5 DEF Calendar!WriteArrives, Calendar!Close, Calendar!TypeOK,
                                 EventCall

LEMMA FailsTyped ==
  ASSUME Calendar!TypeOK, CallsTyped, NEW r \in Request,
         Calendar!FetchFails(r) \/ Calendar!WriteFails(r)
  PROVE  Calendar!TypeOK' /\ CallsTyped'
<1>1. CASE Calendar!FetchFails(r)
  <2>1. eventCall' \in [Request -> EventCall] /\ CallsTyped'
    BY <1>1, CallSet, CalendarBounds DEF Calendar!FetchFails, EventCall
  <2> QED  BY <1>1, <2>1 DEF Calendar!FetchFails, Calendar!TypeOK, EventCall,
                             Calendar!Mishap, Calendar!Reasons, Calendar!hook,
                             Calendar!modal
<1>2. CASE Calendar!WriteFails(r)
  <2> DEFINE S == IF eventCall[r].run THEN Request ELSE {}
  <2>1. S \in SUBSET Request /\ "lost" \in Calendar!Reasons
    BY DEF Calendar!Reasons
  <2>2. eventCall' = [Calendar!Note(eventCall, S, "lost") EXCEPT ![r] = None]
    BY <1>2 DEF Calendar!WriteFails
  <2> HIDE DEF S
  <2>3. eventCall' \in [Request -> EventCall] /\ CallsTyped'
    BY <2>1, <2>2, CallsNoted, CalendarBounds DEF EventCall
  <2> QED  BY <1>2, <2>3 DEF Calendar!WriteFails, Calendar!Close, Calendar!TypeOK,
                             EventCall, Calendar!Mishap, Calendar!Reasons, Calendar!hook
<1> QED  BY <1>1, <1>2

LEMMA RunTyped ==
  ASSUME Calendar!TypeOK, CallsTyped, NEW r \in Request, Calendar!Run(r)
  PROVE  Calendar!TypeOK' /\ CallsTyped'
<1>1. /\ eventCall' \in [Request -> EventCall] /\ CallsTyped'
      /\ rows' \in [Event -> Calendar!Content \cup {None, Gone}]
  <2>1. CASE Calendar!RunFetch(r)
    BY <2>1, RunFetchTyped DEF Calendar!Run, Calendar!TypeOK
  <2>2. CASE Calendar!RunCreate(r)
    BY <2>2, RunCreateTyped DEF Calendar!Run
  <2>3. CASE Calendar!RunUpdate(r) \/ Calendar!RunRemove(r)
    BY <2>3, OvertakeTyped DEF Calendar!Run
  <2> QED  BY <2>1, <2>2, <2>3 DEF Calendar!Run
<1> QED  BY <1>1 DEF Calendar!Run, Calendar!TypeOK, EventCall, Calendar!hook,
                     Calendar!modal

\* Every step keeps the types.
LEMMA CalendarTyped ==
  ASSUME Calendar!TypeOK, CallsTyped, Calendar!Next
  PROVE  Calendar!TypeOK' /\ CallsTyped'
<1>1. ASSUME NEW id \in Event, NEW row \in [at : Calendar!Time, text : Text] \cup {Gone},
             Calendar!PartnerWrites(id, row)
      PROVE  Calendar!TypeOK' /\ CallsTyped'
  BY <1>1, PartnerTyped DEF Calendar!Content
<1> QED
  BY <1>1, DatesTyped, SubmitTyped, DeleteTyped, RunTyped, FetchArrivesTyped,
     WriteArrivesTyped, FailsTyped, ModalTyped
     DEF Calendar!Next

\* What is listed is a proper event.
LEMMA RangeIs ==
  ASSUME NEW s \in Seq(Calendar!Shown)
  PROVE  \A e \in Calendar!Range(s) : e \in Calendar!Shown /\ e.id \in Event
<1>1. \A i \in DOMAIN s : s[i] \in Calendar!Shown
  OBVIOUS
<1>2. \A e \in Calendar!Shown : e.id \in Event
  BY DEF Calendar!Shown
<1> QED  BY <1>1, <1>2 DEF Calendar!Range

\* What a step may do to the rows and the writes without touching a list that
\* matches them.
Evolves ==
  /\ \A x \in Event : Changing(x) => Changing(x)'
  /\ \A x \in Event : rows'[x] = rows[x] \/ Changing(x)'
  /\ \A x \in Event : rows[x] # None => rows'[x] # None
  /\ \A w \in Request : Created(w)' =>
       \/ rows[eventCall'[w].event.id] = None
       \/ Created(w) /\ eventCall'[w].event = eventCall[w].event

\* A list that matches keeps matching, ...
LEMMA MatchKeeps ==
  ASSUME Evolves, NEW s, NEW m, ListHas(s, m)
  PROVE  ListHas(s, m)'
<1> SUFFICES ASSUME NEW e \in Calendar!Shown, ~Changing(e.id)', Calendar!Month(e.at) = m
             PROVE  e \in Calendar!Range(s) <=> rows'[e.id] = Calendar!Row(e)
  BY DEF ListHas, Calendar!Row
<1>1. e.id \in Event
  BY DEF Calendar!Shown
<1>2. ~Changing(e.id) /\ rows'[e.id] = rows[e.id]
  BY <1>1 DEF Evolves
<1> QED  BY <1>2 DEF ListHas

\* ... what it holds of a created event stays right, ...
LEMMA CreatedKeeps ==
  ASSUME Evolves, NEW s, \A e \in Calendar!Range(s) : rows[e.id] # None,
         \A w \in Request : Created(w) =>
           \A e \in Calendar!Range(s) : e.id = eventCall[w].event.id =>
             e = eventCall[w].event
  PROVE  \A w \in Request : Created(w)' =>
           \A e \in Calendar!Range(s) : e.id = eventCall'[w].event.id =>
             e = eventCall'[w].event
BY DEF Evolves

Unlisted == \A w \in Request : Created(w) => ~Calendar!Listed(eventCall[w].event.id)

\* ... and what is to be added stays out.
LEMMA UnlistedKeeps ==
  ASSUME Evolves, \A e \in Calendar!Range(events) : rows[e.id] # None, events' = events,
         Unlisted
  PROVE  Unlisted'
<1> SUFFICES ASSUME NEW w \in Request, Created(w)',
                    NEW i \in DOMAIN events, events[i].id = eventCall'[w].event.id
             PROVE  FALSE
  BY DEF Unlisted, Calendar!Listed
<1>2. rows[eventCall'[w].event.id] # None
  BY DEF Calendar!Range
<1>3. Created(w) /\ eventCall'[w].event = eventCall[w].event
  BY <1>2 DEF Evolves
<1>4. Calendar!Listed(eventCall[w].event.id)
  BY <1>3 DEF Calendar!Listed
<1> QED  BY <1>3, <1>4 DEF Unlisted

\* The list, if it is not replaced, ...
LEMMA ListKeeps ==
  ASSUME Evolves, IdsTaken, ListMatches, UNCHANGED Calendar!hook,
         events \in Seq(Calendar!Shown),
         eventsMishap' = None /\ ~AwaitsMonth' => eventsMishap = None /\ ~AwaitsMonth
  PROVE  ListMatches' /\ \A e \in Calendar!Range(events') : rows'[e.id] # None
<1>1. \A e \in Calendar!Range(events) : rows[e.id] # None /\ e.id \in Event
  BY RangeIs DEF IdsTaken
<1>2. \A e \in Calendar!Range(events') : rows'[e.id] # None
  BY <1>1 DEF Evolves, Calendar!hook
<1>3. ASSUME eventsMishap' = None, ~AwaitsMonth'
      PROVE  /\ ListHas(events, currentMonth)'
             /\ Unlisted'
  <2>1. ListHas(events, currentMonth) /\ Unlisted
    BY <1>3 DEF ListMatches, Unlisted
  <2>2. events' = events /\ currentMonth' = currentMonth
    BY DEF Calendar!hook
  <2>3. \A s, m : ListHas(s, m) => ListHas(s, m)'
    BY MatchKeeps
  <2>4. ListHas(events, currentMonth)'
    BY <2>1, <2>2, <2>3 DEF ListHas
  <2> QED  BY <1>1, <2>1, <2>2, <2>4, UnlistedKeeps
<1> QED  BY <1>2, <1>3 DEF ListMatches, Unlisted

FetchMatches(r) ==
  IsFetch(r) /\ eventCall[r].run /\ eventCall[r].since = None =>
    /\ ListHas(eventCall[r].data, eventCall[r].month)
    /\ \A w \in Request : Created(w) =>
         \A e \in Calendar!Range(eventCall[r].data) : e.id = eventCall[w].event.id =>
           e = eventCall[w].event
DataTaken(r) == IsFetch(r) =>
  \A e \in Calendar!Range(eventCall[r].data) : rows[e.id] # None

\* ... and what a fetch has found.
LEMMA DataKeeps ==
  ASSUME Evolves, Calendar!TypeOK, NEW r \in Request, FetchMatches(r), DataTaken(r),
         IsFetch(r)' =>
           \/ /\ IsFetch(r) /\ eventCall'[r].data = eventCall[r].data
                   /\ eventCall'[r].month = eventCall[r].month
              /\ eventCall'[r].run /\ eventCall'[r].since = None =>
                eventCall[r].run /\ eventCall[r].since = None
           \/ eventCall'[r].data = << >> /\ ~eventCall'[r].run
  PROVE  FetchMatches(r)' /\ DataTaken(r)'
<1> SUFFICES ASSUME IsFetch(r)' PROVE FetchMatches(r)' /\ DataTaken(r)'
  BY DEF FetchMatches, DataTaken
<1>1. CASE eventCall'[r].data = << >> /\ ~eventCall'[r].run
  BY <1>1 DEF FetchMatches, DataTaken, Calendar!Range
<1>2. CASE /\ IsFetch(r) /\ eventCall'[r].data = eventCall[r].data
                /\ eventCall'[r].month = eventCall[r].month
           /\ eventCall'[r].run /\ eventCall'[r].since = None =>
             eventCall[r].run /\ eventCall[r].since = None
  <2> DEFINE s == eventCall[r].data
             m == eventCall[r].month
  <2>1. \A e \in Calendar!Range(s) : rows[e.id] # None /\ e.id \in Event
    <3>1. eventCall[r] \in Calendar!FetchCall
      BY <1>2, CallKindIs
    <3>2. s \in Seq(Calendar!Shown)
      BY <3>1 DEF Calendar!FetchCall
    <3> QED  BY <1>2, <3>2, RangeIs DEF DataTaken
  <2>2. DataTaken(r)'
    <3>1. \A e \in Calendar!Range(s) : rows'[e.id] # None
      BY <2>1 DEF Evolves
    <3> QED  BY <1>2, <3>1 DEF DataTaken
  <2>3. ASSUME eventCall'[r].run, eventCall'[r].since = None PROVE FetchMatches(r)'
    <3>1. /\ ListHas(s, m)
          /\ \A w \in Request : Created(w) =>
               \A e \in Calendar!Range(s) : e.id = eventCall[w].event.id =>
                 e = eventCall[w].event
      BY <1>2, <2>3 DEF FetchMatches
    <3>2. \A t, n : ListHas(t, n) => ListHas(t, n)'
      BY MatchKeeps
    <3>3. PICK t, n : t = s /\ n = m
      OBVIOUS
    <3>4. ListHas(eventCall[r].data, eventCall[r].month)'
      <4>1. ListHas(t, n)'
        BY <3>1, <3>2, <3>3
      <4>2. eventCall'[r].data = t /\ eventCall'[r].month = n
        BY <1>2, <3>3
      <4> QED  BY <4>1, <4>2 DEF ListHas
    <3>5. \A w \in Request : Created(w)' =>
            \A e \in Calendar!Range(s) : e.id = eventCall'[w].event.id =>
              e = eventCall'[w].event
      BY <2>1, <3>1, CreatedKeeps
    <3> QED  BY <1>2, <3>4, <3>5 DEF FetchMatches
  <2> QED  BY <2>2, <2>3 DEF FetchMatches
<1> QED  BY <1>1, <1>2

\* The invariant, request by request
LEMMA InvParts ==
  /\ FetchesMatch <=> \A r \in Request : FetchMatches(r)
  /\ IdsTaken <=> /\ \A e \in Calendar!Range(events) : rows[e.id] # None
                  /\ \A r \in Request : DataTaken(r)
                  /\ \A w \in Request : Done(w) => rows[eventCall[w].event.id] # None
BY DEF FetchesMatch, FetchMatches, IdsTaken, DataTaken

\* Steps that change no row, do no write and answer none
Quiet ==
  /\ rows' = rows
  /\ \A w \in Request :
       /\ Done(w)' <=> Done(w)
       /\ Done(w) => /\ eventCall'[w].event = eventCall[w].event
                     /\ eventCall'[w].kind = eventCall[w].kind
                     /\ eventCall'[w].since = None => eventCall[w].since = None
       /\ IsFetch(w)' =>
            \/ /\ IsFetch(w) /\ eventCall'[w].data = eventCall[w].data
                    /\ eventCall'[w].month = eventCall[w].month
               /\ eventCall'[w].run /\ eventCall'[w].since = None =>
                 eventCall[w].run /\ eventCall[w].since = None
            \/ eventCall'[w].data = << >> /\ ~eventCall'[w].run

\* Such a step leaves the lists matching, ...
LEMMA QuietEvolves == ASSUME Quiet PROVE Evolves
<1>1. \A x : Changing(x) <=> Changing(x)'
  BY DEF Quiet, Changing
<1>2. \A w \in Request : Created(w)' =>
        Created(w) /\ eventCall'[w].event = eventCall[w].event
  BY DEF Quiet, Created
<1> QED  BY <1>1, <1>2 DEF Evolves, Quiet

\* ... the writes standing as long as the rows are the same, ...
LEMMA StandKeeps ==
  ASSUME WritesStand, rows' = rows,
         \A w \in Request : Done(w)' =>
           /\ Done(w) /\ eventCall'[w].event = eventCall[w].event
           /\ eventCall'[w].kind = eventCall[w].kind
           /\ eventCall'[w].since = None => eventCall[w].since = None
  PROVE  WritesStand'
BY DEF WritesStand, Calendar!Row

\* ... and what was fetched right.
LEMMA QuietKeeps ==
  ASSUME Calendar!TypeOK, IdsTaken, WritesStand, FetchesMatch, Quiet
  PROVE  WritesStand' /\ FetchesMatch' /\ \A r \in Request : DataTaken(r)'
<1>1. Evolves
  BY QuietEvolves
<1>2. WritesStand'
  BY StandKeeps DEF Quiet
<1>3. \A r \in Request : FetchMatches(r)' /\ DataTaken(r)'
  BY <1>1, InvParts, DataKeeps DEF Quiet
<1>4. FetchesMatch'
  BY <1>3 DEF FetchesMatch, FetchMatches
<1> QED  BY <1>2, <1>3, <1>4

\* What is left of the invariant beside the types
ListsAreRight == IdsTaken /\ WritesStand /\ FetchesMatch /\ ListMatches

\* A step of one request that has no answered change, and gets none
LEMMA OthersQuiet ==
  ASSUME NEW r \in Request, rows' = rows, ~Done(r), ~Done(r)',
         \A w \in Request : w # r => eventCall'[w] = eventCall[w],
         IsFetch(r)' => eventCall'[r].data = << >> /\ ~eventCall'[r].run
  PROVE  Quiet
<1>1. ASSUME NEW w \in Request, w # r, eventCall'[w] = eventCall[w]
      PROVE  (Done(w)' <=> Done(w)) /\ (IsFetch(w)' <=> IsFetch(w))
  BY <1>1 DEF Done, IsWrite, IsFetch
<1> QED  BY <1>1 DEF Quiet

\* It keeps the invariant.
LEMMA QuietRest ==
  ASSUME Calendar!TypeOK, ListsAreRight, Quiet, UNCHANGED Calendar!hook,
         eventsMishap' = None /\ ~AwaitsMonth' => eventsMishap = None /\ ~AwaitsMonth
  PROVE  ListsAreRight'
<1>1. WritesStand' /\ FetchesMatch' /\ \A r \in Request : DataTaken(r)'
  BY QuietKeeps DEF ListsAreRight
<1>2. ListMatches' /\ \A e \in Calendar!Range(events') : rows'[e.id] # None
  BY QuietEvolves, ListKeeps DEF ListsAreRight, Calendar!TypeOK
<1>3. \A w \in Request : Done(w)' => rows'[eventCall'[w].event.id] # None
  BY DEF Quiet, ListsAreRight, IdsTaken
<1>4. IdsTaken'
  BY <1>1, <1>2, <1>3 DEF IdsTaken, DataTaken
<1> QED  BY <1>1, <1>2, <1>4 DEF ListsAreRight

\* A write that starts is such a step, ...
LEMMA WriteKeeps ==
  ASSUME Calendar!TypeOK, ListsAreRight, NEW r \in Request, eventCall[r] = None,
         NEW k \in Calendar!Changes, NEW e,
         eventCall' = [eventCall EXCEPT ![r] = Calendar!Write(k, e)],
         UNCHANGED <<rows, Calendar!hook, eventsMishap>>
  PROVE  ListsAreRight'
<1>1. eventCall'[r] = Calendar!Write(k, e) /\ \A w \in Request : w # r =>
        eventCall'[w] = eventCall[w]
  BY DEF Calendar!TypeOK
<1>2. k # "fetch"
  BY DEF Calendar!Changes
<1>3. ~Done(r) /\ ~Done(r)' /\ ~IsFetch(r) /\ ~IsFetch(r)'
  BY <1>1, <1>2 DEF Done, IsWrite, IsFetch, Calendar!Write
<1>4. Quiet
  BY <1>1, <1>3, OthersQuiet
<1>5. \A w \in Request : IsFetch(w) =>
        IsFetch(w)' /\ eventCall'[w].month = eventCall[w].month
  BY <1>1, <1>3 DEF IsFetch
<1>6. AwaitsMonth => AwaitsMonth'
  BY <1>5 DEF AwaitsMonth, Calendar!hook
<1> QED  BY <1>4, <1>6, QuietRest

\* ... so are submit and delete of the form, ...
LEMMA SubmitKeeps ==
  ASSUME Calendar!TypeOK, ListsAreRight, NEW r \in Request, NEW at, NEW text,
         Calendar!Submit(r, at, text) \/ Calendar!Delete(r)
  PROVE  ListsAreRight'
<1>1. "create" \in Calendar!Changes /\ "update" \in Calendar!Changes
        /\ "delete" \in Calendar!Changes
  BY DEF Calendar!Changes
<1> QED  BY <1>1, WriteKeeps DEF Calendar!Submit, Calendar!Delete, Calendar!Create,
                                 Calendar!Update

\* ... and datesSet, which awaits the month it sets.
LEMMA DatesKeep ==
  ASSUME Calendar!TypeOK, ListsAreRight, NEW r \in Request, NEW m \in Calendar!Months,
         Calendar!DatesSet(m, r)
  PROVE  ListsAreRight'
<1>1. eventCall'[r] = Calendar!Fetch(m) /\ \A w \in Request : w # r =>
        eventCall'[w] = eventCall[w]
  BY DEF Calendar!TypeOK, Calendar!DatesSet
<1>2. ~Done(r) /\ ~Done(r)' /\ IsFetch(r)' /\ eventCall'[r].data = << >>
        /\ ~eventCall'[r].run
  <2>1. Calendar!Fetch(m) \in Calendar!FetchCall
    BY DEF Calendar!Fetch, Calendar!FetchCall, Calendar!Mishap
  <2>2. Calendar!Fetch(m) # None
    BY <2>1, CalendarBounds
  <2> QED  BY <1>1, <2>2 DEF Done, IsWrite, IsFetch, Calendar!Fetch, Calendar!DatesSet,
                             Calendar!Changes
<1>3. Quiet
  BY <1>1, <1>2, OthersQuiet DEF Calendar!DatesSet
<1>4. WritesStand' /\ FetchesMatch' /\ \A q \in Request : DataTaken(q)'
  BY <1>3, QuietKeeps DEF ListsAreRight
<1>5. AwaitsMonth'
  BY <1>1, <1>2 DEF AwaitsMonth, Calendar!DatesSet, Calendar!Fetch
<1>6. IdsTaken'
  BY <1>3, <1>4 DEF IdsTaken, DataTaken, Calendar!DatesSet, Quiet, ListsAreRight
<1> QED  BY <1>4, <1>5, <1>6 DEF ListsAreRight, ListMatches

\* What opens and closes the form changes no list.
LEMMA ModalKeeps ==
  ASSUME Calendar!TypeOK, ListsAreRight,
         UNCHANGED <<rows, Calendar!hook, eventCall, eventsMishap>>
  PROVE  ListsAreRight'
BY DEF ListsAreRight, IdsTaken, WritesStand, FetchesMatch, ListMatches, ListHas, Changing,
       Created,
       AwaitsMonth, Calendar!Listed, Done, IsWrite, IsFetch, Calendar!Row, Calendar!hook

\* A fetch that fails was not for the month shown, or is a mishap.
LEMMA FetchFailKeeps ==
  ASSUME Calendar!TypeOK, ListsAreRight, NEW r \in Request, Calendar!FetchFails(r)
  PROVE  ListsAreRight'
<1>1. eventCall'[r] = None /\ \A w \in Request : w # r => eventCall'[w] = eventCall[w]
  BY DEF Calendar!TypeOK, Calendar!FetchFails
<1>2. IsFetch(r)
  BY DEF Calendar!FetchFails, Calendar!Pending, IsFetch
<1>3. ~Done(r) /\ ~Done(r)' /\ ~IsFetch(r)'
  BY <1>1, <1>2, CallKindIs DEF Done, IsWrite, IsFetch
<1>4. Quiet
  BY <1>1, <1>3, OthersQuiet DEF Calendar!FetchFails
<1>5. eventsMishap' = None => eventCall[r].month # currentMonth /\ eventsMishap = None
  BY CalendarBounds DEF Calendar!FetchFails, Calendar!Reasons
<1>6. ASSUME eventsMishap' = None, AwaitsMonth PROVE AwaitsMonth'
  <2>1. PICK w \in Request : IsFetch(w) /\ eventCall[w].month = currentMonth
    BY <1>6 DEF AwaitsMonth
  <2>2. w # r
    BY <1>5, <1>6, <2>1
  <2>3. IsFetch(w)' /\ eventCall'[w].month = currentMonth
    BY <1>1, <2>1, <2>2 DEF IsFetch
  <2> QED  BY <2>3 DEF AwaitsMonth, Calendar!FetchFails, Calendar!hook
<1> QED  BY <1>4, <1>5, <1>6, QuietRest DEF Calendar!FetchFails

\* A fetch finds the rows of its month.
LEMMA RunFetchKeeps ==
  ASSUME Calendar!TypeOK, CallsTyped, ListsAreRight, NEW r \in Request, Calendar!Run(r),
         Calendar!RunFetch(r)
  PROVE  ListsAreRight'
<1>1. /\ rows' = rows
      /\ \E data \in Calendar!FindByMonth(eventCall[r].month) :
           eventCall'[r] = [eventCall[r] EXCEPT !.run = TRUE, !.data = data]
      /\ eventCall'[r] \in Calendar!FetchCall
      /\ \A w \in Request : w # r => eventCall'[w] = eventCall[w]
  BY RunFetchTyped DEF Calendar!Run
<1>2. PICK data \in Calendar!FindByMonth(eventCall[r].month) :
        eventCall'[r] = [eventCall[r] EXCEPT !.run = TRUE, !.data = data]
  BY <1>1
<1>3. IsFetch(r) /\ eventCall[r] \in Calendar!FetchCall
  BY CallKindIs DEF Calendar!Run, Calendar!RunFetch, IsFetch
<1>4. eventCall'[r].month = eventCall[r].month /\ eventCall'[r].data = data
        /\ eventCall'[r].kind = "fetch"
  BY <1>1, <1>2, <1>3 DEF Calendar!FetchCall
<1>5. eventCall'[r] # None
  BY <1>1, CalendarBounds
<1>6. ~Done(r) /\ ~Done(r)' /\ IsFetch(r)'
  BY <1>3, <1>4, <1>5, CallKindIs DEF Done, IsWrite, IsFetch, Calendar!Changes
<1>7. \A w \in Request : w # r => (Done(w)' <=> Done(w)) /\ (IsFetch(w)' <=> IsFetch(w))
  BY <1>1 DEF Done, IsWrite, IsFetch
<1>8. \A w \in Request : Done(w)' <=> Done(w)
  BY <1>6, <1>7
<1>9. \A w \in Request : Done(w) => eventCall'[w] = eventCall[w]
  BY <1>1, <1>6
<1>10. Evolves
  <2>1. \A x : Changing(x) <=> Changing(x)'
    BY <1>8, <1>9 DEF Changing
  <2>2. \A w \in Request : Created(w)' =>
          Created(w) /\ eventCall'[w].event = eventCall[w].event
    BY <1>8, <1>9 DEF Created
  <2> QED  BY <1>1, <2>1, <2>2 DEF Evolves
<1>11. WritesStand'
  BY <1>1, <1>8, <1>9, StandKeeps DEF ListsAreRight
<1>12. FetchMatches(r)' /\ DataTaken(r)'
  <2>1. /\ \A i, j \in DOMAIN data : data[i].id = data[j].id => i = j
        /\ \A e \in Calendar!Shown :
             e \in Calendar!Range(data) <=>
               Calendar!Month(e.at) = eventCall[r].month /\ rows[e.id] = Calendar!Row(e)
        /\ \A e \in Calendar!Range(data) : e \in Calendar!Shown
    BY FindIs
  <2>2. PICK m : m = eventCall[r].month
    OBVIOUS
  <2>3. ListHas(data, m)'
    BY <1>1, <2>1, <2>2 DEF ListHas, Calendar!Row
  <2>4. ListHas(eventCall[r].data, eventCall[r].month)'
    BY <1>4, <2>2, <2>3 DEF ListHas
  <2>5. ASSUME NEW w \in Request, Created(w)', NEW e \in Calendar!Range(data),
               e.id = eventCall'[w].event.id
        PROVE  e = eventCall'[w].event
    <3>1. Done(w) /\ eventCall'[w] = eventCall[w] /\ eventCall[w].kind = "create"
            /\ eventCall[w].since = None
      BY <1>8, <1>9, <2>5 DEF Created
    <3>2. eventCall[w].event \in Calendar!Shown
      BY <3>1 DEF CallsTyped, Done
    <3>3. rows[e.id] = Calendar!Row(eventCall[w].event) /\ rows[e.id] = Calendar!Row(e)
            /\ e \in Calendar!Shown
      BY <2>1, <2>5, <3>1 DEF ListsAreRight, WritesStand
    <3>4. e.at = eventCall[w].event.at /\ e.text = eventCall[w].event.text
      BY <3>3 DEF Calendar!Row
    <3> QED  BY <2>5, <3>1, <3>2, <3>3, <3>4 DEF Calendar!Shown
  <2>6. DataTaken(r)'
    <3>1. \A e \in Calendar!Range(data) : rows'[e.id] # None
      BY <1>1, <2>1, RowIs
    <3> QED  BY <1>4, <3>1 DEF DataTaken
  <2> QED  BY <1>4, <2>4, <2>5, <2>6 DEF FetchMatches
<1>13. ASSUME NEW q \in Request PROVE FetchMatches(q)' /\ DataTaken(q)'
  <2>1. FetchMatches(q) /\ DataTaken(q)
    BY InvParts DEF ListsAreRight
  <2> QED  BY <1>1, <1>7, <1>10, <1>12, <2>1, DataKeeps, Zenon
<1>14. ListMatches' /\ \A e \in Calendar!Range(events') : rows'[e.id] # None
  <2>1. \A w \in Request : IsFetch(w) =>
          IsFetch(w)' /\ eventCall'[w].month = eventCall[w].month
    BY <1>1, <1>4, <1>6, <1>7
  <2>2. AwaitsMonth => AwaitsMonth'
    BY <2>1 DEF AwaitsMonth, Calendar!Run, Calendar!hook
  <2> QED  BY <1>10, <2>2, ListKeeps DEF ListsAreRight, Calendar!TypeOK, Calendar!Run
<1>15. \A w \in Request : Done(w)' => rows'[eventCall'[w].event.id] # None
  BY <1>1, <1>8, <1>9 DEF ListsAreRight, IdsTaken
<1> QED  BY <1>11, <1>13, <1>14, <1>15 DEF ListsAreRight, IdsTaken, DataTaken,
                                           FetchesMatch, FetchMatches

\* Where a step disturbs every answer under way, there is little to show.
LEMMA DisturbedRest ==
  ASSUME ListsAreRight, UNCHANGED events, eventsMishap' # None,
         \A x \in Event : rows[x] # None => rows'[x] # None,
         \A e \in Calendar!Range(events) : e.id \in Event,
         \A w \in Request :
           /\ eventCall'[w] # None /\ eventCall'[w].run => eventCall'[w].since # None
           /\ IsFetch(w)' => /\ IsFetch(w) /\ eventCall'[w].data = eventCall[w].data
                             /\ \A e \in Calendar!Range(eventCall[w].data) :
                               e.id \in Event
           /\ Done(w)' =>
             Done(w) /\ eventCall'[w].event = eventCall[w].event
               /\ eventCall[w].event.id \in Event
  PROVE  ListsAreRight'
<1>1. WritesStand'
  BY DEF WritesStand, Done, IsWrite
<1>2. FetchesMatch'
  BY DEF FetchesMatch, IsFetch
<1>3. ListMatches'
  BY DEF ListMatches
<1>4. IdsTaken'
  <2>1. \A e \in Calendar!Range(events') : rows'[e.id] # None
    BY DEF ListsAreRight, IdsTaken
  <2>2. \A w \in Request : IsFetch(w)' =>
          \A e \in Calendar!Range(eventCall'[w].data) : rows'[e.id] # None
    BY DEF ListsAreRight, IdsTaken
  <2>3. \A w \in Request : Done(w)' => rows'[eventCall'[w].event.id] # None
    BY DEF ListsAreRight, IdsTaken
  <2> QED  BY <2>1, <2>2, <2>3 DEF IdsTaken
<1> QED  BY <1>1, <1>2, <1>3, <1>4 DEF ListsAreRight

\* Every id that the page knows is one of Event.
LEMMA PartsInEvent ==
  ASSUME Calendar!TypeOK, CallsTyped
  PROVE  /\ \A e \in Calendar!Range(events) : e.id \in Event
         /\ \A w \in Request :
              /\ IsFetch(w) => \A e \in Calendar!Range(eventCall[w].data) : e.id \in Event
              /\ Done(w) =>
                eventCall[w].event.id \in Event /\ eventCall[w].event \in Calendar!Shown
<1>1. \A w \in Request : IsFetch(w) => eventCall[w].data \in Seq(Calendar!Shown)
  BY CallKindIs DEF Calendar!FetchCall
<1>2. \A w \in Request : IsFetch(w) =>
        \A e \in Calendar!Range(eventCall[w].data) : e.id \in Event
  BY <1>1, RangeIs
<1> QED  BY <1>2, RangeIs DEF Calendar!TypeOK, CallsTyped, Done, Calendar!Shown

\* A write of the partner disturbs every answer under way.
LEMMA PartnerKeeps ==
  ASSUME Calendar!TypeOK, CallsTyped, ListsAreRight, NEW id \in Event,
         NEW row \in Calendar!Content \cup {Gone},
         Calendar!PartnerWrites(id, row)
  PROVE  ListsAreRight'
<1>1. "partner" \in Calendar!Reasons /\ "partner" # None
  BY CalendarBounds DEF Calendar!Reasons
<1>2. eventCall' = Calendar!Note(eventCall, Request, "partner")
        /\ eventsMishap' = "partner" /\ events' = events
  BY DEF Calendar!PartnerWrites, Calendar!hook
<1>3. \A w \in Request :
        /\ eventCall[w] = None <=> eventCall'[w] = None
        /\ eventCall[w] # None /\ eventCall[w].run => eventCall'[w].since = "partner"
        /\ IsFetch(w) => /\ eventCall'[w] \in Calendar!FetchCall
                         /\ eventCall'[w].run = eventCall[w].run
                         /\ eventCall'[w].data = eventCall[w].data
        /\ IsWrite(w) => /\ eventCall'[w] \in Calendar!WriteCall
                         /\ eventCall'[w].run = eventCall[w].run
                         /\ eventCall'[w].event = eventCall[w].event
  <2>1. \A S \in SUBSET Request, x \in Calendar!Reasons :
          eventCall' = Calendar!Note(eventCall, S, x) =>
            \A w \in Request :
              /\ eventCall[w] = None <=> eventCall'[w] = None
              /\ w \in S /\ eventCall[w] # None /\ eventCall[w].run =>
                eventCall'[w].since = x
              /\ IsFetch(w) => /\ eventCall'[w] \in Calendar!FetchCall
                               /\ eventCall'[w].run = eventCall[w].run
                               /\ eventCall'[w].data = eventCall[w].data
              /\ IsWrite(w) => /\ eventCall'[w] \in Calendar!WriteCall
                               /\ eventCall'[w].run = eventCall[w].run
                               /\ eventCall'[w].event = eventCall[w].event
    BY NoteIs
  <2> QED  BY <1>1, <1>2, <2>1
<1>4. /\ \A f \in Calendar!FetchCall : f.kind \notin Calendar!Changes
      /\ \A f \in Calendar!WriteCall : f.kind # "fetch"
  BY DEF Calendar!FetchCall, Calendar!WriteCall, Calendar!Changes
<1>5. \A w \in Request :
        /\ eventCall'[w] # None /\ eventCall'[w].run => eventCall'[w].since # None
        /\ IsFetch(w)' => IsFetch(w) /\ eventCall'[w].data = eventCall[w].data
        /\ Done(w)' => Done(w) /\ eventCall'[w].event = eventCall[w].event
  <2> TAKE w \in Request
  <2>1. CASE eventCall[w] = None
    BY <1>3, <2>1 DEF IsFetch, Done, IsWrite
  <2>2. CASE IsFetch(w)
    BY <1>1, <1>3, <1>4, <2>2 DEF IsFetch, Done, IsWrite
  <2>3. CASE IsWrite(w)
    BY <1>1, <1>3, <1>4, <2>3 DEF IsFetch, Done, IsWrite
  <2> QED  BY <2>1, <2>2, <2>3, CallKindIs
<1>6. \A x \in Event : rows[x] # None => rows'[x] # None
  BY CalendarBounds DEF Calendar!PartnerWrites, Calendar!TypeOK
<1> QED  BY <1>1, <1>2, <1>5, <1>6, DisturbedRest, PartsInEvent

\* A write that fails has not been done, or is a mishap.
LEMMA WriteFailKeeps ==
  ASSUME Calendar!TypeOK, CallsTyped, ListsAreRight, NEW r \in Request,
         Calendar!WriteFails(r)
  PROVE  ListsAreRight'
<1>1. IsWrite(r) /\ ~IsFetch(r)
  BY CallKindIs DEF Calendar!WriteFails, Calendar!Pending, IsWrite
<1>2. CASE ~eventCall[r].run
  <2>1. eventCall' = [eventCall EXCEPT ![r] = None] /\ eventsMishap' = eventsMishap
    BY <1>2, NoAnswerNoted DEF Calendar!WriteFails
  <2>2. eventCall'[r] = None /\ \A w \in Request : w # r => eventCall'[w] = eventCall[w]
    BY <2>1 DEF Calendar!TypeOK
  <2>3. ~Done(r) /\ ~Done(r)' /\ ~IsFetch(r)'
    BY <1>2, <2>2 DEF Done, IsWrite, IsFetch
  <2>4. Quiet
    BY <2>2, <2>3, OthersQuiet DEF Calendar!WriteFails
  <2>5. \A w \in Request : IsFetch(w) =>
          IsFetch(w)' /\ eventCall'[w].month = eventCall[w].month
    BY <1>1, <2>2 DEF IsFetch
  <2>6. AwaitsMonth => AwaitsMonth'
    BY <2>5 DEF AwaitsMonth, Calendar!WriteFails, Calendar!hook
  <2> QED  BY <2>1, <2>4, <2>6, QuietRest DEF Calendar!WriteFails
<1>3. CASE eventCall[r].run
  <2> DEFINE cs == Calendar!Note(eventCall, Request, "lost")
  <2>1. "lost" \in Calendar!Reasons /\ "lost" # None
    BY CalendarBounds DEF Calendar!Reasons
  <2>2. /\ cs \in [Request -> EventCall]
        /\ \A w \in Request :
             /\ eventCall[w] = None <=> cs[w] = None
             /\ eventCall[w] # None /\ eventCall[w].run => cs[w].since = "lost"
             /\ IsFetch(w) => /\ cs[w] \in Calendar!FetchCall
                              /\ cs[w].run = eventCall[w].run
                              /\ cs[w].data = eventCall[w].data
             /\ IsWrite(w) => /\ cs[w] \in Calendar!WriteCall
                              /\ cs[w].run = eventCall[w].run
                              /\ cs[w].event = eventCall[w].event
    BY <2>1, NoteIs DEF EventCall
  <2>3. eventCall' = [cs EXCEPT ![r] = None] /\ eventsMishap' = "lost"
          /\ events' = events /\ rows' = rows
    BY <1>3 DEF Calendar!WriteFails, Calendar!hook
  <2> HIDE DEF cs
  <2>4. eventCall'[r] = None /\ \A w \in Request : w # r => eventCall'[w] = cs[w]
    BY <2>2, <2>3
  <2>5. /\ \A f \in Calendar!FetchCall : f.kind \notin Calendar!Changes
        /\ \A f \in Calendar!WriteCall : f.kind # "fetch"
    BY DEF Calendar!FetchCall, Calendar!WriteCall, Calendar!Changes
  <2>6. \A w \in Request :
          /\ eventCall'[w] # None /\ eventCall'[w].run => eventCall'[w].since # None
          /\ IsFetch(w)' => IsFetch(w) /\ eventCall'[w].data = eventCall[w].data
          /\ Done(w)' => Done(w) /\ eventCall'[w].event = eventCall[w].event
    <3> TAKE w \in Request
    <3>1. CASE w = r \/ eventCall[w] = None
      BY <2>2, <2>4, <3>1 DEF IsFetch, Done, IsWrite
    <3>2. CASE w # r /\ IsFetch(w)
      BY <2>1, <2>2, <2>4, <2>5, <3>2 DEF IsFetch, Done, IsWrite
    <3>3. CASE w # r /\ IsWrite(w)
      BY <2>1, <2>2, <2>4, <2>5, <3>3 DEF IsFetch, Done, IsWrite
    <3> QED  BY <3>1, <3>2, <3>3, CallKindIs
  <2> QED  BY <2>1, <2>3, <2>6, DisturbedRest, PartsInEvent
<1> QED  BY <1>2, <1>3

\* A write is done: the rows change where it says, and nowhere else.
LEMMA WrittenKeeps ==
  ASSUME Calendar!TypeOK, CallsTyped, ListsAreRight, NEW r \in Request, ~Done(r),
         Done(r)', ~IsFetch(r),
         UNCHANGED <<Calendar!hook, eventsMishap>>,
         \A x \in Event : x # eventCall'[r].event.id => rows'[x] = rows[x],
         eventCall'[r].event.id \in Event, rows'[eventCall'[r].event.id] # None,
         rows'[eventCall'[r].event.id] =
           IF eventCall'[r].kind = "delete" THEN Gone
             ELSE Calendar!Row(eventCall'[r].event),
         eventCall'[r].kind = "create" => rows[eventCall'[r].event.id] = None,
         \A w \in Request : w # r =>
           /\ Done(w) <=> Done(w)'
           /\ IsFetch(w)' <=> IsFetch(w)
           /\ IsFetch(w) => eventCall'[w] = eventCall[w]
           /\ Done(w) =>
             eventCall'[w].event = eventCall[w].event
               /\ eventCall'[w].kind = eventCall[w].kind
           /\ Done(w) /\ eventCall'[w].since = None =>
                eventCall[w].since = None
                  /\ eventCall[w].event.id # eventCall'[r].event.id
  PROVE  ListsAreRight'
<1>1. ~IsFetch(r)'
  <2>1. \A k \in Calendar!Changes : k # "fetch"
    BY DEF Calendar!Changes
  <2> QED  BY <2>1 DEF Done, IsWrite, IsFetch
<1>2. Evolves
  <2>1. \A x \in Event : Changing(x) => Changing(x)'
    BY DEF Changing
  <2>2. \A x \in Event : rows'[x] = rows[x] \/ Changing(x)'
    BY DEF Changing
  <2>3. \A x \in Event : rows[x] # None => rows'[x] # None
    OBVIOUS
  <2>4. \A w \in Request : Created(w)' =>
          \/ rows[eventCall'[w].event.id] = None
          \/ Created(w) /\ eventCall'[w].event = eventCall[w].event
    BY DEF Created
  <2> QED  BY <2>1, <2>2, <2>3, <2>4 DEF Evolves
<1>3. WritesStand'
  <2> SUFFICES ASSUME NEW w \in Request, Done(w)', eventCall'[w].since = None
               PROVE  /\ rows'[eventCall'[w].event.id] =
                           IF eventCall'[w].kind = "delete" THEN Gone
                             ELSE Calendar!Row(eventCall'[w].event)
                      /\ \A v \in Request :
                           /\ Done(v)' /\ eventCall'[v].since = None
                           /\ eventCall'[v].event.id = eventCall'[w].event.id
                           => v = w
    BY DEF WritesStand, Calendar!Row
  <2>1. CASE w = r
    BY <2>1
  <2>2. CASE w # r
    <3>1. /\ Done(w) /\ eventCall[w].since = None
          /\ eventCall'[w].event = eventCall[w].event
          /\ eventCall'[w].kind = eventCall[w].kind
          /\ eventCall[w].event.id # eventCall'[r].event.id
      BY <2>2
    <3>2. /\ rows[eventCall[w].event.id] =
               IF eventCall[w].kind = "delete" THEN Gone
                 ELSE Calendar!Row(eventCall[w].event)
          /\ \A v \in Request :
               Done(v) /\ eventCall[v].event.id = eventCall[w].event.id
                 /\ eventCall[v].since = None => v = w
      BY <3>1 DEF ListsAreRight, WritesStand
    <3>3. eventCall[w].event.id \in Event
      BY <3>1, PartsInEvent
    <3>4. rows'[eventCall'[w].event.id] =
            IF eventCall'[w].kind = "delete" THEN Gone
              ELSE Calendar!Row(eventCall'[w].event)
      BY <3>1, <3>2, <3>3
    <3>5. ASSUME NEW v \in Request, Done(v)',
                 eventCall'[v].event.id = eventCall'[w].event.id,
                 eventCall'[v].since = None
          PROVE  v = w
      <4>1. v # r
        BY <3>1, <3>5
      <4> QED  BY <3>1, <3>2, <3>5, <4>1
    <3> QED  BY <3>4, <3>5
  <2> QED  BY <2>1, <2>2
<1>4. ASSUME NEW q \in Request PROVE FetchMatches(q)' /\ DataTaken(q)'
  <2>1. FetchMatches(q) /\ DataTaken(q)
    BY InvParts DEF ListsAreRight
  <2>2. IsFetch(q)' => IsFetch(q) /\ eventCall'[q] = eventCall[q]
    BY <1>1
  <2> QED  BY <1>2, <2>1, <2>2, DataKeeps
<1>5. ListMatches' /\ \A e \in Calendar!Range(events') : rows'[e.id] # None
  <2>1. AwaitsMonth => AwaitsMonth'
    BY DEF AwaitsMonth, Calendar!hook
  <2> QED  BY <1>2, <2>1, ListKeeps DEF ListsAreRight, Calendar!TypeOK
<1>6. \A w \in Request : Done(w)' => rows'[eventCall'[w].event.id] # None
  <2> TAKE w \in Request
  <2>1. CASE w = r
    BY <2>1
  <2>2. CASE w # r
    BY <1>2, <2>2, PartsInEvent DEF ListsAreRight, IdsTaken, Evolves
  <2> QED  BY <2>1, <2>2
<1> QED  BY <1>3, <1>4, <1>5, <1>6 DEF ListsAreRight, IdsTaken, DataTaken, FetchesMatch,
                                       FetchMatches

\* create gives a free id.
LEMMA RunCreateKeeps ==
  ASSUME Calendar!TypeOK, CallsTyped, ListsAreRight, NEW r \in Request, Calendar!Run(r),
         Calendar!RunCreate(r)
  PROVE  ListsAreRight'
<1>1. /\ \E id \in Calendar!Unused :
           /\ rows' = [rows EXCEPT ![id] = Calendar!Row(eventCall'[r].event)]
           /\ eventCall'[r].event.id = id /\ eventCall'[r].event \in Calendar!Shown
      /\ eventCall'[r].kind = "create" /\ eventCall'[r].run = TRUE
      /\ eventCall'[r] \in Calendar!WriteCall
      /\ \A w \in Request : w # r => eventCall'[w] = eventCall[w]
  BY RunCreateTyped DEF Calendar!Run
<1>2. PICK id \in Calendar!Unused :
        /\ rows' = [rows EXCEPT ![id] = Calendar!Row(eventCall'[r].event)]
        /\ eventCall'[r].event.id = id /\ eventCall'[r].event \in Calendar!Shown
  BY <1>1
<1>3. /\ id \in Event /\ rows[id] = None
      /\ \A w \in Request : IsWrite(w) => eventCall[w].event.id # id
  BY DEF Calendar!Unused, Calendar!Pending, IsWrite
<1>4. ~Done(r) /\ ~IsFetch(r) /\ Done(r)'
  BY <1>1, CalendarBounds DEF Calendar!RunCreate, Done, IsWrite, IsFetch, Calendar!Changes
<1>5. \A w \in Request : w # r => (Done(w) <=> Done(w)') /\ (IsFetch(w)' <=> IsFetch(w))
  BY <1>1 DEF Done, IsWrite, IsFetch
<1>6. \A w \in Request : Done(w) => IsWrite(w)
  BY DEF Done
<1>7. Calendar!Row(eventCall'[r].event) # None
  <2>1. Calendar!Row(eventCall'[r].event) \in Calendar!Content
    BY <1>2 DEF Calendar!Row, Calendar!Content, Calendar!Shown
  <2> QED  BY <2>1, CalendarBounds
<1>8. /\ \A x \in Event : x # id => rows'[x] = rows[x]
      /\ rows'[id] = Calendar!Row(eventCall'[r].event)
  BY <1>2, <1>3 DEF Calendar!TypeOK
<1> QED
  BY <1>1, <1>2, <1>3, <1>4, <1>5, <1>6, <1>7, <1>8, WrittenKeeps DEF Calendar!Run

\* update and remove overtake the earlier writes of the same event.
LEMMA OvertakeKeeps ==
  ASSUME Calendar!TypeOK, CallsTyped, ListsAreRight, NEW r \in Request, Calendar!Run(r),
         Calendar!RunUpdate(r) \/ Calendar!RunRemove(r)
  PROVE  ListsAreRight'
<1> DEFINE e == eventCall[r].event
           x == IF eventCall[r].kind = "delete" THEN Gone ELSE Calendar!Row(e)
<1>1. /\ IsWrite(r) /\ ~eventCall[r].run /\ eventCall[r].kind # "create"
      /\ e \in Calendar!Shown
      /\ rows' = [rows EXCEPT ![e.id] = x]
      /\ eventCall'[r] = [eventCall[r] EXCEPT !.run = TRUE]
      /\ \A w \in Request : w # r =>
           /\ eventCall'[w] = eventCall[w] \/ eventCall'[w].since = "overtaken"
           /\ eventCall[w] = None <=> eventCall'[w] = None
           /\ IsFetch(w) => eventCall'[w] = eventCall[w]
           /\ IsWrite(w) =>
                /\ eventCall'[w] \in Calendar!WriteCall
                /\ eventCall'[w].kind = eventCall[w].kind
                /\ eventCall'[w].run = eventCall[w].run
                /\ eventCall'[w].event = eventCall[w].event
                /\ eventCall[w].run /\ eventCall[w].event.id = e.id =>
                  eventCall'[w].since = "overtaken"
  BY OvertakeTyped DEF Calendar!Run
<1>2. eventCall[r] \in Calendar!WriteCall /\ ~IsFetch(r)
  BY <1>1, CallKindIs
<1>3. /\ eventCall'[r] \in Calendar!WriteCall /\ eventCall'[r].run = TRUE
      /\ eventCall'[r].event = e /\ eventCall'[r].kind = eventCall[r].kind
  BY <1>1, <1>2 DEF Calendar!WriteCall
<1>4. "overtaken" # None
  BY CalendarBounds DEF Calendar!Reasons
<1>5. ~Done(r) /\ Done(r)'
  BY <1>1, <1>3, CalendarBounds DEF Done, IsWrite
<1>6. e.id \in Event /\ x # None
  <2>1. Calendar!Row(e) \in Calendar!Content /\ e.id \in Event
    BY <1>1 DEF Calendar!Row, Calendar!Content, Calendar!Shown
  <2> QED  BY <2>1, CalendarBounds
<1>7. rows'[e.id] = x /\ \A y \in Event : y # e.id => rows'[y] = rows[y]
  <2> HIDE DEF x, e
  <2> QED  BY <1>1, <1>6 DEF Calendar!TypeOK
<1>8. ASSUME NEW w \in Request, w # r
      PROVE  /\ Done(w) <=> Done(w)'
             /\ IsFetch(w)' <=> IsFetch(w)
             /\ IsFetch(w) => eventCall'[w] = eventCall[w]
             /\ Done(w) =>
               eventCall'[w].event = eventCall[w].event
                 /\ eventCall'[w].kind = eventCall[w].kind
             /\ Done(w) /\ eventCall'[w].since = None =>
                  eventCall[w].since = None /\ eventCall[w].event.id # e.id
  <2> HIDE DEF e
  <2>1. CASE eventCall[w] = None
    BY <1>1, <1>8, <2>1 DEF Done, IsWrite, IsFetch
  <2>2. CASE IsFetch(w)
    BY <1>1, <1>8, <2>2, CallKindIs DEF Done, IsWrite, IsFetch
  <2>3. CASE IsWrite(w)
    <3>1. ~IsFetch(w) /\ eventCall'[w] # None
      BY <1>1, <1>8, <2>3, CallKindIs DEF IsWrite
    <3>2. ~IsFetch(w)' /\ IsWrite(w)'
      BY <1>1, <1>8, <2>3, <3>1 DEF IsWrite, IsFetch
    <3> QED  BY <1>1, <1>4, <1>8, <2>3, <3>1, <3>2 DEF Done
  <2> QED  BY <2>1, <2>2, <2>3, CallKindIs
<1>9. rows'[e.id] = IF eventCall'[r].kind = "delete" THEN Gone
        ELSE Calendar!Row(eventCall'[r].event)
  BY <1>3, <1>7
<1> HIDE DEF x, e
<1> QED
  BY <1>1, <1>2, <1>3, <1>5, <1>6, <1>7, <1>8, <1>9, WrittenKeeps DEF Calendar!Run

\* The answer for the month replaces the list.
LEMMA FetchArrivesKeeps ==
  ASSUME Calendar!TypeOK, CallsTyped, ListsAreRight, NEW r \in Request,
         Calendar!FetchArrives(r)
  PROVE  ListsAreRight'
<1>1. IsFetch(r) /\ ~Done(r) /\ eventCall[r].run
  BY CallKindIs DEF Calendar!FetchArrives, Calendar!Pending, IsFetch, Done
<1>2. eventCall'[r] = None /\ \A w \in Request : w # r => eventCall'[w] = eventCall[w]
  BY DEF Calendar!TypeOK, Calendar!FetchArrives
<1>3. ~Done(r)' /\ ~IsFetch(r)'
  BY <1>2 DEF Done, IsWrite, IsFetch
<1>4. Quiet
  BY <1>1, <1>2, <1>3, OthersQuiet DEF Calendar!FetchArrives
<1>5. WritesStand' /\ FetchesMatch' /\ \A q \in Request : DataTaken(q)'
  BY <1>4, QuietKeeps DEF ListsAreRight
<1>6. FetchMatches(r) /\ DataTaken(r)
  BY InvParts DEF ListsAreRight
<1>7. events' = eventCall[r].data /\ rows' = rows /\ currentMonth' = currentMonth
  BY DEF Calendar!FetchArrives
<1>8. \A e \in Calendar!Range(events') : rows'[e.id] # None
  BY <1>1, <1>6, <1>7 DEF DataTaken
<1>9. \A w \in Request : Done(w)' => rows'[eventCall'[w].event.id] # None
  BY <1>4 DEF Quiet, ListsAreRight, IdsTaken
<1>10. ASSUME eventsMishap' = None PROVE ListHas(events, currentMonth)' /\ Unlisted'
  <2>1. /\ eventCall[r].month = currentMonth /\ eventCall[r].since = None
        /\ ~\E w \in Calendar!Pending({"create"}) : eventCall[w].run
          /\ eventCall[w].event \in Calendar!Range(eventCall[r].data)
    BY <1>10, CalendarBounds DEF Calendar!FetchArrives, Calendar!Reasons
  <2>2. /\ ListHas(eventCall[r].data, currentMonth)
        /\ \A w \in Request : Created(w) =>
             \A e \in Calendar!Range(eventCall[r].data) : e.id = eventCall[w].event.id =>
               e = eventCall[w].event
    BY <1>1, <1>6, <2>1 DEF FetchMatches
  <2>3. PICK t, n : t = eventCall[r].data /\ n = currentMonth
    OBVIOUS
  <2>4. ListHas(events, currentMonth)'
    <3>1. ListHas(t, n)'
      BY <1>4, <2>2, <2>3, QuietEvolves, MatchKeeps
    <3>2. events' = t /\ currentMonth' = n
      BY <1>7, <2>3
    <3> QED  BY <3>1, <3>2 DEF ListHas
  <2>5. ASSUME NEW w \in Request, Created(w)',
               NEW i \in DOMAIN t, t[i].id = eventCall'[w].event.id
        PROVE  FALSE
    <3>1. Created(w) /\ eventCall'[w].event = eventCall[w].event
      BY <1>4, <2>5 DEF Quiet, Created
    <3>2. t[i] \in Calendar!Range(eventCall[r].data)
      BY <2>3 DEF Calendar!Range
    <3>3. t[i] = eventCall[w].event
      BY <2>2, <2>5, <3>1, <3>2
    <3>4. w \in Calendar!Pending({"create"}) /\ eventCall[w].run
      BY <3>1 DEF Created, Done, IsWrite, Calendar!Pending
    <3> QED  BY <2>1, <3>2, <3>3, <3>4
  <2> QED  BY <1>7, <2>3, <2>4, <2>5 DEF Unlisted, Calendar!Listed
<1> QED  BY <1>5, <1>8, <1>9, <1>10 DEF ListsAreRight, IdsTaken, DataTaken, ListMatches,
                                        Unlisted

\* What a write does to the list
LEMMA ChangedIs ==
  ASSUME NEW k \in Calendar!Changes, NEW e \in Calendar!Shown,
         events \in Seq(Calendar!Shown)
  PROVE  LET s == Calendar!Changed(k, e)
         IN  /\ \A f \in Calendar!Range(s) : f \in Calendar!Range(events) \/ f = e
             /\ \A f \in Calendar!Range(events) : f.id # e.id => f \in Calendar!Range(s)
             /\ k = "delete" => \A f \in Calendar!Range(s) : f.id # e.id
             /\ k = "create" => e \in Calendar!Range(s)
             /\ k = "update" => /\ Calendar!Listed(e.id) => e \in Calendar!Range(s)
                                /\ \A f \in Calendar!Range(s) : f.id = e.id => f = e
             /\ (\A i, j \in DOMAIN events : events[i].id = events[j].id => i = j)
                  /\ (k = "create" => ~Calendar!Listed(e.id))
                => \A i, j \in DOMAIN s : s[i].id = s[j].id => i = j
<1> DEFINE s == Calendar!Changed(k, e)
<1>1. DOMAIN events = 1 .. Len(events) /\ Len(events) \in Nat
  OBVIOUS
<1>2. CASE k = "create"
  <2>1. s = Append(events, e)
    BY <1>2 DEF Calendar!Changed
  <2>2. /\ DOMAIN s = 1 .. Len(events) + 1 /\ s[Len(events) + 1] = e
        /\ \A i \in DOMAIN events : s[i] = events[i]
    BY <1>1, <2>1
  <2> HIDE DEF s
  <2>3. \A i \in DOMAIN s : i = Len(events) + 1 \/ i \in DOMAIN events
    BY <1>1, <2>2
  <2>4. \A i \in DOMAIN events : i \in DOMAIN s /\ i # Len(events) + 1
    BY <1>1, <2>2
  <2>5. Len(events) + 1 \in DOMAIN s
    BY <1>1, <2>2
  <2>6. \A f \in Calendar!Range(s) : f \in Calendar!Range(events) \/ f = e
    BY <2>2, <2>3 DEF Calendar!Range
  <2>7. \A f \in Calendar!Range(events) : f \in Calendar!Range(s)
    BY <2>2, <2>4 DEF Calendar!Range
  <2>8. e \in Calendar!Range(s)
    BY <2>2, <2>5 DEF Calendar!Range
  <2>9. ASSUME \A i, j \in DOMAIN events : events[i].id = events[j].id => i = j,
               ~Calendar!Listed(e.id),
               NEW i \in DOMAIN s, NEW j \in DOMAIN s, s[i].id = s[j].id
        PROVE  i = j
    <3>1. CASE i \in DOMAIN events /\ j \in DOMAIN events
      BY <2>2, <2>9, <3>1
    <3>2. CASE i = Len(events) + 1 /\ j \in DOMAIN events
      BY <2>2, <2>9, <3>2 DEF Calendar!Listed
    <3>3. CASE j = Len(events) + 1 /\ i \in DOMAIN events
      BY <2>2, <2>9, <3>3 DEF Calendar!Listed
    <3> QED  BY <2>3, <3>1, <3>2, <3>3
  <2> QED  BY <1>2, <2>6, <2>7, <2>8, <2>9 DEF s
<1>3. CASE k = "update"
  <2>1. s = [i \in DOMAIN events |-> IF events[i].id = e.id THEN e ELSE events[i]]
    BY <1>3 DEF Calendar!Changed
  <2>2. /\ DOMAIN s = DOMAIN events
        /\ \A i \in DOMAIN events : /\ events[i].id = e.id => s[i] = e
                                    /\ events[i].id # e.id => s[i] = events[i]
                                    /\ s[i].id = events[i].id
    BY <2>1
  <2> HIDE DEF s
  <2>3. \A f \in Calendar!Range(s) : f \in Calendar!Range(events) \/ f = e
    BY <2>2 DEF Calendar!Range
  <2>4. \A f \in Calendar!Range(events) : f.id # e.id => f \in Calendar!Range(s)
    BY <2>2 DEF Calendar!Range
  <2>5. Calendar!Listed(e.id) => e \in Calendar!Range(s)
    BY <2>2 DEF Calendar!Range, Calendar!Listed
  <2>6. \A f \in Calendar!Range(s) : f.id = e.id => f = e
    BY <2>2 DEF Calendar!Range
  <2>7. (\A i, j \in DOMAIN events : events[i].id = events[j].id => i = j)
          => \A i, j \in DOMAIN s : s[i].id = s[j].id => i = j
    BY <2>2
  <2> QED  BY <1>3, <2>3, <2>4, <2>5, <2>6, <2>7 DEF s
<1>4. CASE k = "delete"
  <2> DEFINE P == {i \in DOMAIN events : events[i].id # e.id}
  <2>1. s = Calendar!Kept(events, P)
    BY <1>4 DEF Calendar!Changed
  <2>2. P \in SUBSET DOMAIN events
    OBVIOUS
  <2>3. \A i \in DOMAIN events : i \in P <=> events[i].id # e.id
    OBVIOUS
  <2> HIDE DEF s, P
  <2>4. PICK at \in [DOMAIN s -> P] :
          /\ \A n \in DOMAIN at : s[n] = events[at[n]]
          /\ \A i, j \in DOMAIN at : i < j => at[i] < at[j]
          /\ \A p \in P : \E n \in DOMAIN at : at[n] = p
    BY <2>1, <2>2, KeptIs, SameCalendarLists
  <2>5. s \in Seq(Calendar!Shown)
    BY <2>1, <2>2, KeptIs, SameCalendarLists
  <2>6. DOMAIN s = 1 .. Len(s) /\ Len(s) \in Nat
    BY <2>5
  <2>7. \A n \in DOMAIN s : at[n] \in DOMAIN events /\ s[n] = events[at[n]]
          /\ s[n].id # e.id
    BY <2>2, <2>3, <2>4
  <2>8. \A f \in Calendar!Range(s) : f \in Calendar!Range(events) /\ f.id # e.id
    BY <2>7 DEF Calendar!Range
  <2>9. \A f \in Calendar!Range(events) : f.id # e.id => f \in Calendar!Range(s)
    BY <2>3, <2>4 DEF Calendar!Range
  <2>10. ASSUME \A i, j \in DOMAIN events : events[i].id = events[j].id => i = j,
                NEW i \in DOMAIN s, NEW j \in DOMAIN s, s[i].id = s[j].id
         PROVE  i = j
    <3>1. at[i] = at[j]
      BY <2>7, <2>10
    <3>2. ~(at[i] < at[j]) /\ ~(at[j] < at[i])
      BY <1>1, <2>7, <3>1
    <3> QED  BY <2>4, <2>6, <3>2
  <2> QED  BY <1>4, <2>8, <2>9, <2>10 DEF s
<1> QED  BY <1>2, <1>3, <1>4 DEF Calendar!Changes

\* The answer of a write brings the list up to what its row says.
LEMMA WriteArrivesKeeps ==
  ASSUME Calendar!TypeOK, CallsTyped, ListsAreRight, NEW r \in Request,
         Calendar!WriteArrives(r)
  PROVE  ListsAreRight'
<1> DEFINE e == eventCall[r].event
           k == eventCall[r].kind
           cs == Calendar!Note(eventCall, Calendar!Pending({"fetch"}), "undone")
<1>1. Done(r) /\ IsWrite(r) /\ k \in Calendar!Changes /\ e \in Calendar!Shown
  BY DEF Calendar!WriteArrives, Calendar!Pending, IsWrite, Done, CallsTyped
<1>2. Calendar!Pending({"fetch"}) \in SUBSET Request /\ "undone" \in Calendar!Reasons
        /\ "undone" # None
  BY CalendarBounds DEF Calendar!Pending, Calendar!Reasons
<1>3. \A w \in Request : w \in Calendar!Pending({"fetch"}) <=> IsFetch(w)
  BY DEF Calendar!Pending, IsFetch
<1>4. /\ cs \in [Request -> EventCall]
      /\ \A w \in Request :
           /\ cs[w] = eventCall[w] \/ w \in Calendar!Pending({"fetch"})
           /\ /\ w \in Calendar!Pending({"fetch"})
              /\ eventCall[w] # None /\ eventCall[w].run
              => cs[w].since = "undone"
           /\ eventCall[w] = None <=> cs[w] = None
           /\ IsFetch(w) => /\ cs[w] \in Calendar!FetchCall
                            /\ cs[w].month = eventCall[w].month
                            /\ cs[w].run = eventCall[w].run
                            /\ cs[w].data = eventCall[w].data
  <2> HIDE DEF e, k
  <2> QED  BY <1>2, NoteIs DEF EventCall
<1> HIDE DEF cs
<1>5. /\ eventCall' = [cs EXCEPT ![r] = None] /\ rows' = rows
      /\ currentMonth' = currentMonth
      /\ events' = Calendar!Changed(k, e)
      /\ eventsMishap' = CASE eventCall[r].since # None -> eventCall[r].since
                           [] k = "update" /\ ~Calendar!Listed(e.id) -> "unlisted"
                           [] OTHER -> eventsMishap
  BY DEF Calendar!WriteArrives, cs
<1> HIDE DEF e, k
<1>6. eventCall'[r] = None /\ \A w \in Request : w # r => eventCall'[w] = cs[w]
  BY <1>4, <1>5
<1>7. \A f \in Calendar!FetchCall : f.kind = "fetch" /\ f.kind \notin Calendar!Changes
        /\ f # None
  BY CalendarBounds DEF Calendar!FetchCall, Calendar!Changes
<1>8. ASSUME NEW w \in Request
      PROVE  /\ Done(w)' => w # r /\ Done(w) /\ eventCall'[w] = eventCall[w]
             /\ w # r /\ Done(w) => Done(w)'
             /\ IsFetch(w)' <=> IsFetch(w)
             /\ IsFetch(w) => /\ eventCall'[w].month = eventCall[w].month
                              /\ eventCall'[w].data = eventCall[w].data
                              /\ eventCall'[w].run => eventCall'[w].since # None
  <2>1. CASE w = r
    <3>1. ~IsFetch(r)
      BY <1>1, CallKindIs
    <3> QED  BY <1>6, <2>1, <3>1 DEF Done, IsWrite, IsFetch
  <2>2. CASE w # r /\ IsFetch(w)
    <3>1. eventCall'[w] = cs[w] /\ cs[w] \in Calendar!FetchCall /\ ~IsWrite(w)
            /\ eventCall[w] # None
      BY <1>4, <1>6, <2>2, CallKindIs DEF IsFetch
    <3>2. IsFetch(w)' /\ ~IsWrite(w)'
      BY <1>7, <3>1 DEF IsFetch, IsWrite
    <3> QED  BY <1>2, <1>3, <1>4, <2>2, <3>1, <3>2 DEF Done
  <2>3. CASE w # r /\ ~IsFetch(w)
    BY <1>3, <1>4, <1>6, <2>3 DEF Done, IsWrite, IsFetch
  <2> QED  BY <2>1, <2>2, <2>3
<1>9. WritesStand'
  BY <1>5, <1>8, StandKeeps DEF ListsAreRight
<1>10. FetchesMatch'
  BY <1>8 DEF FetchesMatch
<1> DEFINE s == events'
<1>11. /\ \A f \in Calendar!Range(s) : f \in Calendar!Range(events) \/ f = e
       /\ \A f \in Calendar!Range(events) : f.id # e.id => f \in Calendar!Range(s)
       /\ k = "delete" => \A f \in Calendar!Range(s) : f.id # e.id
       /\ k = "create" => e \in Calendar!Range(s)
       /\ k = "update" => /\ Calendar!Listed(e.id) => e \in Calendar!Range(s)
                          /\ \A f \in Calendar!Range(s) : f.id = e.id => f = e
       /\ (\A i, j \in DOMAIN events : events[i].id = events[j].id => i = j)
            /\ (k = "create" => ~Calendar!Listed(e.id))
          => \A i, j \in DOMAIN s : s[i].id = s[j].id => i = j
  <2>1. events \in Seq(Calendar!Shown)
    BY DEF Calendar!TypeOK
  <2> QED  BY <1>1, <1>5, <2>1, ChangedIs
<1>12. IdsTaken'
  <2>1. \A f \in Calendar!Range(s) : rows'[f.id] # None
    <3>1. rows[e.id] # None
      BY <1>1 DEF ListsAreRight, IdsTaken, e
    <3> QED  BY <1>5, <1>11, <3>1 DEF ListsAreRight, IdsTaken
  <2>2. \A w \in Request : IsFetch(w)' =>
          \A f \in Calendar!Range(eventCall'[w].data) : rows'[f.id] # None
    BY <1>5, <1>8 DEF ListsAreRight, IdsTaken
  <2>3. \A w \in Request : Done(w)' => rows'[eventCall'[w].event.id] # None
    BY <1>5, <1>8 DEF ListsAreRight, IdsTaken
  <2> QED  BY <2>1, <2>2, <2>3 DEF IdsTaken
<1>13. ASSUME eventsMishap' = None, ~AwaitsMonth'
       PROVE  ListHas(events, currentMonth)' /\ Unlisted'
  <2>1. eventCall[r].since = None /\ (k = "update" => Calendar!Listed(e.id))
          /\ eventsMishap = None
    BY <1>5, <1>13, CalendarBounds DEF Calendar!Reasons
  <2>2. ~AwaitsMonth
    BY <1>5, <1>8, <1>13 DEF AwaitsMonth
  <2>3. ListHas(events, currentMonth) /\ Unlisted
    BY <2>1, <2>2 DEF ListsAreRight, ListMatches, Unlisted
  <2>4. /\ rows[e.id] = IF k = "delete" THEN Gone ELSE Calendar!Row(e)
        /\ \A v \in Request : Done(v) /\ eventCall[v].event.id = e.id
          /\ eventCall[v].since = None => v = r
    BY <1>1, <2>1 DEF ListsAreRight, WritesStand, e, k
  <2>5. k = "create" => ~Calendar!Listed(e.id)
    BY <1>1, <2>1, <2>3 DEF Unlisted, Created, e, k
  <2>6. \A i, j \in DOMAIN events : events[i].id = events[j].id => i = j
    BY <2>3 DEF ListHas
  <2>7. \A i, j \in DOMAIN s : s[i].id = s[j].id => i = j
    BY <1>11, <2>5, <2>6
  <2>8. \A f \in Calendar!Range(s) : f.id = e.id => f = e /\ k # "delete"
    <3>1. k = "create" => \A f \in Calendar!Range(events) : f.id # e.id
      BY <2>5 DEF Calendar!Listed, Calendar!Range
    <3> QED  BY <1>1, <1>11, <3>1 DEF Calendar!Changes
  <2>9. k # "delete" => e \in Calendar!Range(s)
    BY <1>1, <1>11, <2>1 DEF Calendar!Changes
  <2>10. ASSUME NEW f \in Calendar!Shown, ~Changing(f.id)',
                Calendar!Month(f.at) = currentMonth
         PROVE  f \in Calendar!Range(s) <=> rows[f.id] = Calendar!Row(f)
    <3>1. CASE f.id = e.id
      <4>1. f \in Calendar!Range(s) <=> k # "delete" /\ f = e
        BY <2>8, <2>9, <3>1
      <4>2. Calendar!Row(f) # Gone /\ (Calendar!Row(f) = Calendar!Row(e) <=> f = e)
        <5>1. Calendar!Row(f) # Gone
          BY RowIs
        <5>2. Calendar!Row(f) = Calendar!Row(e) => f.at = e.at /\ f.text = e.text
          BY DEF Calendar!Row
        <5> QED  BY <1>1, <3>1, <5>1, <5>2 DEF Calendar!Shown
      <4> QED  BY <2>4, <3>1, <4>1, <4>2
    <3>2. CASE f.id # e.id
      <4>1. ~Changing(f.id)
        BY <1>8, <2>10, <3>2 DEF Changing, e
      <4>2. f \in Calendar!Range(events) <=> rows[f.id] = Calendar!Row(f)
        BY <2>3, <2>10, <4>1 DEF ListHas
      <4> QED  BY <1>11, <3>2, <4>2
    <3> QED  BY <3>1, <3>2
  <2>11. ListHas(events, currentMonth)'
    BY <1>5, <2>7, <2>10 DEF ListHas, Calendar!Row
  <2>12. ASSUME NEW w \in Request, Created(w)', NEW i \in DOMAIN s,
                s[i].id = eventCall'[w].event.id
         PROVE  FALSE
    <3>1. w # r /\ Created(w) /\ eventCall'[w] = eventCall[w]
      BY <1>8, <2>12 DEF Created
    <3>2. eventCall[w].event.id # e.id
      BY <2>4, <3>1 DEF Created
    <3>3. s[i] \in Calendar!Range(s)
      BY DEF Calendar!Range
    <3>4. s[i] \in Calendar!Range(events)
      BY <1>11, <2>12, <3>1, <3>2, <3>3
    <3>5. Calendar!Listed(eventCall[w].event.id)
      BY <2>12, <3>1, <3>4 DEF Calendar!Range, Calendar!Listed
    <3> QED  BY <2>3, <3>1, <3>5 DEF Unlisted
  <2> QED  BY <2>11, <2>12 DEF Unlisted, Calendar!Listed
<1> QED  BY <1>9, <1>10, <1>12, <1>13 DEF ListsAreRight, ListMatches, Unlisted

\* The invariant holds initially.
LEMMA CalendarInit == Calendar!Init => CalendarInv
<1> SUFFICES ASSUME Calendar!Init PROVE CalendarInv
  OBVIOUS
<1>1. PICK r \in Request :
        eventCall = [q \in Request |-> IF q = r THEN Calendar!Fetch(0) ELSE None]
  BY DEF Calendar!Init
<1>2. Calendar!Fetch(0) \in Calendar!FetchCall
  BY CalendarBounds DEF Calendar!Fetch, Calendar!FetchCall, Calendar!Mishap
<1>3. Calendar!TypeOK
  BY <1>1, <1>2, CalendarBounds DEF Calendar!TypeOK, Calendar!Init, Calendar!Content,
                                    Calendar!Mishap
<1>4. \A w \in Request : ~IsWrite(w)
  BY <1>1 DEF IsWrite, Calendar!Fetch, Calendar!Changes
<1>5. IsFetch(r) /\ eventCall[r].month = 0
  BY <1>1, <1>2, CalendarBounds DEF IsFetch, Calendar!Fetch
<1>6. \A w \in Request : IsFetch(w) => ~eventCall[w].run /\ eventCall[w].data = << >>
  BY <1>1 DEF IsFetch, Calendar!Fetch
<1>7. IdsTaken
  BY <1>4, <1>6 DEF IdsTaken, Calendar!Init, Calendar!Range, Done
<1>8. AwaitsMonth
  BY <1>5 DEF AwaitsMonth, Calendar!Init
<1> QED
  BY <1>3, <1>4, <1>6, <1>7, <1>8
     DEF CalendarInv, CallsTyped, WritesStand, Done, FetchesMatch, ListMatches

\* The invariant is inductive ...
LEMMA CalendarNext == CalendarInv /\ [Calendar!Next]_(Calendar!vars) => CalendarInv'
<1> SUFFICES ASSUME CalendarInv, [Calendar!Next]_(Calendar!vars) PROVE CalendarInv'
  OBVIOUS
<1>1. Calendar!TypeOK /\ CallsTyped /\ ListsAreRight
  BY DEF CalendarInv, ListsAreRight
<1>2. CASE UNCHANGED Calendar!vars
  BY <1>2 DEF Calendar!vars, Calendar!hook, Calendar!modal, CalendarInv, Calendar!TypeOK,
              CallsTyped, IdsTaken, WritesStand,
              FetchesMatch, ListMatches, ListHas, Changing, Created, AwaitsMonth,
              Calendar!Listed, Done,
              IsWrite, IsFetch, Calendar!Row
<1>3. CASE Calendar!Next
  <2>1. Calendar!TypeOK' /\ CallsTyped'
    BY <1>1, <1>3, CalendarTyped
  <2>2. ASSUME NEW r \in Request, Calendar!Run(r) PROVE ListsAreRight'
    BY <1>1, <2>2, RunFetchKeeps, RunCreateKeeps, OvertakeKeeps DEF Calendar!Run
  <2>3. ASSUME NEW id \in Event,
               NEW row \in [at : Calendar!Time, text : Text] \cup {Gone},
               Calendar!PartnerWrites(id, row)
        PROVE  ListsAreRight'
    BY <1>1, <2>3, PartnerKeeps DEF Calendar!Content
  <2>4. ASSUME \/ \E d \in Calendar!Days : Calendar!DateClick(d)
               \/ \E e \in Calendar!Range(events) : Calendar!SelectEvent(e)
               \/ Calendar!NewEvent \/ Calendar!CloseForm
        PROVE  ListsAreRight'
    <3>1. UNCHANGED <<rows, Calendar!hook, eventCall, eventsMishap>>
      BY <2>4 DEF Calendar!DateClick, Calendar!SelectEvent, Calendar!NewEvent,
                  Calendar!CloseForm
    <3> QED  BY <1>1, <3>1, ModalKeeps
  <2>5. ListsAreRight'
    BY <1>1, <1>3, <2>2, <2>3, <2>4, DatesKeep, SubmitKeeps, FetchArrivesKeeps,
       WriteArrivesKeeps, FetchFailKeeps, WriteFailKeeps
       DEF Calendar!Next
  <2> QED  BY <2>1, <2>5 DEF CalendarInv, ListsAreRight
<1> QED  BY <1>2, <1>3

\* ... and once nothing is under way, it is CalendarIsCurrent.
LEMMA CalendarShows == CalendarInv => Calendar!CalendarIsCurrent
<1> SUFFICES ASSUME CalendarInv, eventCall = [r \in Request |-> None], eventsMishap = None
             PROVE  /\ {e \in Calendar!Range(events) :
                           Calendar!Month(e.at) = currentMonth} = Calendar!RowsOf(currentMonth)
                    /\ \A i, j \in DOMAIN events : events[i].id = events[j].id => i = j
  BY DEF Calendar!CalendarIsCurrent
<1>1. Calendar!TypeOK
  BY DEF CalendarInv
<1>2. \A w \in Request : ~IsFetch(w) /\ ~Done(w)
  BY DEF IsFetch, Done, IsWrite
<1>3. ListHas(events, currentMonth)
  BY <1>2 DEF CalendarInv, ListMatches, AwaitsMonth
<1>4. \A e \in Calendar!Shown : Calendar!Month(e.at) = currentMonth =>
        (e \in Calendar!Range(events) <=> rows[e.id] = Calendar!Row(e))
  BY <1>2, <1>3 DEF ListHas, Changing
<1>5. \A e \in Calendar!Range(events) : e \in Calendar!Shown
  BY <1>1, RangeIs DEF Calendar!TypeOK
<1>6. /\ Calendar!RowsOf(currentMonth) \in SUBSET Calendar!Shown
      /\ \A e \in Calendar!Shown : e \in Calendar!RowsOf(currentMonth) <=>
                                     Calendar!Month(e.at) = currentMonth
                                       /\ rows[e.id] = Calendar!Row(e)
  BY <1>1, RowsAre
<1>7. {e \in Calendar!Range(events) : Calendar!Month(e.at) = currentMonth} =
        Calendar!RowsOf(currentMonth)
  BY <1>4, <1>5, <1>6
<1> QED  BY <1>3, <1>7 DEF ListHas
=============================================================================

