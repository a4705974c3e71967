---------------------------- MODULE FleetProofs -----------------------------
(***************************************************************************)
(* What instances, file and clients owe each other, for any number of ids, *)
(* forms, requests, failed writes and crashes.                             *)
(***************************************************************************)
EXTENDS Fleet, SequenceTheorems, WellFoundedInduction, TLAPS

\* What Restruo itself writes: no id twice, and the next one above them all.
Sound(s) ==
    /\ s \in Contents /\ Distinct(s.records)
    /\ \A i \in IdsIn(s.records) : i < s.next

OnDisk == disk # NoFile => disk \in Contents /\ Distinct(disk.records)

InMemory ==
    /\ up \in BOOLEAN /\ Sound(store)
    /\ up => store = Load(disk)
    /\ ~up => /\ clients = {} /\ made = NoneMade /\ retiring = {} /\ closed = {}
              /\ store = Nothing /\ holds = Idle /\ age = NoTime

\* Every record has one client, of that very record.
OneEach(some, records) ==
    /\ \A c \in some : \E r \in ToSet(records) : Fits(c, r)
    /\ \A r \in ToSet(records) : \E c \in some : Fits(c, r)
    /\ \A c, d \in some : c.id = d.id => c = d

\* Clients are numbered as they are made, and none is made of an id to come.
Counted ==
    /\ made \in [Ids -> 0 .. MaxMade]
    /\ \A i \in Ids : i >= store.next => made[i] = 0
    /\ clients \subseteq Clients /\ \A c \in clients : c.no <= made[c.id]
    /\ closed \subseteq Clients /\ \A c \in closed : c.no <= made[c.id]
    /\ \A x \in retiring : x.client \in Clients /\ x.client.no <= made[x.client.id]

\* Who still holds a retired client has held it for as long as it is retired.
Timed ==
    /\ clients \cap closed = {}
    /\ \A x \in retiring : x.ticks \in 0 .. RetireAfter /\ x.client \notin clients
    /\ holds \in [Requests -> Clients \cup {NoClient}] /\ age \in [Requests -> 0 .. JobLimit]
    /\ \A r \in Busy : holds[r].no <= made[holds[r].id]
    /\ \A r \in Busy, x \in retiring : x.client = holds[r] => x.ticks <= age[r]
    /\ NotClosedEarly

\* Ids given out are below the next one, and those in use have been given out.
Known ==
    /\ given \subseteq Ids /\ IdsIn(Load(disk).records) \subseteq given
    /\ \A i \in given : i < Load(disk).next

IInv ==
    /\ OnDisk /\ InMemory /\ OneEach(clients, store.records)
    /\ Counted /\ Timed /\ Known /\ trouble \in 0 .. MaxTrouble

-----------------------------------------------------------------------------
(* The next id.                                                            *)

LEMMA MinExists ==
  ASSUME NEW T, T \subseteq Nat, T # {}
  PROVE  \E x \in T : \A y \in T : x <= y
  <1>1. PICK x \in T : \A y \in T : ~ (<<y, x>> \in OpToRel(<, Nat))
    BY NatLessThanWellFounded, WFMin
  <1>2. ASSUME NEW y \in T PROVE x <= y
    <2>1. x \in Nat /\ y \in Nat
      OBVIOUS
    <2>2. ~ (y < x)
      BY <1>1, <2>1 DEF OpToRel
    <2> QED BY <2>1, <2>2
  <1> QED BY <1>1, <1>2

LEMMA MaxIsGreatest ==
  ASSUME NEW n \in Nat, NEW T, T \subseteq 1 .. n, T # {}
  PROVE  Max(T) \in T /\ \A y \in T : Max(T) >= y
  <1> DEFINE D == {n - x : x \in T}
  <1>1. D # {} /\ \A d \in D : d \in Nat
    <2>1. ASSUME NEW x \in T PROVE n - x \in Nat
      <3>1. x \in 1 .. n
        OBVIOUS
      <3> QED BY <3>1
    <2> QED BY <2>1
  <1>2. PICK d \in D : \A y \in D : d <= y
    BY <1>1, MinExists
  <1>3. PICK x \in T : d = n - x
    BY <1>2
  <1>4. ASSUME NEW y \in T PROVE x >= y
    <2>1. x \in 1 .. n /\ y \in 1 .. n
      OBVIOUS
    <2>2. n - x <= n - y
      BY <1>2, <1>3
    <2> QED BY <2>1, <2>2
  <1>5. \E z \in T : \A y \in T : z >= y
    BY <1>4
  <1> QED BY <1>5 DEF Max

LEMMA Elements ==
  ASSUME NEW records \in Seq(Records)
  PROVE  /\ ToSet(records) \subseteq Records /\ IdsIn(records) \subseteq Ids
         /\ \A i \in IdsIn(records) : \E r \in ToSet(records) : r.id = i
         /\ \A r \in ToSet(records) : r.id \in IdsIn(records)
  <1>1. ToSet(records) \subseteq Records
    BY DEF ToSet
  <1> QED BY <1>1 DEF IdsIn, Records

LEMMA DistinctElements ==
  ASSUME NEW records, Distinct(records)
  PROVE  \A q, r \in ToSet(records) : q.id = r.id => q = r
  BY DEF Distinct, ToSet

\* Whatever file there may be, what is made of it is sound.
LEMMA LoadIsSound ==
  ASSUME NEW file, file # NoFile => file \in Contents /\ Distinct(file.records)
  PROVE  /\ Sound(Load(file))
         /\ Load(file).records = IF file = NoFile THEN <<>> ELSE file.records
  <1>1. CASE file = NoFile
    <2>1. Load(file) = Nothing
      BY <1>1 DEF Load
    <2>2. Nothing \in Contents
      BY ConstantsAssumption DEF Nothing, Contents
    <2>3. Distinct(Nothing.records) /\ IdsIn(Nothing.records) = {}
      BY DEF Nothing, Distinct, IdsIn, ToSet
    <2> QED BY <1>1, <2>1, <2>2, <2>3 DEF Sound, Nothing
  <1>2. CASE file # NoFile
    <2> DEFINE T == {file.next} \cup {i + 1 : i \in IdsIn(file.records)}
    <2>1. file.next \in 1 .. MaxId + 1 /\ file.records \in Seq(Records)
      BY <1>2 DEF Contents
    <2>2. \A i \in IdsIn(file.records) : i \in 1 .. MaxId
      BY <2>1, Elements DEF Ids
    <2>3. T \subseteq 1 .. MaxId + 1 /\ T # {} /\ MaxId + 1 \in Nat
      BY <2>1, <2>2, ConstantsAssumption
    <2>4. Max(T) \in T /\ \A y \in T : Max(T) >= y
      BY <2>3, MaxIsGreatest
    <2>5. Load(file) = [next |-> Max(T), records |-> file.records]
      BY <1>2 DEF Load
    <2> HIDE DEF T
    <2>6. Max(T) \in 1 .. MaxId + 1
      BY <2>3, <2>4
    <2>7. ASSUME NEW i \in IdsIn(file.records) PROVE i < Max(T)
      <3>1. Max(T) >= i + 1
        BY <2>4 DEF T
      <3> QED BY <3>1, <2>2, <2>6
    <2>8. Load(file) \in Contents
      BY <2>1, <2>5, <2>6 DEF Contents
    <2> QED BY <1>2, <2>5, <2>7, <2>8 DEF Sound
  <1> QED BY <1>1, <1>2

\* What is sound is loaded as it was written.
LEMMA LoadIsExact ==
  ASSUME NEW s, Sound(s)
  PROVE  s # NoFile /\ Load(s) = s
  <1> DEFINE T == {s.next} \cup {i + 1 : i \in IdsIn(s.records)}
  <1>1. s \in Contents /\ s # NoFile
    BY ConstantsAssumption DEF Sound
  <1>2. s.next \in 1 .. MaxId + 1 /\ s.records \in Seq(Records) /\ s = [next |-> s.next, records |-> s.records]
    BY <1>1 DEF Contents
  <1>3. \A i \in IdsIn(s.records) : i \in 1 .. MaxId /\ i < s.next
    BY <1>2, Elements DEF Ids, Sound
  <1>4. \A x \in T : x \in 1 .. MaxId + 1 /\ x <= s.next
    BY <1>2, <1>3, ConstantsAssumption
  <1>5. Max(T) \in T /\ \A y \in T : Max(T) >= y
    <2>1. T \subseteq 1 .. MaxId + 1 /\ T # {} /\ MaxId + 1 \in Nat
      BY <1>4, ConstantsAssumption
    <2> HIDE DEF T
    <2> QED BY <2>1, MaxIsGreatest
  <1>6. Max(T) = s.next
    <2>1. Max(T) >= s.next /\ Max(T) <= s.next /\ Max(T) \in 1 .. MaxId + 1
      BY <1>4, <1>5
    <2> QED BY <2>1, <1>2
  <1> QED BY <1>1, <1>2, <1>6 DEF Load

-----------------------------------------------------------------------------
(* What the routes write.                                                  *)

LEMMA AddIsSound ==
  ASSUME NEW s, s = store, Sound(s), s.next <= MaxId, NEW f \in Forms, NEW t, t = AfterAdd(f)
  PROVE  /\ Sound(t) /\ t.next = s.next + 1
         /\ ToSet(t.records) = ToSet(s.records) \cup {Record(s.next, f)}
  <1> DEFINE r == Record(s.next, f)
  <1>1. s.next \in 1 .. MaxId /\ s.records \in Seq(Records)
    BY ConstantsAssumption DEF Sound, Contents
  <1>2. r \in Records /\ r.id = s.next
    BY <1>1 DEF Records, Ids, Record
  <1>3. t.records = Append(s.records, r) /\ t.next = s.next + 1
    BY DEF AfterAdd
  <1> HIDE DEF r
  <1>4. /\ t.records \in Seq(Records) /\ DOMAIN t.records = 1 .. Len(s.records) + 1
        /\ \A k \in 1 .. Len(s.records) : t.records[k] = s.records[k]
        /\ t.records[Len(s.records) + 1] = r /\ DOMAIN s.records = 1 .. Len(s.records)
        /\ Len(s.records) \in Nat
    BY <1>1, <1>2, <1>3
  <1>5. ToSet(t.records) = ToSet(s.records) \cup {r}
    <2>1. \A k \in 1 .. Len(s.records) : k \in 1 .. Len(s.records) + 1
      BY <1>4
    <2>2. Len(s.records) + 1 \in 1 .. Len(s.records) + 1
      BY <1>4
    <2>3. \A k \in 1 .. Len(s.records) + 1 : k \in 1 .. Len(s.records) \/ k = Len(s.records) + 1
      BY <1>4
    <2>4. ToSet(t.records) = {t.records[k] : k \in 1 .. Len(s.records) + 1}
      BY <1>4 DEF ToSet
    <2>5. ToSet(s.records) = {s.records[k] : k \in 1 .. Len(s.records)}
      BY <1>4 DEF ToSet
    <2>6. \A x : x \in ToSet(t.records) <=> x \in ToSet(s.records) \/ x = r
      BY <1>4, <2>1, <2>2, <2>3, <2>4, <2>5
    <2> QED BY <2>6
  <1>6. \A i \in IdsIn(t.records) : i = s.next \/ i \in IdsIn(s.records)
    BY <1>5, <1>2 DEF IdsIn
  <1>7. \A i \in IdsIn(t.records) : i < t.next
    <2>1. \A i \in IdsIn(s.records) : i \in Nat /\ i < s.next
      BY <1>1, Elements DEF Sound, Ids
    <2> QED BY <1>1, <1>3, <1>6, <2>1
  <1>8. Distinct(t.records)
    <2>1. \A k \in 1 .. Len(s.records) : s.records[k].id \in IdsIn(s.records)
      BY <1>4 DEF IdsIn, ToSet
    <2>2. \A k \in 1 .. Len(s.records) : t.records[k].id # s.next
      <3>1. \A i \in IdsIn(s.records) : i \in Nat /\ i < s.next
        BY <1>1, Elements DEF Sound, Ids
      <3>2. \A k \in 1 .. Len(s.records) : s.records[k].id # s.next
        BY <1>1, <2>1, <3>1
      <3> QED BY <1>4, <3>2
    <2>3. \A j, k \in 1 .. Len(s.records) : s.records[j].id = s.records[k].id => j = k
      BY <1>4 DEF Sound, Distinct
    <2>4. \A k \in DOMAIN t.records : k \in 1 .. Len(s.records) \/ k = Len(s.records) + 1
      BY <1>4
    <2>5. \A k \in DOMAIN t.records :
             /\ k \in 1 .. Len(s.records) => t.records[k] = s.records[k] /\ t.records[k].id # s.next
             /\ k = Len(s.records) + 1 => t.records[k].id = s.next
      BY <1>2, <1>4, <2>2
    <2> QED BY <2>3, <2>4, <2>5 DEF Distinct
  <1>9. t \in Contents
    <2>1. t = [next |-> t.next, records |-> t.records]
      BY DEF AfterAdd
    <2>2. t.next \in 1 .. MaxId + 1
      BY <1>1, <1>3, ConstantsAssumption
    <2> QED BY <1>4, <2>1, <2>2 DEF Contents
  <1> QED BY <1>3, <1>5, <1>7, <1>8, <1>9 DEF Sound, r

LEMMA EditIsSound ==
  ASSUME NEW s, s = store, Sound(s), NEW k \in DOMAIN s.records, NEW f \in Forms,
         NEW t, t = AfterEdit(k, f)
  PROVE  /\ Sound(t) /\ t.next = s.next
         /\ s.records[k] \in ToSet(s.records)
         /\ ToSet(t.records) = (ToSet(s.records) \ {s.records[k]})
                                \cup {Record(s.records[k].id, f)}
  <1> DEFINE r == Record(s.records[k].id, f)
  <1>1. s \in Contents /\ s.records \in Seq(Records)
    BY DEF Sound, Contents
  <1>2. s.records[k] \in Records
    BY <1>1
  <1>3. r \in Records /\ r.id = s.records[k].id
    BY <1>2 DEF Records, Record
  <1>4. t = [next |-> s.next, records |-> [s.records EXCEPT ![k] = r]]
    BY DEF AfterEdit, With
  <1> HIDE DEF r
  <1>5. /\ t.records \in Seq(Records) /\ DOMAIN t.records = DOMAIN s.records
        /\ \A j \in DOMAIN s.records : t.records[j] = IF j = k THEN r ELSE s.records[j]
    BY <1>1, <1>3, <1>4
  <1>6. \A j \in DOMAIN s.records : t.records[j].id = s.records[j].id
    BY <1>3, <1>5
  <1>7. Distinct(t.records) /\ IdsIn(t.records) = IdsIn(s.records)
    BY <1>5, <1>6 DEF Sound, Distinct, IdsIn, ToSet
  <1>8. \A j \in DOMAIN s.records : j # k => s.records[j] # s.records[k]
    BY DEF Sound, Distinct
  <1>9. ToSet(t.records) = (ToSet(s.records) \ {s.records[k]}) \cup {r}
    BY <1>5, <1>8 DEF ToSet
  <1>10. t \in Contents
    BY <1>1, <1>4, <1>5 DEF Contents
  <1>11. s.records[k] \in ToSet(s.records)
    BY DEF ToSet
  <1> QED BY <1>4, <1>7, <1>9, <1>10, <1>11 DEF Sound, r

LEMMA MoveIsSound ==
  ASSUME NEW s, s = store, Sound(s), NEW k \in DOMAIN s.records, k + 1 \in DOMAIN s.records,
         NEW t, t = AfterMove(k)
  PROVE  Sound(t) /\ t.next = s.next /\ ToSet(t.records) = ToSet(s.records)
  <1>1. s \in Contents /\ s.records \in Seq(Records)
    BY DEF Sound, Contents
  <1>2. t = [next |-> s.next,
             records |-> [s.records EXCEPT ![k] = s.records[k + 1], ![k + 1] = s.records[k]]]
    BY DEF AfterMove, With
  <1>3. /\ t.records \in Seq(Records) /\ DOMAIN t.records = DOMAIN s.records
        /\ \A j \in DOMAIN s.records :
             t.records[j] = IF j = k THEN s.records[k + 1]
                            ELSE IF j = k + 1 THEN s.records[k] ELSE s.records[j]
    BY <1>1, <1>2
  <1>4. ToSet(t.records) = ToSet(s.records)
    <2>1. \A j \in DOMAIN s.records : t.records[j] \in ToSet(s.records)
      BY <1>3 DEF ToSet
    <2>2. \A j \in DOMAIN s.records : s.records[j] \in ToSet(t.records)
      <3>1. k + 1 # k
        BY <1>1
      <3>2. t.records[k] = s.records[k + 1] /\ t.records[k + 1] = s.records[k]
        BY <1>3, <3>1
      <3> QED BY <1>3, <3>2 DEF ToSet
    <2>3. ToSet(t.records) \subseteq ToSet(s.records)
      BY <1>3, <2>1 DEF ToSet
    <2>4. ToSet(s.records) \subseteq ToSet(t.records)
      <3>1. \A x \in ToSet(s.records) : \E j \in DOMAIN s.records : x = s.records[j]
        BY DEF ToSet
      <3> QED BY <2>2, <3>1
    <2> QED BY <2>3, <2>4
  <1>5. Distinct(t.records)
    BY <1>1, <1>3 DEF Sound, Distinct
  <1>6. t \in Contents
    BY <1>1, <1>2, <1>3 DEF Contents
  <1> QED BY <1>2, <1>4, <1>5, <1>6 DEF Sound, IdsIn

LEMMA RemoveAtGives ==
  ASSUME NEW S, NEW seq \in Seq(S), NEW k \in 1 .. Len(seq)
  PROVE  /\ RemoveAt(seq, k) \in Seq(S) /\ DOMAIN RemoveAt(seq, k) = 1 .. Len(seq) - 1
         /\ \A j \in 1 .. Len(seq) - 1 : j < k => RemoveAt(seq, k)[j] = seq[j]
         /\ \A j \in 1 .. Len(seq) - 1 : ~ (j < k) => RemoveAt(seq, k)[j] = seq[j + 1]
  <1> DEFINE head == SubSeq(seq, 1, k - 1)
             tail == SubSeq(seq, k + 1, Len(seq))
  <1>1. Len(seq) \in Nat /\ k \in Nat /\ 1 <= k /\ k <= Len(seq) /\ \A j \in 1 .. Len(seq) : seq[j] \in S
    OBVIOUS
  <1>2. /\ head \in Seq(S) /\ Len(head) = k - 1
        /\ \A j \in 1 .. k - 1 : head[j] = seq[j]
    <2>1. \A j \in 1 .. k - 1 : seq[j] \in S
      BY <1>1
    <2>2. 1 \in Int /\ k - 1 \in Int
      BY <1>1
    <2>3. /\ head \in Seq(S) /\ Len(head) = IF 1 <= k - 1 THEN k - 1 - 1 + 1 ELSE 0
          /\ \A j \in 1 .. k - 1 - 1 + 1 : head[j] = seq[1 + j - 1]
      BY <2>1, <2>2, SubSeqProperties
    <2> HIDE DEF head
    <2>4. Len(head) = k - 1
      BY <1>1, <2>3
    <2>5. \A j \in 1 .. k - 1 : j \in 1 .. k - 1 - 1 + 1 /\ 1 + j - 1 = j
      BY <1>1
    <2> QED BY <2>3, <2>4, <2>5
  <1>3. /\ tail \in Seq(S) /\ Len(tail) = Len(seq) - k
        /\ \A j \in 1 .. Len(seq) - k : tail[j] = seq[k + j]
    <2>1. \A j \in k + 1 .. Len(seq) : seq[j] \in S
      BY <1>1
    <2>2. k + 1 \in Int /\ Len(seq) \in Int
      BY <1>1
    <2>3. /\ tail \in Seq(S) /\ Len(tail) = IF k + 1 <= Len(seq) THEN Len(seq) - (k + 1) + 1 ELSE 0
          /\ \A j \in 1 .. Len(seq) - (k + 1) + 1 : tail[j] = seq[(k + 1) + j - 1]
      BY <2>1, <2>2, SubSeqProperties
    <2> HIDE DEF tail
    <2>4. Len(tail) = Len(seq) - k
      BY <1>1, <2>3
    <2>5. \A j \in 1 .. Len(seq) - k : j \in 1 .. Len(seq) - (k + 1) + 1 /\ (k + 1) + j - 1 = k + j
      BY <1>1
    <2> QED BY <2>3, <2>4, <2>5
  <1>4. RemoveAt(seq, k) = head \o tail
    BY DEF RemoveAt
  <1> HIDE DEF head, tail
  <1>5. /\ head \o tail \in Seq(S) /\ Len(head \o tail) = Len(head) + Len(tail)
        /\ \A j \in 1 .. Len(head) + Len(tail) :
             (head \o tail)[j] = IF j <= Len(head) THEN head[j] ELSE tail[j - Len(head)]
    BY <1>2, <1>3, ConcatProperties
  <1>6. Len(head) + Len(tail) = Len(seq) - 1 /\ Len(head) = k - 1
    BY <1>1, <1>2, <1>3
  <1>7. ASSUME NEW j \in 1 .. Len(seq) - 1, j < k PROVE (head \o tail)[j] = seq[j]
    <2>1. j <= k - 1 /\ j \in 1 .. k - 1
      BY <1>1, <1>7
    <2> QED BY <1>2, <1>5, <1>6, <2>1
  <1>8. ASSUME NEW j \in 1 .. Len(seq) - 1, ~ (j < k) PROVE (head \o tail)[j] = seq[j + 1]
    <2>1. ~ (j <= k - 1) /\ j - (k - 1) \in 1 .. Len(seq) - k /\ k + (j - (k - 1)) = j + 1
      BY <1>1, <1>8
    <2>2. (head \o tail)[j] = tail[j - (k - 1)]
      BY <1>5, <1>6, <2>1
    <2> QED BY <1>3, <2>1, <2>2
  <1>9. DOMAIN (head \o tail) = 1 .. Len(seq) - 1
    BY <1>5, <1>6
  <1> QED BY <1>4, <1>5, <1>7, <1>8, <1>9

LEMMA DeleteIsSound ==
  ASSUME NEW s, s = store, Sound(s), NEW k \in DOMAIN s.records, NEW t, t = AfterDelete(k)
  PROVE  /\ Sound(t) /\ t.next = s.next
         /\ s.records[k] \in ToSet(s.records)
         /\ ToSet(t.records) = ToSet(s.records) \ {s.records[k]}
  <1> DEFINE n == Len(s.records)
  <1>1. /\ s \in Contents /\ s.records \in Seq(Records)
        /\ n \in Nat /\ k \in 1 .. n /\ DOMAIN s.records = 1 .. n
    BY DEF Sound, Contents
  <1>2. t.records = RemoveAt(s.records, k) /\ t.next = s.next /\ t = [next |-> t.next, records |-> t.records]
    BY DEF AfterDelete, With
  <1>3. /\ t.records \in Seq(Records) /\ DOMAIN t.records = 1 .. n - 1
        /\ \A j \in 1 .. n - 1 : j < k => t.records[j] = s.records[j]
        /\ \A j \in 1 .. n - 1 : ~ (j < k) => t.records[j] = s.records[j + 1]
    <2>1. k \in 1 .. Len(s.records) /\ s.records \in Seq(Records)
      BY <1>1
    <2>2. /\ RemoveAt(s.records, k) \in Seq(Records)
          /\ DOMAIN RemoveAt(s.records, k) = 1 .. Len(s.records) - 1
          /\ \A j \in 1 .. Len(s.records) - 1 :
               j < k => RemoveAt(s.records, k)[j] = s.records[j]
          /\ \A j \in 1 .. Len(s.records) - 1 :
               ~ (j < k) => RemoveAt(s.records, k)[j] = s.records[j + 1]
      BY <2>1, RemoveAtGives, Zenon
    <2> QED BY <1>2, <2>2
  <1> HIDE DEF n
  <1>4. \A i, j \in 1 .. n : s.records[i].id = s.records[j].id => i = j
    BY <1>1 DEF Sound, Distinct
  <1> DEFINE From(j) == IF j < k THEN j ELSE j + 1
  <1>5. \A j \in 1 .. n - 1 : From(j) \in 1 .. n /\ From(j) # k /\ t.records[j] = s.records[From(j)]
    <2> SUFFICES ASSUME NEW j \in 1 .. n - 1
                 PROVE  From(j) \in 1 .. n /\ From(j) # k /\ t.records[j] = s.records[From(j)]
      OBVIOUS
    <2>1. CASE j < k
      <3>1. From(j) = j /\ j \in 1 .. n /\ j # k
        BY <1>1, <2>1
      <3>2. t.records[j] = s.records[j]
        BY <1>1, <1>3, <2>1
      <3> QED BY <3>1, <3>2
    <2>2. CASE ~ (j < k)
      <3>1. From(j) = j + 1 /\ j + 1 \in 1 .. n /\ j + 1 # k
        BY <1>1, <2>2
      <3>2. t.records[j] = s.records[j + 1]
        BY <1>1, <1>3, <2>2
      <3> QED BY <3>1, <3>2
    <2> QED BY <2>1, <2>2
  <1>6. \A i, j \in 1 .. n - 1 : From(i) = From(j) => i = j
    BY <1>1
  <1>7. \A i \in 1 .. n : i # k => \E j \in 1 .. n - 1 : From(j) = i
    <2> SUFFICES ASSUME NEW i \in 1 .. n, i # k PROVE \E j \in 1 .. n - 1 : From(j) = i
      OBVIOUS
    <2>1. CASE i < k
      <3>1. i \in 1 .. n - 1 /\ From(i) = i
        BY <1>1, <2>1
      <3> QED BY <3>1
    <2>2. CASE ~ (i < k)
      <3>1. i - 1 \in 1 .. n - 1 /\ ~ (i - 1 < k) /\ (i - 1) + 1 = i
        BY <1>1, <2>2
      <3>2. From(i - 1) = i
        BY <3>1
      <3> QED BY <3>1, <3>2
    <2> QED BY <2>1, <2>2
  <1> HIDE DEF From
  <1>8. Distinct(t.records)
    BY <1>3, <1>4, <1>5, <1>6 DEF Distinct
  <1>9. ToSet(t.records) = ToSet(s.records) \ {s.records[k]}
    <2>1. ToSet(t.records) = {t.records[j] : j \in 1 .. n - 1} /\ ToSet(s.records) = {s.records[i] : i \in 1 .. n}
      BY <1>1, <1>3 DEF ToSet
    <2>2. \A i \in 1 .. n : i # k => s.records[i] # s.records[k]
      BY <1>1, <1>4
    <2>3. ASSUME NEW x \in ToSet(t.records) PROVE x \in ToSet(s.records) /\ x # s.records[k]
      BY <1>5, <2>1, <2>2
    <2>4. ASSUME NEW x \in ToSet(s.records), x # s.records[k] PROVE x \in ToSet(t.records)
      BY <1>5, <1>7, <2>1, <2>4
    <2> QED BY <2>3, <2>4
  <1>10. t \in Contents
    BY <1>1, <1>2, <1>3 DEF Contents
  <1>11. s.records[k] \in ToSet(s.records)
    BY DEF ToSet
  <1>12. \A i \in IdsIn(t.records) : i \in IdsIn(s.records)
    BY <1>9 DEF IdsIn
  <1> QED BY <1>2, <1>8, <1>9, <1>10, <1>11, <1>12 DEF Sound

-----------------------------------------------------------------------------
(* Clients.                                                                *)

LEMMA RefreshGives ==
  ASSUME IInv, NEW records \in Seq(Records), Distinct(records), Refresh(records),
         \A r \in ToSet(records) : (\E c \in clients : Fits(c, r)) \/ made[r.id] < MaxMade
  PROVE  /\ OneEach(clients', records) /\ clients' \subseteq Clients
         /\ made' \in [Ids -> 0 .. MaxMade] /\ \A i \in Ids : made[i] <= made'[i]
         /\ \A i \in Ids : i \notin IdsIn(records) => made'[i] = made[i]
         /\ \A c \in clients' \ clients : c.no = made[c.id] + 1 /\ c.no <= made'[c.id]
         /\ retiring' = retiring \cup {[client |-> c, ticks |-> 0] : c \in clients \ clients'}
  <1>0. /\ ToSet(records) \subseteq Records /\ \A r \in ToSet(records) : r.id \in IdsIn(records)
        /\ \A q, r \in ToSet(records) : q.id = r.id => q = r
        /\ \A r \in Records : r.id \in Ids /\ r.form \in Forms
    BY Elements, DistinctElements DEF Records
  <1>1. /\ made \in [Ids -> 0 .. MaxMade] /\ MaxMade \in Nat
        /\ clients \subseteq Clients /\ \A c, d \in clients : c.id = d.id => c = d
    BY ConstantsAssumption DEF IInv, Counted, OneEach
  <1>2. \A c : c \in clients' <=>
             \E r \in ToSet(records) :
               \/ c \in clients /\ Fits(c, r)
               \/ c = Fresh(r) /\ ~ \E d \in clients : Fits(d, r)
    BY DEF Refresh
  <1>3. \A r \in ToSet(records) : (~ \E d \in clients : Fits(d, r)) =>
             /\ Fits(Fresh(r), r) /\ Fresh(r) \in Clients
             /\ Fresh(r).no = made[r.id] + 1 /\ Fresh(r).id = r.id /\ made[r.id] < MaxMade
    <2> SUFFICES ASSUME NEW r \in ToSet(records), ~ \E d \in clients : Fits(d, r)
                 PROVE  /\ Fits(Fresh(r), r) /\ Fresh(r) \in Clients
                        /\ Fresh(r).no = made[r.id] + 1 /\ Fresh(r).id = r.id /\ made[r.id] < MaxMade
      OBVIOUS
    <2>1. r.id \in Ids /\ r.form \in Forms /\ made[r.id] < MaxMade
      BY <1>0
    <2>2. made[r.id] + 1 \in 1 .. MaxMade
      BY <1>1, <2>1
    <2> QED BY <2>1, <2>2 DEF Fits, Fresh, Clients
  <1>4. \A c \in clients' : c \in Clients /\ \E r \in ToSet(records) : Fits(c, r)
    BY <1>1, <1>2, <1>3
  <1>5. \A r \in ToSet(records) : \E c \in clients' : Fits(c, r)
    BY <1>2, <1>3
  <1>6. ASSUME NEW c \in clients', NEW d \in clients', c.id = d.id
        PROVE  c = d
    <2>1. PICK q \in ToSet(records) : /\ Fits(c, q)
                                      /\ c \in clients \/ (c = Fresh(q) /\ ~ \E e \in clients : Fits(e, q))
      BY <1>2, <1>3
    <2>2. PICK r \in ToSet(records) : /\ Fits(d, r)
                                      /\ d \in clients \/ (d = Fresh(r) /\ ~ \E e \in clients : Fits(e, r))
      BY <1>2, <1>3
    <2>3. q = r
      BY <1>0, <1>6, <2>1, <2>2 DEF Fits
    <2> QED BY <1>1, <1>6, <2>1, <2>2, <2>3
  <1>7. OneEach(clients', records) /\ clients' \subseteq Clients
    BY <1>4, <1>5, <1>6 DEF OneEach
  <1>8. \A c \in clients' \ clients :
           c.no = made[c.id] + 1 /\ made[c.id] < MaxMade /\ c.id \in IdsIn(records) /\ c.id \in Ids
    BY <1>0, <1>2, <1>3
  <1>9. made' = [i \in Ids |-> IF \E c \in clients' \ clients : c.id = i THEN made[i] + 1 ELSE made[i]]
    BY DEF Refresh
  <1>10. ASSUME NEW i \in Ids
         PROVE  /\ made'[i] \in 0 .. MaxMade /\ made[i] <= made'[i]
                /\ i \notin IdsIn(records) => made'[i] = made[i]
    <2>1. CASE \E c \in clients' \ clients : c.id = i
      <3>1. made'[i] = made[i] + 1 /\ made[i] < MaxMade /\ i \in IdsIn(records)
        BY <1>8, <1>9, <2>1
      <3> QED BY <1>1, <3>1
    <2>2. CASE ~ \E c \in clients' \ clients : c.id = i
      BY <1>1, <1>9, <2>2
    <2> QED BY <2>1, <2>2
  <1>11. made' \in [Ids -> 0 .. MaxMade]
    BY <1>9, <1>10
  <1>12. \A c \in clients' \ clients : c.no <= made'[c.id]
    <2> SUFFICES ASSUME NEW c \in clients' \ clients PROVE c.no <= made'[c.id]
      OBVIOUS
    <2>1. made'[c.id] = made[c.id] + 1 /\ c.no = made[c.id] + 1 /\ made[c.id] \in Nat
      BY <1>1, <1>8, <1>9
    <2> QED BY <2>1
  <1>13. retiring' = retiring \cup {[client |-> c, ticks |-> 0] : c \in clients \ clients'}
    BY DEF Refresh, Replaced
  <1> QED BY <1>7, <1>8, <1>10, <1>11, <1>12, <1>13

LEMMA SomeSteps == IInv =>
    /\ \A c \in Clients : c.id \in Ids /\ c.no \in Nat
    /\ \A x \in retiring : x.client \in Clients
    /\ \A r \in Busy : holds[r] \in Clients
    /\ \A i \in Ids : made[i] \in Nat
  BY ConstantsAssumption DEF IInv, Clients, Counted, Timed, Busy

\* Refreshed clients are counted and timed as the ones before.
LEMMA RefreshKeeps ==
  ASSUME IInv, NEW s, Sound(s), store' = s, store.next <= s.next, Refresh(s.records),
         UNCHANGED <<closed, holds, age>>,
         \A r \in ToSet(s.records) : (\E c \in clients : Fits(c, r)) \/ made[r.id] < MaxMade
  PROVE  OneEach(clients', s.records) /\ Counted' /\ Timed'
  <1>1. s.records \in Seq(Records) /\ Distinct(s.records) /\ s.next \in Nat /\ store.next \in Nat
    BY DEF Sound, Contents, IInv, InMemory
  <1>2. /\ OneEach(clients', s.records) /\ clients' \subseteq Clients
        /\ made' \in [Ids -> 0 .. MaxMade] /\ \A i \in Ids : made[i] <= made'[i]
        /\ \A i \in Ids : i \notin IdsIn(s.records) => made'[i] = made[i]
        /\ \A c \in clients' \ clients : c.no = made[c.id] + 1 /\ c.no <= made'[c.id]
        /\ retiring' = retiring \cup {[client |-> c, ticks |-> 0] : c \in clients \ clients'}
    BY <1>1, RefreshGives
  <1>3. /\ \A c \in Clients : c.id \in Ids /\ c.no \in Nat
        /\ \A x \in retiring : x.client \in Clients
        /\ \A r \in Busy : holds[r] \in Clients
        /\ \A i \in Ids : made[i] \in Nat
    BY SomeSteps
  <1>4. \A i \in Ids : made'[i] \in Nat
    BY <1>2, ConstantsAssumption
  <1>5. \A c \in Clients : c.no <= made[c.id] => c.no <= made'[c.id] /\ c \notin clients' \ clients
    <2> SUFFICES ASSUME NEW c \in Clients, c.no <= made[c.id]
                 PROVE  c.no <= made'[c.id] /\ c \notin clients' \ clients
      OBVIOUS
    <2>1. /\ c.no \in Nat /\ made[c.id] \in Nat /\ made'[c.id] \in Nat /\ made[c.id] <= made'[c.id]
      BY <1>2, <1>3, <1>4
    <2> QED BY <1>2, <2>1
  <1>6. Counted'
    <2>1. ASSUME NEW i \in Ids, i >= s.next PROVE made'[i] = 0
      <3>1. i \in Nat
        BY DEF Ids
      <3>2. i \notin IdsIn(s.records)
        BY <1>1, <2>1, <3>1 DEF Sound
      <3>3. made[i] = 0
        BY <1>1, <2>1, <3>1 DEF IInv, Counted
      <3> QED BY <1>2, <3>2, <3>3
    <2>2. \A c \in clients' : c.no <= made'[c.id]
      BY <1>2, <1>5 DEF IInv, Counted
    <2>3. closed' \subseteq Clients /\ \A c \in closed' : c.no <= made'[c.id]
      BY <1>5 DEF IInv, Counted
    <2>4. ASSUME NEW x \in retiring'
          PROVE  x.client \in Clients /\ x.client.no <= made'[x.client.id]
      <3>1. CASE x \in retiring
        BY <3>1, <1>5 DEF IInv, Counted
      <3>2. CASE \E c \in clients : x.client = c
        BY <3>2, <1>5 DEF IInv, Counted
      <3> QED BY <3>1, <3>2, <1>2
    <2> QED BY <1>2, <2>1, <2>2, <2>3, <2>4 DEF Counted
  <1>7. Timed'
    <2>1. clients' \cap closed' = {}
      BY <1>5 DEF IInv, Counted, Timed
    <2>2. ASSUME NEW x \in retiring' PROVE x.ticks \in 0 .. RetireAfter /\ x.client \notin clients'
      <3>1. CASE x \in retiring
        BY <3>1, <1>5 DEF IInv, Counted, Timed
      <3>2. CASE x \in {[client |-> c, ticks |-> 0] : c \in clients \ clients'}
        BY <3>2, ConstantsAssumption
      <3> QED BY <3>1, <3>2, <1>2
    <2>3. Busy' = Busy
      BY DEF Busy
    <2>4. ASSUME NEW r \in Busy PROVE holds'[r].no <= made'[holds'[r].id]
      BY <1>3, <1>5 DEF IInv, Timed
    <2>5. ASSUME NEW r \in Busy, NEW x \in retiring', x.client = holds'[r] PROVE x.ticks <= age'[r]
      <3>1. CASE x \in retiring
        BY <3>1, <2>5 DEF IInv, Timed
      <3>2. CASE x.ticks = 0
        <4>1. age[r] \in Nat
          BY DEF IInv, Timed, Busy
        <4> QED BY <3>2, <4>1
      <3> QED BY <3>1, <3>2, <1>2
    <2>6. NotClosedEarly'
      BY <2>3 DEF IInv, Timed, NotClosedEarly
    <2> QED BY <2>1, <2>2, <2>3, <2>4, <2>5, <2>6 DEF IInv, Timed
  <1> QED BY <1>2, <1>6, <1>7

-----------------------------------------------------------------------------
(* Every step keeps the invariant.                                         *)

LEMMA InitIInv == Init => IInv
  <1> SUFFICES ASSUME Init PROVE IInv
    OBVIOUS
  <1>1. OnDisk
    BY ConstantsAssumption DEF Init, OnDisk
  <1>2. Sound(Nothing) /\ Sound(Load(disk))
    <2>1. Nothing = Load(NoFile)
      BY DEF Load
    <2> QED BY <1>1, <2>1, LoadIsSound DEF OnDisk
  <1>3. InMemory
    BY <1>2 DEF Init, InMemory
  <1>4. OneEach(clients, store.records)
    BY DEF Init, OneEach, Nothing, ToSet
  <1>5. made \in [Ids -> 0 .. MaxMade] /\ \A i \in Ids : made[i] = 0
    BY ConstantsAssumption DEF Init, NoneMade
  <1>6. Counted
    BY <1>5 DEF Init, Counted
  <1>7. Timed
    <2>1. Busy = {}
      BY DEF Init, Busy, Idle
    <2> QED BY <2>1, ConstantsAssumption DEF Init, Timed, NotClosedEarly, Idle, NoTime
  <1>8. Known
    <2>1. Load(disk).records \in Seq(Records) /\ \A i \in IdsIn(Load(disk).records) : i < Load(disk).next
      BY <1>2 DEF Sound, Contents
    <2>2. IdsIn(Load(disk).records) \subseteq Ids
      BY <2>1, Elements
    <2>3. CASE disk = NoFile
      <3>1. given = {} /\ Load(disk).records = <<>>
        BY <2>3 DEF Init, Load, Nothing
      <3> QED BY <3>1 DEF Known, IdsIn, ToSet
    <2>4. CASE disk # NoFile
      BY <2>1, <2>2, <2>4 DEF Init, Known
    <2> QED BY <2>3, <2>4
  <1>9. trouble \in 0 .. MaxTrouble
    BY ConstantsAssumption DEF Init
  <1> QED BY <1>1, <1>3, <1>4, <1>6, <1>7, <1>8, <1>9 DEF IInv

LEMMA TroubleIsBounded == IInv /\ Trouble => trouble' \in 0 .. MaxTrouble
  BY ConstantsAssumption DEF IInv, Trouble

\* A process that is gone leaves only the file.
LEMMA GoneKeeps ==
  ASSUME IInv, Gone, OnDisk', Known', trouble' \in 0 .. MaxTrouble
  PROVE  IInv'
  <1>1. Sound(Nothing)
    <2>1. Nothing = Load(NoFile)
      BY DEF Load
    <2> QED BY <2>1, LoadIsSound
  <1>2. InMemory'
    BY <1>1 DEF Gone, InMemory
  <1>3. OneEach(clients, store.records)'
    BY DEF Gone, OneEach, Nothing, ToSet
  <1>4. Counted'
    <2>1. made' \in [Ids -> 0 .. MaxMade] /\ \A i \in Ids : made'[i] = 0
      BY ConstantsAssumption DEF Gone, NoneMade
    <2> QED BY <2>1 DEF Gone, Counted
  <1>5. Timed'
    <2>1. Busy' = {}
      BY DEF Gone, Busy, Idle
    <2> QED BY <2>1, ConstantsAssumption DEF Gone, Timed, NotClosedEarly, Idle, NoTime
  <1> QED BY <1>2, <1>3, <1>4, <1>5 DEF IInv

\* A file that a route writes.
LEMMA WrittenKeeps ==
  ASSUME IInv, NEW s, Sound(s), Load(disk).next <= s.next, Written(s)
  PROVE  OnDisk' /\ Known' /\ disk' = s /\ Load(disk)' = s
  <1>1. disk' = s /\ s # NoFile /\ Load(s) = s /\ Load(disk)' = s
    BY LoadIsExact DEF Written
  <1>2. OnDisk'
    BY <1>1 DEF OnDisk, Sound
  <1>3. given' = given \cup IdsIn(s.records)
    BY DEF Written
  <1>4. IdsIn(s.records) \subseteq Ids /\ \A i \in IdsIn(s.records) : i < s.next
    BY Elements DEF Sound, Contents
  <1>5. \A i \in given : i < s.next
    <2>1. Sound(Load(disk))
      BY LoadIsSound DEF IInv, OnDisk
    <2>2. Load(disk).next \in Nat /\ s.next \in Nat
      BY <2>1 DEF Sound, Contents
    <2>3. \A i \in given : i \in Nat /\ i < Load(disk).next
      BY DEF IInv, Known, Ids
    <2> QED BY <2>2, <2>3
  <1>6. Known'
    BY <1>1, <1>3, <1>4, <1>5 DEF IInv, Known
  <1> QED BY <1>1, <1>2, <1>6

\* A failed write: nothing has changed.
LEMMA UnsavedKeeps ==
  ASSUME IInv, NEW s, Unsaved(s), Trouble,
         UNCHANGED <<up, clients, made, retiring, closed, holds, age, given>>
  PROVE  IInv'
  <1>1. disk' = disk /\ store' = store
    BY DEF Unsaved
  <1>2. trouble' \in 0 .. MaxTrouble
    BY TroubleIsBounded
  <1>3. OnDisk' /\ InMemory' /\ OneEach(clients, store.records)' /\ Known'
    BY <1>1 DEF IInv, OnDisk, InMemory, OneEach, Known
  <1>4. Counted' /\ Timed'
    BY <1>1 DEF IInv, Counted, Timed, Busy, NotClosedEarly
  <1> QED BY <1>2, <1>3, <1>4 DEF IInv

LEMMA RouteKeeps ==
  ASSUME IInv, NEW s, Sound(s), store.next <= s.next, Persist(s, Refresh(s.records)),
         \A r \in ToSet(s.records) : (\E c \in clients : Fits(c, r)) \/ made[r.id] < MaxMade
  PROVE  IInv'
  <1>1. up /\ store = Load(disk)
    BY DEF Persist, IInv, InMemory
  <1>2. CASE /\ Written(s) /\ store' = s /\ Refresh(s.records)
             /\ UNCHANGED <<up, closed, holds, age, trouble>>
    <2>1. OnDisk' /\ Known' /\ Load(disk)' = s
      BY <1>1, <1>2, WrittenKeeps
    <2>2. OneEach(clients', s.records) /\ Counted' /\ Timed'
      BY <1>2, RefreshKeeps
    <2>3. InMemory'
      BY <1>1, <1>2, <2>1 DEF InMemory
    <2>4. OneEach(clients, store.records)'
      BY <1>2, <2>2
    <2> QED BY <1>2, <2>1, <2>2, <2>3, <2>4 DEF IInv
  <1>3. CASE Trouble /\ Unsaved(s) /\ UNCHANGED <<up, clients, made, retiring, closed, holds, age, given>>
    BY <1>3, UnsavedKeeps
  <1>4. CASE Trouble /\ Written(s) /\ Gone
    BY <1>1, <1>4, WrittenKeeps, GoneKeeps, TroubleIsBounded
  <1> QED BY <1>2, <1>3, <1>4 DEF Persist

LEMMA HadClients ==
  IInv => \A r \in ToSet(store.records) : \E c \in clients : Fits(c, r)
  BY DEF IInv, OneEach

LEMMA AddKeeps == ASSUME IInv, NEW f \in Forms, Add(f) PROVE IInv'
  <1>1. Sound(store) /\ store.next <= MaxId /\ store.next \in Ids
    BY ConstantsAssumption DEF IInv, InMemory, Add, Sound, Contents, Ids
  <1>2. /\ Sound(AfterAdd(f)) /\ AfterAdd(f).next = store.next + 1
        /\ ToSet(AfterAdd(f).records) = ToSet(store.records) \cup {Record(store.next, f)}
    BY <1>1, AddIsSound
  <1>3. made[Record(store.next, f).id] < MaxMade
    <2>1. made[store.next] = 0
      BY <1>1 DEF IInv, Counted, Ids
    <2> QED BY <2>1, ConstantsAssumption DEF Record
  <1>4. store.next <= AfterAdd(f).next
    BY <1>1, <1>2 DEF Ids
  <1> QED BY <1>2, <1>3, <1>4, HadClients, RouteKeeps DEF Add

LEMMA EditKeeps == ASSUME IInv, NEW k, NEW f \in Forms, Edit(k, f) PROVE IInv'
  <1>1. Sound(store) /\ k \in DOMAIN store.records /\ store.next \in Nat
    BY DEF IInv, InMemory, Edit, Sound, Contents
  <1>2. /\ Sound(AfterEdit(k, f)) /\ AfterEdit(k, f).next = store.next
        /\ ToSet(AfterEdit(k, f).records) = (ToSet(store.records) \ {store.records[k]})
                                            \cup {Record(store.records[k].id, f)}
    BY <1>1, EditIsSound
  <1>3. made[Record(store.records[k].id, f).id] < MaxMade
    BY DEF Edit, Record
  <1>4. store.next <= AfterEdit(k, f).next
    BY <1>1, <1>2
  <1> QED BY <1>2, <1>3, <1>4, HadClients, RouteKeeps DEF Edit

LEMMA DeleteKeeps == ASSUME IInv, NEW k, Delete(k) PROVE IInv'
  <1>1. Sound(store) /\ k \in DOMAIN store.records /\ store.next \in Nat
    BY DEF IInv, InMemory, Delete, Sound, Contents
  <1>2. /\ Sound(AfterDelete(k)) /\ AfterDelete(k).next = store.next
        /\ ToSet(AfterDelete(k).records) = ToSet(store.records) \ {store.records[k]}
    BY <1>1, DeleteIsSound
  <1>3. store.next <= AfterDelete(k).next
    BY <1>1, <1>2
  <1> QED BY <1>2, <1>3, HadClients, RouteKeeps DEF Delete

LEMMA MoveKeeps == ASSUME IInv, NEW k, Move(k) PROVE IInv'
  <1> DEFINE s == AfterMove(k)
  <1>1. Sound(store) /\ k \in DOMAIN store.records /\ k + 1 \in DOMAIN store.records /\ store.next \in Nat
    BY DEF IInv, InMemory, Move, Sound, Contents
  <1>2. Sound(s) /\ s.next = store.next /\ ToSet(s.records) = ToSet(store.records)
    BY <1>1, MoveIsSound
  <1>3. up /\ store = Load(disk)
    BY DEF Move, Persist, IInv, InMemory
  <1>4. Load(disk).next <= s.next
    BY <1>1, <1>2, <1>3
  <1>5. Persist(s, UNCHANGED <<clients, made, retiring>>)
    BY DEF Move
  <1> HIDE DEF s
  <1>6. CASE /\ Written(s) /\ store' = s /\ UNCHANGED <<clients, made, retiring>>
             /\ UNCHANGED <<up, closed, holds, age, trouble>>
    <2>1. OnDisk' /\ Known' /\ Load(disk)' = s
      BY <1>4, <1>2, <1>6, WrittenKeeps
    <2>2. InMemory'
      BY <1>2, <1>3, <1>6, <2>1 DEF InMemory
    <2>3. OneEach(clients, store.records)'
      BY <1>2, <1>6 DEF IInv, OneEach
    <2>4. Counted' /\ Timed'
      BY <1>2, <1>6 DEF IInv, Counted, Timed, Busy, NotClosedEarly
    <2> QED BY <1>6, <2>1, <2>2, <2>3, <2>4 DEF IInv
  <1>7. CASE Trouble /\ Unsaved(s) /\ UNCHANGED <<up, clients, made, retiring, closed, holds, age, given>>
    BY <1>7, UnsavedKeeps
  <1>8. CASE Trouble /\ Written(s) /\ Gone
    BY <1>2, <1>4, <1>8, WrittenKeeps, GoneKeeps, TroubleIsBounded
  <1> QED BY <1>5, <1>6, <1>7, <1>8 DEF Persist

LEMMA SeedIsSound == Seeding => Sound(Seed) /\ IdsIn(Seed.records) \subseteq Ids
  <1> DEFINE n == Len(Imported)
  <1>1. n \in Nat /\ n <= MaxId /\ MaxId \in Nat /\ DOMAIN Imported = 1 .. n
    BY ConstantsAssumption
  <1>2. \A k \in 1 .. n : Record(k, Imported[k]) \in Records /\ Record(k, Imported[k]).id = k
    <2>1. \A k \in 1 .. n : k \in 1 .. MaxId /\ Imported[k] \in Forms
      BY <1>1, ConstantsAssumption
    <2> QED BY <2>1 DEF Record, Records, Ids
  <1> HIDE DEF n
  <1>3. Seed.records = [k \in 1 .. n |-> Record(k, Imported[k])] /\ Seed.next = n + 1
    BY <1>1 DEF Seed, n
  <1>4. Seed.records \in Seq(Records) /\ DOMAIN Seed.records = 1 .. n
    BY <1>1, <1>2, <1>3
  <1>5. \A k \in 1 .. n : Seed.records[k].id = k
    BY <1>2, <1>3
  <1>6. Distinct(Seed.records)
    BY <1>4, <1>5 DEF Distinct
  <1>7. \A i \in IdsIn(Seed.records) : i \in 1 .. n
    BY <1>4, <1>5 DEF IdsIn, ToSet
  <1>8. Seed \in Contents
    <2>1. n + 1 \in 1 .. MaxId + 1
      BY <1>1
    <2>2. Seed = [next |-> Seed.next, records |-> Seed.records]
      BY DEF Seed
    <2> QED BY <1>3, <1>4, <2>1, <2>2 DEF Contents
  <1>9. \A i \in IdsIn(Seed.records) : i < Seed.next
    BY <1>1, <1>3, <1>7
  <1> QED BY <1>4, <1>6, <1>8, <1>9, Elements DEF Sound

LEMMA BootKeeps == ASSUME IInv, Boot PROVE IInv'
  <1>1. ~up /\ clients = {} /\ made = NoneMade /\ store = Nothing /\ store.next = 1
    BY DEF Boot, IInv, InMemory, Nothing
  <1>2. \A i \in Ids : made[i] < MaxMade
    BY <1>1, ConstantsAssumption DEF NoneMade
  <1>3. Seeding => /\ Sound(Seed) /\ Load(disk).next <= Seed.next
                   /\ \A r \in ToSet(Seed.records) : made[r.id] < MaxMade
    <2> SUFFICES ASSUME Seeding
                 PROVE  /\ Sound(Seed) /\ Load(disk).next <= Seed.next
                        /\ \A r \in ToSet(Seed.records) : made[r.id] < MaxMade
      OBVIOUS
    <2>1. Sound(Seed)
      BY SeedIsSound
    <2>2. Load(disk).next = 1
      BY DEF Seeding, Load, Nothing
    <2>3. Seed.next \in Nat /\ Seed.next >= 1 /\ Seed.records \in Seq(Records)
      BY <2>1, ConstantsAssumption DEF Sound, Contents
    <2>4. \A r \in ToSet(Seed.records) : r.id \in Ids
      BY <2>3, Elements DEF Records
    <2> QED BY <1>2, <2>1, <2>2, <2>3, <2>4
  <1>4. CASE /\ up' = TRUE /\ UNCHANGED trouble
             /\ Seeding /\ Written(Seed) /\ store' = Seed
             /\ Refresh(store'.records) /\ UNCHANGED <<closed, holds, age>>
    <2>1. OnDisk' /\ Known' /\ Load(disk)' = Seed
      BY <1>3, <1>4, WrittenKeeps
    <2>2. store.next <= Seed.next
      <3>1. Seed.next \in 1 .. MaxId + 1
        BY <1>3, <1>4 DEF Sound, Contents
      <3> QED BY <1>1, <3>1, ConstantsAssumption
    <2>3. OneEach(clients', Seed.records) /\ Counted' /\ Timed'
      BY <1>3, <1>4, <2>2, RefreshKeeps
    <2>4. InMemory'
      BY <1>3, <1>4, <2>1 DEF InMemory
    <2>5. OneEach(clients, store.records)'
      BY <1>4, <2>3
    <2> QED BY <1>4, <2>1, <2>3, <2>4, <2>5 DEF IInv
  <1>5. CASE /\ up' = TRUE /\ UNCHANGED trouble
             /\ store' = Load(disk) /\ UNCHANGED <<disk, given>>
             /\ Refresh(store'.records) /\ UNCHANGED <<closed, holds, age>>
    <2> DEFINE s == Load(disk)
    <2>1. Sound(s)
      BY LoadIsSound DEF IInv, OnDisk
    <2> HIDE DEF s
    <2>2. s.next \in 1 .. MaxId + 1 /\ s.records \in Seq(Records)
      BY <2>1 DEF Sound, Contents
    <2>3. store.next <= s.next
      BY <1>1, <2>2, ConstantsAssumption
    <2>4. \A r \in ToSet(s.records) : made[r.id] < MaxMade
      BY <1>2, <2>2, Elements DEF Records
    <2>5. store' = s /\ Refresh(s.records)
      BY <1>5 DEF s
    <2>6. OneEach(clients', s.records) /\ Counted' /\ Timed'
      BY <1>5, <2>1, <2>3, <2>4, <2>5, RefreshKeeps
    <2>7. InMemory'
      BY <1>5, <2>1, <2>5 DEF InMemory, s
    <2>8. OneEach(clients, store.records)'
      BY <2>5, <2>6
    <2>9. OnDisk' /\ Known'
      BY <1>5 DEF IInv, OnDisk, Known
    <2> QED BY <1>5, <2>6, <2>7, <2>8, <2>9 DEF IInv
  <1>6. CASE Seeding /\ Trouble /\ Written(Seed) /\ UNCHANGED <<up, process>>
    <2>1. OnDisk' /\ Known'
      BY <1>3, <1>6, WrittenKeeps
    <2>2. trouble' \in 0 .. MaxTrouble
      BY <1>6, TroubleIsBounded
    <2>3. InMemory' /\ OneEach(clients, store.records)'
      BY <1>1, <1>6 DEF IInv, InMemory, OneEach, process
    <2>4. Counted' /\ Timed'
      BY <1>6 DEF IInv, Counted, Timed, Busy, NotClosedEarly, process
    <2> QED BY <2>1, <2>2, <2>3, <2>4 DEF IInv
  <1> QED BY <1>4, <1>5, <1>6 DEF Boot

LEMMA CrashKeeps == ASSUME IInv, Crash PROVE IInv'
  <1>1. OnDisk' /\ Known' /\ trouble' \in 0 .. MaxTrouble
    BY TroubleIsBounded DEF IInv, OnDisk, Known, Crash
  <1> QED BY <1>1, GoneKeeps DEF Crash

\* What is not about clients stays, in the steps that only let clients age or work.
Quiet == UNCHANGED <<disk, up, store, clients, made, given, trouble>>

LEMMA QuietKeeps ==
  ASSUME IInv, Quiet, up, Counted', Timed'
  PROVE  IInv'
  BY DEF IInv, Quiet, OnDisk, InMemory, OneEach, Known

LEMMA NotUpIsIdle == IInv /\ ~up => Busy = {} /\ retiring = {} /\ clients = {}
  BY DEF IInv, InMemory, Busy, Idle

LEMMA CloseKeeps == ASSUME IInv, NEW x \in retiring, Close(x) PROVE IInv'
  <1>1. up /\ Quiet
    BY NotUpIsIdle DEF Close, Quiet
  <1>2. /\ retiring' = retiring \ {x} /\ closed' = closed \cup {x.client} /\ x.ticks >= RetireAfter
        /\ UNCHANGED <<clients, made, holds, age, store>>
    BY DEF Close, Ripe
  <1>3. Counted'
    BY <1>2 DEF IInv, Counted
  <1>4. Timed'
    <2>1. Busy' = Busy
      BY <1>2 DEF Busy
    <2>2. clients' \cap closed' = {}
      BY <1>2 DEF IInv, Timed
    <2>3. ASSUME NEW r \in Busy, holds[r] \in closed' PROVE age[r] >= RetireAfter
      <3>1. CASE holds[r] \in closed
        BY <3>1 DEF IInv, Timed, NotClosedEarly
      <3>2. CASE holds[r] = x.client
        <4>1. x.ticks <= age[r] /\ x.ticks \in 0 .. RetireAfter /\ age[r] \in 0 .. JobLimit
          BY <3>2 DEF IInv, Timed, Busy
        <4> QED BY <1>2, <4>1, ConstantsAssumption
      <3> QED BY <1>2, <2>3, <3>1, <3>2
    <2>4. NotClosedEarly'
      BY <1>2, <2>1, <2>3 DEF NotClosedEarly
    <2> QED BY <1>2, <2>1, <2>2, <2>4 DEF IInv, Timed
  <1> QED BY <1>1, <1>3, <1>4, QuietKeeps

LEMMA BeginKeeps == ASSUME IInv, NEW q \in Requests, Begin(q) PROVE IInv'
  <1>1. up /\ Quiet
    BY DEF Begin, Quiet
  <1>2. PICK c \in clients : holds' = [holds EXCEPT ![q] = c]
    BY DEF Begin
  <1>3. age' = [age EXCEPT ![q] = 0] /\ UNCHANGED <<clients, made, retiring, closed, store>>
    BY DEF Begin
  <1>4. c \in Clients /\ c.no <= made[c.id] /\ c \notin closed /\ \A x \in retiring : x.client # c
    BY DEF IInv, Counted, Timed
  <1>5. Counted'
    BY <1>3 DEF IInv, Counted
  <1>6. holds' \in [Requests -> Clients \cup {NoClient}] /\ age' \in [Requests -> 0 .. JobLimit]
    BY <1>2, <1>3, <1>4, ConstantsAssumption DEF IInv, Timed
  <1>7. holds'[q] = c /\ \A r \in Requests \ {q} : holds'[r] = holds[r] /\ age'[r] = age[r]
    BY <1>2, <1>3 DEF IInv, Timed
  <1>8. \A r \in Busy' : r = q \/ (r \in Busy /\ r # q)
    BY <1>7 DEF Busy
  <1>9. /\ \A r \in Busy' : holds'[r].no <= made'[holds'[r].id]
        /\ \A r \in Busy', x \in retiring' : x.client = holds'[r] => x.ticks <= age'[r]
    BY <1>3, <1>4, <1>7, <1>8 DEF IInv, Timed, Busy
  <1>10. NotClosedEarly'
    BY <1>3, <1>4, <1>7, <1>8 DEF IInv, Timed, NotClosedEarly, Busy
  <1>11. Timed'
    BY <1>3, <1>6, <1>9, <1>10 DEF IInv, Timed
  <1> QED BY <1>1, <1>5, <1>11, QuietKeeps

LEMMA FinishKeeps == ASSUME IInv, NEW q \in Requests, Finish(q) PROVE IInv'
  <1>1. up /\ Quiet
    BY NotUpIsIdle DEF Finish, Quiet, Busy
  <1>2. /\ holds' = [holds EXCEPT ![q] = NoClient] /\ age' = [age EXCEPT ![q] = 0]
        /\ UNCHANGED <<clients, made, retiring, closed, store>>
    BY DEF Finish
  <1>3. Counted'
    BY <1>2 DEF IInv, Counted
  <1>4. holds' \in [Requests -> Clients \cup {NoClient}] /\ age' \in [Requests -> 0 .. JobLimit]
    BY <1>2, ConstantsAssumption DEF IInv, Timed
  <1>5. \A r \in Busy' : r \in Busy /\ holds'[r] = holds[r] /\ age'[r] = age[r]
    BY <1>2 DEF IInv, Timed, Busy
  <1>6. NotClosedEarly'
    BY <1>2, <1>5 DEF IInv, Timed, NotClosedEarly
  <1>7. Timed'
    BY <1>2, <1>4, <1>5, <1>6 DEF IInv, Timed
  <1> QED BY <1>1, <1>3, <1>7, QuietKeeps

LEMMA TickKeeps == ASSUME IInv, Tick PROVE IInv'
  <1>1. up /\ Quiet
    BY NotUpIsIdle DEF Tick, Quiet
  <1>2. /\ age' = [r \in Requests |-> IF r \in Busy THEN age[r] + 1 ELSE 0]
        /\ retiring' = {[client |-> x.client, ticks |-> x.ticks + 1] : x \in retiring}
        /\ UNCHANGED <<clients, made, closed, holds, store>>
        /\ \A r \in Busy : age[r] < JobLimit
        /\ \A x \in retiring : ~ (x.ticks >= RetireAfter)
    BY DEF Tick, Ripe
  <1>3. \A y \in retiring' : \E x \in retiring : y.client = x.client /\ y.ticks = x.ticks + 1
    BY <1>2
  <1>4. Counted'
    BY <1>2, <1>3 DEF IInv, Counted
  <1>5. Busy' = Busy
    BY <1>2 DEF Busy
  <1>6. \A r \in Busy : age'[r] = age[r] + 1 /\ age[r] \in Nat /\ age[r] < JobLimit
    BY <1>2 DEF IInv, Timed, Busy
  <1>7. age' \in [Requests -> 0 .. JobLimit]
    <2>1. \A r \in Requests : age'[r] \in 0 .. JobLimit
      <3> SUFFICES ASSUME NEW r \in Requests PROVE age'[r] \in 0 .. JobLimit
        OBVIOUS
      <3>1. CASE r \in Busy
        BY <1>6, <3>1, ConstantsAssumption
      <3>2. CASE r \notin Busy
        BY <1>2, <3>2, ConstantsAssumption
      <3> QED BY <3>1, <3>2
    <2> QED BY <1>2, <2>1
  <1>8. ASSUME NEW y \in retiring' PROVE y.ticks \in 0 .. RetireAfter /\ y.client \notin clients
    <2>1. PICK x \in retiring : y.client = x.client /\ y.ticks = x.ticks + 1
      BY <1>3
    <2>2. x.ticks \in 0 .. RetireAfter /\ ~ (x.ticks >= RetireAfter) /\ x.client \notin clients
      BY <1>2 DEF IInv, Timed
    <2> QED BY <2>1, <2>2, ConstantsAssumption
  <1>9. ASSUME NEW r \in Busy, NEW y \in retiring', y.client = holds[r] PROVE y.ticks <= age'[r]
    <2>1. PICK x \in retiring : y.client = x.client /\ y.ticks = x.ticks + 1
      BY <1>3
    <2>2. x.ticks \in 0 .. RetireAfter /\ x.client = holds[r]
      BY <1>9, <2>1 DEF IInv, Timed
    <2>3. x.ticks <= age[r]
      BY <2>2 DEF IInv, Timed
    <2> QED BY <1>6, <2>1, <2>2, <2>3
  <1>10. NotClosedEarly'
    <2> SUFFICES ASSUME NEW r \in Busy, holds[r] \in closed PROVE age'[r] >= RetireAfter
      BY <1>2, <1>5 DEF NotClosedEarly
    <2>1. age[r] >= RetireAfter
      BY DEF IInv, Timed, NotClosedEarly
    <2> QED BY <1>6, <2>1, ConstantsAssumption
  <1>11. Timed'
    BY <1>2, <1>5, <1>7, <1>8, <1>9, <1>10 DEF IInv, Timed
  <1> QED BY <1>1, <1>4, <1>11, QuietKeeps

LEMMA StutterKeeps == IInv /\ UNCHANGED vars => IInv'
  <1> SUFFICES ASSUME IInv, UNCHANGED vars PROVE IInv'
    OBVIOUS
  <1>1. OnDisk' /\ InMemory' /\ OneEach(clients, store.records)' /\ Known' /\ trouble' \in 0 .. MaxTrouble
    BY DEF vars, process, IInv, OnDisk, InMemory, OneEach, Known
  <1>2. Counted' /\ Timed'
    BY DEF vars, process, IInv, Counted, Timed, Busy, NotClosedEarly
  <1> QED BY <1>1, <1>2 DEF IInv

LEMMA StepKeepsIInv == IInv /\ [Next]_vars => IInv'
  <1> SUFFICES ASSUME IInv, [Next]_vars PROVE IInv'
    OBVIOUS
  <1>1. CASE Change
    <2>1. ASSUME NEW f \in Forms, Add(f) PROVE IInv'
      BY <2>1, AddKeeps
    <2>2. ASSUME NEW k \in DOMAIN store.records, NEW f \in Forms, Edit(k, f) PROVE IInv'
      BY <2>2, EditKeeps
    <2>3. ASSUME NEW k \in DOMAIN store.records, Move(k) \/ Delete(k) PROVE IInv'
      BY <2>3, MoveKeeps, DeleteKeeps
    <2> QED BY <1>1, <2>1, <2>2, <2>3 DEF Change
  <1>2. CASE Boot \/ Crash \/ Tick \/ UNCHANGED vars
    BY <1>2, BootKeeps, CrashKeeps, TickKeeps, StutterKeeps
  <1>3. CASE \E x \in retiring : Close(x)
    BY <1>3, CloseKeeps
  <1>4. CASE \E r \in Requests : Begin(r) \/ Finish(r)
    BY <1>4, BeginKeeps, FinishKeeps
  <1> QED BY <1>1, <1>2, <1>3, <1>4 DEF Next

LEMMA Inductive == Spec => []IInv
  <1> QED BY InitIInv, StepKeepsIInv, PTL DEF Spec

-----------------------------------------------------------------------------
(* What follows.                                                           *)

\* Records, clients, numbers and times stay within their types, also after an
\* older file, failed writes and crashes.
THEOREM TypeCorrect == Spec => []TypeOK
  <1>1. IInv => TypeOK
    <2> SUFFICES ASSUME IInv PROVE TypeOK
      OBVIOUS
    <2>1. /\ disk # NoFile => disk \in Contents
          /\ up \in BOOLEAN /\ store \in Contents /\ Distinct(store.records)
      BY DEF IInv, OnDisk, InMemory, Sound
    <2>2. /\ clients \subseteq Clients /\ made \in [Ids -> 0 .. MaxMade] /\ closed \subseteq Clients
          /\ \A x \in retiring : x.client \in Clients /\ x.ticks \in 0 .. RetireAfter
      BY DEF IInv, Counted, Timed
    <2>3. /\ holds \in [Requests -> Clients \cup {NoClient}] /\ age \in [Requests -> 0 .. JobLimit]
          /\ given \subseteq Ids /\ trouble \in 0 .. MaxTrouble
      BY DEF IInv, Timed, Known
    <2> QED BY <2>1, <2>2, <2>3 DEF TypeOK
  <1> QED BY <1>1, Inductive, PTL

\* Whatever writes have failed, memory is what the file says, and every record has
\* one client, of that very record: _save persists before it publishes, and the
\* routes refresh in the same step.
THEOREM AllAgree == Spec => []Agreement
  <1>1. IInv => Agreement
    <2> SUFFICES ASSUME IInv, up PROVE /\ store = Load(disk)
                                       /\ {[id |-> c.id, form |-> c.form] : c \in clients} = ToSet(store.records)
                                       /\ \A c, d \in clients : c.id = d.id => c = d
      BY DEF Agreement
    <2>1. store = Load(disk) /\ OneEach(clients, store.records) /\ store.records \in Seq(Records)
      BY DEF IInv, InMemory, Sound, Contents
    <2>2. \A r \in ToSet(store.records) : r = [id |-> r.id, form |-> r.form]
      <3>1. ToSet(store.records) \subseteq Records
        BY <2>1, Elements
      <3>2. \A r \in Records : r = [id |-> r.id, form |-> r.form]
        BY DEF Records
      <3> QED BY <3>1, <3>2
    <2>3. \A c, r : Fits(c, r) => [id |-> c.id, form |-> c.form] = [id |-> r.id, form |-> r.form]
      BY DEF Fits
    <2>4. {[id |-> c.id, form |-> c.form] : c \in clients} = ToSet(store.records)
      <3>1. ASSUME NEW c \in clients PROVE [id |-> c.id, form |-> c.form] \in ToSet(store.records)
        BY <2>1, <2>2, <2>3 DEF OneEach
      <3>2. ASSUME NEW r \in ToSet(store.records)
            PROVE  \E c \in clients : r = [id |-> c.id, form |-> c.form]
        BY <2>1, <2>2, <2>3 DEF OneEach
      <3> QED BY <3>1, <3>2
    <2> QED BY <2>1, <2>4 DEF OneEach
  <1> QED BY <1>1, Inductive, PTL

\* However clients are replaced and requests overlap, none is closed under a request
\* that has held it for less than RETIRE_AFTER_SECONDS.
THEOREM ClosedLate == Spec => []NotClosedEarly
  <1>1. IInv => NotClosedEarly
    BY DEF IInv, Timed
  <1> QED BY <1>1, Inductive, PTL

\* No route throws away a client, and the session it holds, whose record it has not
\* changed.
THEOREM SessionsStay == Spec => SessionsKept
  <1> DEFINE Stays == up /\ up' => \A c \in clients :
                         (\E r \in ToSet(store'.records) : r.id = c.id /\ r.form = c.form) => c \in clients'
  <1>1. ASSUME NEW s, Persist(s, Refresh(s.records)) PROVE Stays
    <2>1. CASE store' = s /\ Refresh(s.records)
      BY <2>1 DEF Refresh, Fits
    <2>2. CASE clients' = clients \/ ~up'
      BY <2>2
    <2> QED BY <1>1, <2>1, <2>2 DEF Persist, Gone
  <1>2. ASSUME Change PROVE Stays
    <2>1. ASSUME NEW k, Move(k) PROVE clients' = clients \/ ~up'
      BY <2>1 DEF Move, Persist, Gone
    <2> QED BY <1>1, <1>2, <2>1 DEF Change, Add, Edit, Delete
  <1>3. ASSUME Next PROVE Stays
    <2>1. CASE Boot
      BY <2>1 DEF Boot
    <2>2. CASE clients' = clients \/ ~up'
      BY <2>2
    <2>3. Boot \/ Change \/ clients' = clients \/ ~up'
      BY <1>3 DEF Next, Crash, Gone, Tick, Close, Begin, Finish
    <2> QED BY <1>2, <2>1, <2>2, <2>3
  <1>4. [Next]_vars => [Stays]_vars
    BY <1>3
  <1> QED BY <1>4, PTL DEF Spec, SessionsKept

-----------------------------------------------------------------------------
(* The registry.                                                           *)

ShownSet == ToSet(Shown)

LEMMA ShownIsLoaded == IInv => Shown = Load(disk).records
  BY DEF IInv, InMemory, Shown

LEMMA ShownIsKnown ==
  IInv => /\ ShownSet \subseteq Records /\ \A x \in ShownSet : x.id \in given
          /\ \A x, y \in ShownSet : x.id = y.id => x = y
  <1> SUFFICES ASSUME IInv PROVE /\ ShownSet \subseteq Records /\ \A x \in ShownSet : x.id \in given
                                 /\ \A x, y \in ShownSet : x.id = y.id => x = y
    OBVIOUS
  <1>1. Sound(Load(disk))
    BY LoadIsSound DEF IInv, OnDisk
  <1>2. Load(disk).records \in Seq(Records) /\ Distinct(Load(disk).records)
    BY <1>1 DEF Sound, Contents
  <1> QED BY <1>2, Elements, DistinctElements, ShownIsLoaded DEF ShownSet, IInv, Known

\* A file that is written shows its records, and adds their ids to those given.
LEMMA WrittenShows ==
  ASSUME IInv, IInv', NEW s, Sound(s), Written(s)
  PROVE  ShownSet' = ToSet(s.records) /\ given' = given \cup IdsIn(s.records)
  <1>1. Load(disk)' = s
    BY LoadIsExact DEF Written
  <1>2. Shown' = Load(disk)'.records
    BY ShownIsLoaded DEF IInv, InMemory, Shown
  <1> QED BY <1>1, <1>2 DEF ShownSet, Written

LEMMA UnwrittenShows ==
  ASSUME IInv, IInv', disk' = disk, given' = given
  PROVE  ShownSet' = ShownSet /\ given' = given
  <1>1. Shown' = Load(disk)'.records
    BY DEF IInv, InMemory, Shown
  <1> QED BY <1>1, ShownIsLoaded DEF ShownSet

LEMMA RouteShows ==
  ASSUME IInv, IInv', NEW s, Sound(s),
         Persist(s, Refresh(s.records)) \/ Persist(s, UNCHANGED <<clients, made, retiring>>)
  PROVE  \/ ShownSet' = ToSet(s.records) /\ given' = given \cup IdsIn(s.records)
         \/ ShownSet' = ShownSet /\ given' = given
  <1>1. Written(s) \/ (disk' = disk /\ given' = given)
    BY DEF Persist, Unsaved
  <1>2. CASE Written(s)
    BY <1>2, WrittenShows
  <1>3. CASE disk' = disk /\ given' = given
    BY <1>3, UnwrittenShows
  <1> QED BY <1>1, <1>2, <1>3

LEMMA UpIsShown ==
  IInv /\ up => Sound(store) /\ store = Load(disk) /\ ShownSet = ToSet(store.records)
  BY DEF IInv, InMemory, ShownSet, Shown

LEMMA AddIsAdded ==
  ASSUME IInv, IInv', NEW f \in Forms, Add(f)
  PROVE  [Kept!RegistryNext]_<<ShownSet, given>>
  <1>1. up /\ store.next <= MaxId
    BY DEF Add, Persist
  <1>2. Sound(store) /\ store = Load(disk) /\ ShownSet = ToSet(store.records)
    BY <1>1, UpIsShown
  <1>3. /\ Sound(AfterAdd(f))
        /\ ToSet(AfterAdd(f).records) = ToSet(store.records) \cup {Record(store.next, f)}
    BY <1>1, <1>2, AddIsSound
  <1>4. CASE ShownSet' = ShownSet /\ given' = given
    BY <1>4
  <1>5. CASE /\ ShownSet' = ToSet(AfterAdd(f).records)
             /\ given' = given \cup IdsIn(AfterAdd(f).records)
    <2>1. store.next \in Ids /\ store.next \notin given
      <3>1. store.next \in 1 .. MaxId + 1
        BY <1>2 DEF Sound, Contents
      <3>2. \A i \in given : i \in Nat /\ i < store.next
        BY <1>2 DEF IInv, Known, Ids
      <3> QED BY <1>1, <3>1, <3>2, ConstantsAssumption DEF Ids
    <2>2. ShownSet' = ShownSet \cup {[id |-> store.next, form |-> f]}
      BY <1>2, <1>3, <1>5 DEF Record
    <2>3. given' = given \cup {store.next}
      <3>1. \A i : i \in IdsIn(AfterAdd(f).records) <=> i = store.next \/ i \in IdsIn(store.records)
        <4>1. Record(store.next, f).id = store.next
          BY DEF Record
        <4>2. \A i : i \in IdsIn(AfterAdd(f).records)
                     <=> \E x \in ToSet(store.records) \cup {Record(store.next, f)} : i = x.id
          BY <1>3 DEF IdsIn
        <4>3. \A i : i \in IdsIn(store.records) <=> \E x \in ToSet(store.records) : i = x.id
          BY DEF IdsIn
        <4> QED BY <4>1, <4>2, <4>3
      <3>2. IdsIn(store.records) \subseteq given
        BY <1>2 DEF IInv, Known
      <3> QED BY <1>5, <3>1, <3>2
    <2>4. Kept!Added(store.next, f)
      BY <2>1, <2>2, <2>3 DEF Kept!Added, ShownSet
    <2> QED BY <2>1, <2>4 DEF Kept!RegistryNext
  <1> QED BY <1>3, <1>4, <1>5, RouteShows DEF Add

LEMMA EditIsEdited ==
  ASSUME IInv, IInv', NEW k, NEW f \in Forms, Edit(k, f)
  PROVE  [Kept!RegistryNext]_<<ShownSet, given>>
  <1>1. up /\ k \in DOMAIN store.records
    BY DEF Edit, Persist
  <1>2. Sound(store) /\ store = Load(disk) /\ ShownSet = ToSet(store.records)
    BY <1>1, UpIsShown
  <1> DEFINE x == store.records[k]
  <1>3. /\ Sound(AfterEdit(k, f)) /\ x \in ToSet(store.records)
        /\ ToSet(AfterEdit(k, f).records) = (ToSet(store.records) \ {x}) \cup {Record(x.id, f)}
    BY <1>1, <1>2, EditIsSound
  <1> HIDE DEF x
  <1>4. CASE ShownSet' = ShownSet /\ given' = given
    BY <1>4
  <1>5. CASE /\ ShownSet' = ToSet(AfterEdit(k, f).records)
             /\ given' = given \cup IdsIn(AfterEdit(k, f).records)
    <2>1. ShownSet' = (ShownSet \ {x}) \cup {[id |-> x.id, form |-> f]} /\ x \in ShownSet
      BY <1>2, <1>3, <1>5 DEF Record
    <2>2. given' = given
      <3>1. \A i \in IdsIn(AfterEdit(k, f).records) : i \in IdsIn(store.records)
        BY <1>3 DEF IdsIn, Record
      <3>2. IdsIn(store.records) \subseteq given
        BY <1>2 DEF IInv, Known
      <3> QED BY <1>5, <3>1, <3>2
    <2>3. Kept!Edited(x, f)
      BY <2>1, <2>2 DEF Kept!Edited, ShownSet
    <2> QED BY <2>1, <2>3 DEF Kept!RegistryNext, ShownSet
  <1> QED BY <1>3, <1>4, <1>5, RouteShows DEF Edit

LEMMA DeleteIsRemoved ==
  ASSUME IInv, IInv', NEW k, Delete(k)
  PROVE  [Kept!RegistryNext]_<<ShownSet, given>>
  <1>1. up /\ k \in DOMAIN store.records
    BY DEF Delete, Persist
  <1>2. Sound(store) /\ store = Load(disk) /\ ShownSet = ToSet(store.records)
    BY <1>1, UpIsShown
  <1> DEFINE x == store.records[k]
  <1>3. /\ Sound(AfterDelete(k)) /\ x \in ToSet(store.records)
        /\ ToSet(AfterDelete(k).records) = ToSet(store.records) \ {x}
    BY <1>1, <1>2, DeleteIsSound
  <1> HIDE DEF x
  <1>4. CASE ShownSet' = ShownSet /\ given' = given
    BY <1>4
  <1>5. CASE /\ ShownSet' = ToSet(AfterDelete(k).records)
             /\ given' = given \cup IdsIn(AfterDelete(k).records)
    <2>1. ShownSet' = ShownSet \ {x} /\ x \in ShownSet
      BY <1>2, <1>3, <1>5
    <2>2. given' = given
      <3>1. \A i \in IdsIn(AfterDelete(k).records) : i \in IdsIn(store.records)
        BY <1>3 DEF IdsIn
      <3>2. IdsIn(store.records) \subseteq given
        BY <1>2 DEF IInv, Known
      <3> QED BY <1>5, <3>1, <3>2
    <2>3. Kept!Removed(x)
      BY <2>1, <2>2 DEF Kept!Removed, ShownSet
    <2> QED BY <2>1, <2>3 DEF Kept!RegistryNext, ShownSet
  <1> QED BY <1>3, <1>4, <1>5, RouteShows DEF Delete

LEMMA MoveIsNothing ==
  ASSUME IInv, IInv', NEW k, Move(k)
  PROVE  ShownSet' = ShownSet /\ given' = given
  <1>1. up /\ k \in DOMAIN store.records /\ k + 1 \in DOMAIN store.records
    BY DEF Move, Persist
  <1>2. Sound(store) /\ store = Load(disk) /\ ShownSet = ToSet(store.records)
    BY <1>1, UpIsShown
  <1>3. Sound(AfterMove(k)) /\ ToSet(AfterMove(k).records) = ToSet(store.records)
    BY <1>1, <1>2, MoveIsSound
  <1>4. IdsIn(AfterMove(k).records) \subseteq given
    <2>1. IdsIn(AfterMove(k).records) = IdsIn(store.records)
      BY <1>3 DEF IdsIn
    <2> QED BY <1>2, <2>1 DEF IInv, Known
  <1>5. \/ ShownSet' = ToSet(AfterMove(k).records) /\ given' = given \cup IdsIn(AfterMove(k).records)
        \/ ShownSet' = ShownSet /\ given' = given
    BY <1>3, RouteShows DEF Move
  <1> QED BY <1>2, <1>3, <1>4, <1>5

LEMMA BootIsImport ==
  ASSUME IInv, IInv', Boot
  PROVE  [Kept!RegistryNext]_<<ShownSet, given>>
  <1>1. (Seeding /\ Written(Seed)) \/ (disk' = disk /\ given' = given)
    BY DEF Boot
  <1>2. CASE disk' = disk /\ given' = given
    BY <1>2, UnwrittenShows
  <1>3. CASE Seeding /\ Written(Seed)
    <2>1. Sound(Seed) /\ Seed.records \in Seq(Records) /\ Distinct(Seed.records)
      BY <1>3, SeedIsSound DEF Sound, Contents
    <2>2. ShownSet' = ToSet(Seed.records) /\ given' = given \cup IdsIn(Seed.records)
      BY <1>3, <2>1, WrittenShows
    <2>3. Load(disk).next = 1 /\ Load(disk).records = <<>>
      BY <1>3 DEF Seeding, Load, Nothing
    <2>4. given = {}
      BY <2>3 DEF IInv, Known, Ids
    <2>5. ShownSet = {}
      BY <2>3, ShownIsLoaded DEF ShownSet, ToSet
    <2>6. ShownSet' \subseteq [id : Ids, form : Forms] /\ \A x, y \in ShownSet' : x.id = y.id => x = y
      BY <2>1, <2>2, Elements, DistinctElements DEF Records
    <2>7. given' = {x.id : x \in ShownSet'}
      BY <2>2, <2>4 DEF IdsIn
    <2>8. Kept!Import
      BY <2>4, <2>5, <2>6, <2>7 DEF Kept!Import, Kept!IdsOf, ShownSet
    <2> QED BY <2>8 DEF Kept!RegistryNext
  <1> QED BY <1>1, <1>2, <1>3

LEMMA RegistryStep == IInv /\ IInv' /\ [Next]_vars => [Kept!RegistryNext]_<<ShownSet, given>>
  <1> SUFFICES ASSUME IInv, IInv', [Next]_vars PROVE [Kept!RegistryNext]_<<ShownSet, given>>
    OBVIOUS
  <1>1. CASE Change
    <2>1. ASSUME NEW f \in Forms, Add(f) PROVE [Kept!RegistryNext]_<<ShownSet, given>>
      BY <2>1, AddIsAdded
    <2>2. ASSUME NEW k \in DOMAIN store.records, NEW f \in Forms, Edit(k, f)
          PROVE  [Kept!RegistryNext]_<<ShownSet, given>>
      BY <2>2, EditIsEdited
    <2>3. ASSUME NEW k \in DOMAIN store.records, Move(k) PROVE [Kept!RegistryNext]_<<ShownSet, given>>
      BY <2>3, MoveIsNothing
    <2>4. ASSUME NEW k \in DOMAIN store.records, Delete(k) PROVE [Kept!RegistryNext]_<<ShownSet, given>>
      BY <2>4, DeleteIsRemoved
    <2> QED BY <1>1, <2>1, <2>2, <2>3, <2>4 DEF Change
  <1>2. CASE Boot
    BY <1>2, BootIsImport
  <1>3. CASE disk' = disk /\ given' = given
    BY <1>3, UnwrittenShows
  <1>4. Change \/ Boot \/ (disk' = disk /\ given' = given)
    BY DEF Next, Crash, Tick, Close, Begin, Finish, vars
  <1> QED BY <1>1, <1>2, <1>3, <1>4

\* Through failed writes, crashes and restarts the store behaves as a registry that
\* never loses an instance and never gives an id to a second one, which is what
\* keeps a page with a deleted instance harmless.
THEOREM RegistryImplemented == Spec => ImplementsRegistry
  <1>1. Init => Kept!RegistryInit
    <2> SUFFICES ASSUME Init PROVE Kept!RegistryInit
      OBVIOUS
    <2>1. IInv
      BY InitIInv
    <2>2. /\ ShownSet \subseteq [id : Ids, form : Forms] /\ \A x \in ShownSet : x.id \in given
          /\ \A x, y \in ShownSet : x.id = y.id => x = y
      BY <2>1, ShownIsKnown DEF Records
    <2>3. given \subseteq Ids
      BY <2>1 DEF IInv, Known
    <2> QED BY <2>2, <2>3 DEF Kept!RegistryInit, Kept!IdsOf, ShownSet
  <1>2. IInv /\ IInv' /\ [Next]_vars => [Kept!RegistryNext]_<<ToSet(Shown), given>>
    BY RegistryStep DEF ShownSet
  <1> QED BY <1>1, <1>2, Inductive, PTL DEF Spec, ImplementsRegistry, Kept!RegistrySpec

=============================================================================
