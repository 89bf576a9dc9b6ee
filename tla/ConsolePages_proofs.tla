------------------------ MODULE ConsolePages_proofs -------------------------
(***************************************************************************)
(* Theorems about the pages of the console on which a user composes        *)
(* something, a message, a session, an agent, or looks at what there is:   *)
(* a list, the events of a session.  A behaviour of Console stays on its   *)
(* page, so the invariant of a page needs the steps of that page only.     *)
(***************************************************************************)
EXTENDS Console, FiniteSetTheorems, SequenceTheorems, WellFoundedInduction, TLAPS

vars == <<ui, srv, left, route>>

\* A part of a sequence, place by place.
LEMMA Slice ==
  ASSUME NEW S, NEW s \in Seq(S), NEW m \in Int, NEW q \in Int, 1 <= m, q <= Len(s)
  PROVE  /\ SubSeq(s, m, q) \in Seq(S)
         /\ Len(SubSeq(s, m, q)) = IF m <= q THEN q - m + 1 ELSE 0
         /\ \A i \in 1..(q - m + 1) : SubSeq(s, m, q)[i] = s[m + i - 1]
<1>1. \A i \in m..q : s[i] \in S
  BY LenProperties, ElementOfSeq
<1> QED
  BY <1>1, SubSeqProperties

\* A sequence without what is at place p.
LEMMA Without ==
  ASSUME NEW S, NEW s \in Seq(S), NEW p \in 1..Len(s)
  PROVE  LET r == SubSeq(s, 1, p - 1) \o SubSeq(s, p + 1, Len(s))
         IN /\ r \in Seq(S) /\ Len(r) = Len(s) - 1 /\ DOMAIN r = 1..(Len(s) - 1)
            /\ \A i \in 1..(Len(s) - 1) : r[i] = IF i < p THEN s[i] ELSE s[i + 1]
<1> DEFINE a == SubSeq(s, 1, p - 1)
           b == SubSeq(s, p + 1, Len(s))
           r == a \o b
           n == Len(s)
<1>0. n \in Nat /\ p \in 1..n /\ \A i \in 1..n : s[i] \in S
  BY LenProperties, ElementOfSeq
<1>1. /\ a \in Seq(S) /\ Len(a) = p - 1
      /\ \A i \in 1..(p - 1) : a[i] = s[i]
  <2>1. p - 1 \in Int /\ 1 <= 1 /\ p - 1 <= n /\ \A i \in 1..(p - 1) : 1 + i - 1 = i
    BY <1>0
  <2>2. /\ a \in Seq(S) /\ Len(a) = IF 1 <= p - 1 THEN p - 1 - 1 + 1 ELSE 0
        /\ \A i \in 1..(p - 1 - 1 + 1) : a[i] = s[1 + i - 1]
    BY <2>1, Slice
  <2> HIDE DEF a
  <2> QED
    BY <1>0, <2>1, <2>2
<1>2. /\ b \in Seq(S) /\ Len(b) = n - p
      /\ \A i \in 1..(n - p) : b[i] = s[p + i]
  <2>1. p + 1 \in Int /\ 1 <= p + 1 /\ n <= n /\ \A i \in 1..(n - p) : p + 1 + i - 1 = p + i
    BY <1>0
  <2>2. /\ b \in Seq(S) /\ Len(b) = IF p + 1 <= n THEN n - (p + 1) + 1 ELSE 0
        /\ \A i \in 1..(n - (p + 1) + 1) : b[i] = s[p + 1 + i - 1]
    BY <1>0, <2>1, Slice
  <2> HIDE DEF b
  <2> QED
    BY <1>0, <2>1, <2>2
<1> HIDE DEF a, b, n
<1>3. /\ a \o b \in Seq(S) /\ Len(a \o b) = Len(a) + Len(b)
      /\ \A i \in 1..(Len(a) + Len(b)) : (a \o b)[i] = IF i <= Len(a) THEN a[i] ELSE b[i - Len(a)]
  BY <1>1, <1>2, ConcatProperties, Zenon
<1> HIDE DEF r
<1>4. r \in Seq(S) /\ Len(r) = n - 1 /\ DOMAIN r = 1..(n - 1)
  <2>1. r \in Seq(S) /\ Len(r) = (p - 1) + (n - p)
    BY <1>1, <1>2, <1>3 DEF r
  <2>2. DOMAIN r = 1..Len(r)
    BY <2>1, LenProperties
  <2> QED
    BY <1>0, <2>1, <2>2
<1>5. ASSUME NEW i \in 1..(n - 1)
      PROVE  r[i] = IF i < p THEN s[i] ELSE s[i + 1]
  <2>1. i \in 1..(Len(a) + Len(b))
    BY <1>0, <1>1, <1>2
  <2>2. CASE i < p
    <3>1. i \in 1..(p - 1) /\ i <= Len(a)
      BY <1>0, <1>1, <2>2
    <3>2. r[i] = a[i]
      BY <1>3, <2>1, <3>1 DEF r
    <3> QED
      BY <1>1, <2>2, <3>1, <3>2
  <2>3. CASE ~(i < p)
    <3>1. ~(i <= Len(a)) /\ i - Len(a) \in 1..(n - p) /\ p + (i - Len(a)) = i + 1
      BY <1>0, <1>1, <2>3
    <3>2. r[i] = b[i - Len(a)]
      BY <1>3, <2>1, <3>1 DEF r
    <3>3. b[i - Len(a)] = s[p + (i - Len(a))]
      BY <1>2, <3>1
    <3> QED
      BY <2>3, <3>1, <3>2, <3>3
  <2> QED
    BY <2>2, <2>3
<1> QED
  BY <1>4, <1>5 DEF r, a, b, n

-----------------------------------------------------------------------------
(***************************************************************************)
(* The prompt.                                                             *)
(***************************************************************************)
PromptUi ==
  [page : {"prompt", "prompt_gone"}, provider : BOOLEAN, items : Seq(Nat),
   live : SUBSET Nat, next : Nat, text : BOOLEAN, composing : BOOLEAN,
   generating : BOOLEAN, shots : SUBSET Nat]

\* A file has an id of its own, and a URL under it.
FilesNamed(u) ==
  /\ \A i \in DOMAIN u.items : u.items[i] < u.next
  /\ \A i, j \in DOMAIN u.items : u.items[i] = u.items[j] => i = j
  /\ u.live = {u.items[i] : i \in DOMAIN u.items}

PromptOK(u) == u \in PromptUi /\ FilesNamed(u)

\* A list and the files after it, place by place.
LEMMA Joined ==
  ASSUME NEW s \in Seq(Nat), NEW t \in Seq(Nat)
  PROVE  /\ s \o t \in Seq(Nat) /\ DOMAIN (s \o t) = 1..(Len(s) + Len(t))
         /\ \A i \in 1..Len(s) : (s \o t)[i] = s[i]
         /\ \A i \in 1..Len(t) : (s \o t)[Len(s) + i] = t[i]
<1>1. /\ s \o t \in Seq(Nat) /\ Len(s \o t) = Len(s) + Len(t)
      /\ \A i \in 1..(Len(s) + Len(t)) :
           (s \o t)[i] = IF i <= Len(s) THEN s[i] ELSE t[i - Len(s)]
  BY ConcatProperties, Zenon
<1>2. Len(s) \in Nat /\ Len(t) \in Nat /\ DOMAIN (s \o t) = 1..Len(s \o t)
  BY <1>1, LenProperties
<1> DEFINE w == s \o t
           k == Len(s)
           m == Len(t)
<1> HIDE DEF w, k, m
<1>3. /\ \A i \in 1..(k + m) : w[i] = IF i <= k THEN s[i] ELSE t[i - k]
      /\ k \in Nat /\ m \in Nat
  BY <1>1, <1>2 DEF w, k, m
<1>4. (\A i \in 1..k : w[i] = s[i]) /\ \A i \in 1..m : w[k + i] = t[i]
  <2>1. \A i \in 1..k : i \in 1..(k + m) /\ i <= k
    BY <1>3
  <2>2. \A i \in 1..m : k + i \in 1..(k + m) /\ ~(k + i <= k) /\ (k + i) - k = i
    BY <1>3
  <2> QED
    BY <1>3, <2>1, <2>2
<1> QED
  BY <1>1, <1>2, <1>4 DEF w, k, m

LEMMA FilesListed ==
  ASSUME NEW u, PromptOK(u), NEW n \in Nat
  PROVE  PromptOK(PI!Listed(u, n))
<1> DEFINE new == [i \in 1..n |-> u.next + i - 1]
           v == PI!Listed(u, n)
           w == u.items \o new
<1> HIDE DEF w
<1>a. u \in PromptUi /\ FilesNamed(u)
  BY DEF PromptOK
<1>b. /\ u.items \in Seq(Nat) /\ u.next \in Nat /\ u.live \in SUBSET Nat
      /\ Len(u.items) \in Nat /\ DOMAIN u.items = 1..Len(u.items)
  BY <1>a, LenProperties DEF PromptUi
<1>1. /\ new \in Seq(Nat) /\ Len(new) = n /\ DOMAIN new = 1..n
      /\ \A i \in 1..n : new[i] = u.next + i - 1
  <2>1. \A i \in 1..n : u.next + i - 1 \in Nat
    BY <1>b
  <2> QED
    BY <2>1
<1>2. v = [u EXCEPT !.items = w, !.live = u.live \cup PI!ToSet(new), !.next = u.next + n]
  BY DEF PI!Listed, w
<1>3. PI!ToSet(new) = {new[i] : i \in 1..n}
  BY <1>1 DEF PI!ToSet
<1> HIDE DEF new, v
<1>4. /\ w \in Seq(Nat) /\ DOMAIN w = 1..(Len(u.items) + n)
      /\ \A i \in 1..Len(u.items) : w[i] = u.items[i]
      /\ \A i \in 1..n : w[Len(u.items) + i] = u.next + i - 1
  BY <1>b, <1>1, Joined DEF w
<1>5. PI!ToSet(new) \in SUBSET Nat /\ u.next + n \in Nat
  BY <1>b, <1>1, <1>3
<1>6. v \in PromptUi /\ v.items = w /\ v.next = u.next + n
      /\ v.live = u.live \cup PI!ToSet(new)
  <2> DEFINE live == u.live \cup PI!ToSet(new)
             next == u.next + n
  <2>1. live \in SUBSET Nat /\ next \in Nat
    BY <1>b, <1>5
  <2>2. v = [u EXCEPT !.items = w, !.live = live, !.next = next]
    BY <1>2
  <2> HIDE DEF live, next
  <2>3. v \in PromptUi /\ v.items = w /\ v.next = next /\ v.live = live
    BY <1>a, <1>4, <2>1, <2>2 DEF PromptUi
  <2> QED
    BY <2>3 DEF live, next
<1> DEFINE k == Len(u.items)
<1> HIDE DEF k
<1>7. \A i \in DOMAIN w : \/ i \in 1..k /\ w[i] = u.items[i]
                          \/ \E j \in 1..n : i = k + j /\ w[i] = u.next + j - 1
  <2> SUFFICES ASSUME NEW i \in 1..(k + n)
               PROVE  \/ i \in 1..k /\ w[i] = u.items[i]
                      \/ \E j \in 1..n : i = k + j /\ w[i] = u.next + j - 1
    BY <1>4 DEF k
  <2>1. CASE i <= k
    BY <1>4, <1>b, <2>1 DEF k
  <2>2. CASE ~(i <= k)
    <3>1. i - k \in 1..n /\ i = k + (i - k)
      BY <1>b, <2>2 DEF k
    <3>2. w[k + (i - k)] = u.next + (i - k) - 1
      BY <1>4, <3>1 DEF k
    <3> QED
      BY <3>1, <3>2
  <2> QED
    BY <2>1, <2>2
<1>8. /\ \A i \in 1..k : u.items[i] \in Nat /\ u.items[i] < u.next
      /\ \A i, j \in 1..k : u.items[i] = u.items[j] => i = j
      /\ k \in Nat
  BY <1>a, <1>b, ElementOfSeq DEF FilesNamed, k
<1>9. \A i \in DOMAIN w : w[i] < v.next
  BY <1>b, <1>6, <1>7, <1>8
<1>10. \A i, j \in DOMAIN w : w[i] = w[j] => i = j
  <2> SUFFICES ASSUME NEW i \in DOMAIN w, NEW j \in DOMAIN w, w[i] = w[j] PROVE i = j
    OBVIOUS
  <2>1. CASE i \in 1..k /\ w[i] = u.items[i]
    <3>1. w[j] < u.next
      BY <1>8, <2>1
    <3>2. j \in 1..k /\ w[j] = u.items[j]
      BY <1>b, <1>7, <3>1
    <3> QED
      BY <1>8, <2>1, <3>2
  <2>2. CASE \E x \in 1..n : i = k + x /\ w[i] = u.next + x - 1
    <3>1. PICK x \in 1..n : i = k + x /\ w[i] = u.next + x - 1
      BY <2>2
    <3>2. ~(w[j] < u.next)
      BY <1>b, <3>1
    <3>3. PICK y \in 1..n : j = k + y /\ w[j] = u.next + y - 1
      BY <1>7, <1>8, <3>2
    <3>4. x = y
      BY <1>b, <3>1, <3>3
    <3> QED
      BY <3>1, <3>3, <3>4
  <2> QED
    BY <1>7, <2>1, <2>2
<1>11. v.live = {w[i] : i \in DOMAIN w}
  <2>1. ASSUME NEW x \in u.live PROVE \E i \in DOMAIN w : w[i] = x
    <3>1. PICK i \in 1..k : x = u.items[i]
      BY <1>a, <1>b DEF FilesNamed, k
    <3>2. i \in DOMAIN w
      BY <1>4, <1>8 DEF k
    <3> QED
      BY <1>4, <3>1, <3>2 DEF k
  <2>2. ASSUME NEW x \in PI!ToSet(new) PROVE \E i \in DOMAIN w : w[i] = x
    <3>1. PICK i \in 1..n : x = u.next + i - 1
      BY <1>1, <1>3
    <3>2. k + i \in DOMAIN w
      BY <1>4, <1>8 DEF k
    <3> QED
      BY <1>4, <3>1, <3>2 DEF k
  <2>3. ASSUME NEW i \in DOMAIN w PROVE w[i] \in v.live
    <3>1. CASE i \in 1..k /\ w[i] = u.items[i]
      BY <1>a, <1>b, <1>6, <3>1 DEF FilesNamed, k
    <3>2. CASE \E j \in 1..n : i = k + j /\ w[i] = u.next + j - 1
      BY <1>1, <1>3, <1>6, <3>2
    <3> QED
      BY <1>7, <3>1, <3>2
  <2> QED
    BY <1>6, <2>1, <2>2, <2>3
<1> QED
  BY <1>6, <1>9, <1>10, <1>11 DEF PromptOK, FilesNamed, v

LEMMA SamePromptCount == \A S : PI!Cardinality(S) = Cardinality(S)
BY Zenon DEF PI!Cardinality, Cardinality, IsFiniteSet, PI!IsFiniteSet

LEMMA FilesAdded ==
  ASSUME ConsoleAssumption, NEW u, PromptOK(u), NEW ks \in Seq(PI!FileKinds), NEW seen \in Nat
  PROVE  PromptOK(PI!add(u, ks, seen))
<1> DEFINE fit == {i \in DOMAIN ks : PI!matchesAccept(ks[i]) /\ ks[i] # "too_large"}
<1>1. Cardinality(fit) \in Nat
  <2>1. IsFiniteSet(1..Len(ks)) /\ DOMAIN ks = 1..Len(ks)
    BY FS_Interval, LenProperties
  <2>2. IsFiniteSet(fit)
    BY <2>1, FS_Subset
  <2> QED
    BY <2>2, FS_CardinalityType
<1>2. PI!Sized(ks) = Cardinality(fit)
  BY SamePromptCount DEF PI!Sized
<1>3. u.items \in Seq(Nat) /\ Len(u.items) \in Nat
  BY LenProperties DEF PromptOK, PromptUi
<1>4. \A c \in Nat : PI!Room(c) \in Nat
  BY DEF PI!Room, ConsoleAssumption
<1>5. \A c \in Nat : PI!AtMost(PI!Sized(ks), PI!Room(c)) \in Nat
  BY <1>1, <1>2, <1>4 DEF PI!AtMost
<1> QED
  BY <1>3, <1>5, FilesListed DEF PI!add, PI!addLocal, PI!addWithProviderValidation

LEMMA FileRemoved ==
  ASSUME NEW u, PromptOK(u), NEW id \in PI!ToSet(u.items)
  PROVE  PromptOK(PI!remove(u, id))
<1> DEFINE s == u.items
           p == PI!Place(u, id)
           r == SubSeq(s, 1, p - 1) \o SubSeq(s, p + 1, Len(s))
           v == PI!remove(u, id)
           k == Len(s)
<1>a. u \in PromptUi /\ FilesNamed(u)
  BY DEF PromptOK
<1>b. s \in Seq(Nat) /\ k \in Nat /\ DOMAIN s = 1..k
  BY <1>a, LenProperties DEF PromptUi
<1>1. p \in 1..k /\ s[p] = id
  BY <1>b DEF PI!Place, PI!ToSet
<1>2. v = [u EXCEPT !.items = r, !.live = u.live \ {id}]
  BY DEF PI!remove, PI!RemoveAt
<1> HIDE DEF p, v
<1>3. /\ r \in Seq(Nat) /\ DOMAIN r = 1..(k - 1)
      /\ \A i \in 1..(k - 1) : r[i] = IF i < p THEN s[i] ELSE s[i + 1]
  BY <1>b, <1>1, Without
<1> HIDE DEF r, k
<1>4. v \in PromptUi /\ v.items = r /\ v.next = u.next /\ v.live = u.live \ {id}
  BY <1>a, <1>2, <1>3 DEF PromptUi
<1>5. /\ \A i \in 1..k : s[i] < u.next
      /\ \A i, j \in 1..k : s[i] = s[j] => i = j
      /\ u.live = {s[i] : i \in 1..k}
  BY <1>a, <1>b DEF FilesNamed
<1> HIDE DEF s
\* What is left was somewhere else.
<1> DEFINE At(i) == IF i < p THEN i ELSE i + 1
<1>6. /\ \A i \in DOMAIN r : At(i) \in 1..k /\ At(i) # p /\ r[i] = s[At(i)]
      /\ \A i, j \in DOMAIN r : At(i) = At(j) => i = j
      /\ \A x \in 1..k : x # p => \E i \in DOMAIN r : At(i) = x
  <2>1. ASSUME NEW x \in 1..k, x # p PROVE \E i \in DOMAIN r : At(i) = x
    <3>1. CASE x < p
      BY <1>1, <1>3, <1>b, <3>1
    <3>2. CASE ~(x < p)
      <4>1. x - 1 \in DOMAIN r /\ At(x - 1) = x
        BY <1>1, <1>3, <1>b, <2>1, <3>2
      <4> QED
        BY <4>1
    <3> QED
      BY <3>1, <3>2
  <2>2. ASSUME NEW i \in DOMAIN r PROVE At(i) \in 1..k /\ At(i) # p /\ r[i] = s[At(i)]
    <3>1. CASE i < p
      BY <1>1, <1>3, <1>b, <3>1
    <3>2. CASE ~(i < p)
      BY <1>1, <1>3, <1>b, <3>2
    <3> QED
      BY <3>1, <3>2
  <2>3. \A i, j \in DOMAIN r : At(i) = At(j) => i = j
    <3>1. p \in Int /\ \A i \in DOMAIN r : i \in Int
      BY <1>1, <1>3
    <3>2. ASSUME NEW i \in Int, NEW j \in Int, At(i) = At(j) PROVE i = j
      BY <3>1, <3>2
    <3> QED
      BY <3>1, <3>2
  <2> QED
    BY <2>1, <2>2, <2>3
<1> HIDE DEF At
<1>7. /\ \A i \in DOMAIN r : r[i] < u.next
      /\ \A i, j \in DOMAIN r : r[i] = r[j] => i = j
  BY <1>5, <1>6
<1>8. u.live \ {id} = {r[i] : i \in DOMAIN r}
  <2>1. \A x \in u.live \ {id} : \E i \in DOMAIN r : r[i] = x
    BY <1>1, <1>5, <1>6
  <2>2. \A i \in DOMAIN r : r[i] \in u.live \ {id}
    BY <1>1, <1>5, <1>6
  <2> QED
    BY <2>1, <2>2
<1> QED
  BY <1>4, <1>7, <1>8 DEF PromptOK, FilesNamed, v

PromptInv == PromptOK(ui)

LEMMA PromptStep ==
  ASSUME ConsoleAssumption, PromptInv, PI!Next
  PROVE  PromptInv'
<1>a. PromptOK(ui) /\ ui \in PromptUi /\ FilesNamed(ui)
  BY DEF PromptInv, PromptOK
<1>b. ui.items \in Seq(Nat) /\ Len(ui.items) \in Nat /\ DOMAIN ui.items = 1..Len(ui.items)
  BY <1>a, LenProperties DEF PromptUi
<1> SUFFICES PromptOK(ui')
  BY DEF PromptInv, PromptOK, FilesNamed, PromptUi
\* A field that is neither the files nor their URLs.
<1>c. ASSUME ui' \in PromptUi, ui'.items = ui.items, ui'.live = ui.live,
             ui'.next = ui.next
      PROVE  PromptOK(ui')
  BY <1>a, <1>c DEF PromptOK, FilesNamed
<1>1. CASE PI!handlePaste \/ PI!onDrop \/ PI!handleChange
  <2>1. PICK ks \in PI!Given : ui' = PI!add(ui, ks, Len(ui.items))
    BY <1>1 DEF PI!handlePaste, PI!onDrop, PI!handleChange, PI!Do
  <2>2. ks \in Seq(PI!FileKinds)
    <3>1. PICK k \in PI!FileKinds : ks = <<k>> \/ ks = <<"good", "good">>
      BY DEF PI!Given, PI!FileKinds
    <3>2. "good" \in PI!FileKinds
      BY DEF PI!FileKinds
    <3>3. <<k>> \in Seq(PI!FileKinds)
      OBVIOUS
    <3>4. <<"good", "good">> \in Seq(PI!FileKinds)
      BY <3>2
    <3> QED
      BY <3>1, <3>3, <3>4
  <2> QED
    BY <1>a, <1>b, <2>1, <2>2, FilesAdded
<1>2. CASE PI!Screenshot
  <2>1. ui' = [ui EXCEPT !.shots = @ \cup {Len(ui.items)}]
    BY <1>2 DEF PI!Screenshot, PI!Do
  <2>2. /\ ui' \in PromptUi /\ ui'.items = ui.items /\ ui'.live = ui.live
        /\ ui'.next = ui.next
    BY <1>a, <1>b, <2>1 DEF PromptUi
  <2> QED
    BY <1>c, <2>2
<1>3. CASE PI!ScreenshotTaken
  <2>1. PICK seen \in ui.shots :
          ui' = [PI!add(ui, <<"good">>, seen) EXCEPT !.shots = @ \ {seen}]
    BY <1>3 DEF PI!ScreenshotTaken
  <2> DEFINE v == PI!add(ui, <<"good">>, seen)
  <2>2. seen \in Nat /\ <<"good">> \in Seq(PI!FileKinds)
    BY <1>a DEF PromptUi, PI!FileKinds
  <2>3. PromptOK(v)
    BY <1>a, <2>2, FilesAdded
  <2> HIDE DEF v
  <2>4. ui' = [v EXCEPT !.shots = @ \ {seen}]
    BY <2>1 DEF v
  <2>5. ui' \in PromptUi /\ ui'.items = v.items /\ ui'.live = v.live /\ ui'.next = v.next
    BY <2>3, <2>4 DEF PromptOK, PromptUi
  <2> QED
    BY <2>3, <2>5 DEF PromptOK, FilesNamed
<1>4. CASE PI!ScreenshotRefused
  <2>1. PICK seen \in ui.shots : ui' = [ui EXCEPT !.shots = @ \ {seen}]
    BY <1>4 DEF PI!ScreenshotRefused
  <2>2. /\ ui' \in PromptUi /\ ui'.items = ui.items /\ ui'.live = ui.live
        /\ ui'.next = ui.next
    BY <1>a, <2>1 DEF PromptUi
  <2> QED
    BY <1>c, <2>2
<1>5. CASE PI!RemoveButton
  BY <1>a, <1>5, FileRemoved DEF PI!RemoveButton, PI!Do
<1>6. CASE PI!Backspace
  <2>1. ui.items # <<>> /\ ui' = PI!remove(ui, PI!Last(ui.items))
    BY <1>6 DEF PI!Backspace, PI!Do
  <2>2. Len(ui.items) \in DOMAIN ui.items
    BY <1>b, <2>1, EmptySeq
  <2>3. PI!Last(ui.items) \in PI!ToSet(ui.items)
    BY <2>2 DEF PI!Last, PI!ToSet
  <2> QED
    BY <1>a, <2>1, <2>3, FileRemoved
<1>7. CASE PI!Type \/ PI!Compose \/ PI!StatusChanges \/ PI!StopButton
  <2>1. \/ ui' = [ui EXCEPT !.text = TRUE] \/ ui' = [ui EXCEPT !.composing = ~@]
        \/ ui' = [ui EXCEPT !.generating = ~@] \/ ui' = ui
    BY <1>7 DEF PI!Type, PI!Compose, PI!StatusChanges, PI!StopButton, PI!Do
  <2>2. /\ ui' \in PromptUi /\ ui'.items = ui.items /\ ui'.live = ui.live
        /\ ui'.next = ui.next
    BY <1>a, <2>1 DEF PromptUi
  <2> QED
    BY <1>c, <2>2
<1>8. CASE PI!Enter \/ PI!SubmitButton
  <2>1. ui' = [ui EXCEPT !.text = ui.provider /\ @]
    BY <1>8 DEF PI!Enter, PI!SubmitButton, PI!handleSubmit
  <2> DEFINE t == ui.provider /\ ui.text
  <2>2. t \in BOOLEAN /\ ui' = [ui EXCEPT !.text = t]
    BY <2>1
  <2> HIDE DEF t
  <2>3. /\ ui' \in PromptUi /\ ui'.items = ui.items /\ ui'.live = ui.live
        /\ ui'.next = ui.next
    BY <1>a, <2>2 DEF PromptUi
  <2> QED
    BY <1>c, <2>3
<1>9. ASSUME NEW n \in 1..2, PI!SubmitDone(n)
      PROVE  PromptOK(ui')
  <2> DEFINE t == ~ui.provider /\ PI!clear(ui).text
             v == [ui EXCEPT !.items = <<>>, !.live = ui.live \ PI!ToSet(ui.items),
                             !.text = t]
  <2>1. ui' = [PI!clear(ui) EXCEPT !.text = t]
    BY <1>9 DEF PI!SubmitDone
  <2>2. t \in BOOLEAN
    OBVIOUS
  <2> HIDE DEF t
  <2>3. ui' = v
    BY <1>a, <2>1 DEF PI!clear, PromptUi
  <2>4. ui.live \ PI!ToSet(ui.items) = {}
    BY <1>a DEF FilesNamed, PI!ToSet
  <2>5. <<>> \in Seq(Nat) /\ DOMAIN <<>> = {}
    BY EmptySeq, LenProperties
  <2>6. v \in PromptUi /\ v.items = <<>> /\ v.live = {}
    BY <1>a, <2>2, <2>4, <2>5 DEF PromptUi
  <2> QED
    BY <2>3, <2>5, <2>6 DEF PromptOK, FilesNamed
<1>10. ASSUME NEW n \in 1..2, PI!Converted(n) \/ PI!SubmitFails(n)
       PROVE  PromptOK(ui')
  BY <1>a, <1>10 DEF PI!Converted, PI!SubmitFails
<1>11. CASE PI!Unmount
  <2>1. CASE ui.provider
    <3>1. ui' = [ui EXCEPT !.page = "prompt_gone", !.live = ui.live, !.items = ui.items]
      BY <1>11, <2>1 DEF PI!Unmount
    <3>2. /\ ui' \in PromptUi /\ ui'.items = ui.items /\ ui'.live = ui.live
          /\ ui'.next = ui.next
      BY <1>a, <3>1 DEF PromptUi
    <3> QED
      BY <1>c, <3>2
  <2>2. CASE ~ui.provider
    <3>1. ui' = [ui EXCEPT !.page = "prompt_gone", !.live = ui.live \ PI!ToSet(ui.items),
                           !.items = <<>>]
      BY <1>11, <2>2 DEF PI!Unmount
    <3>2. ui.live \ PI!ToSet(ui.items) = {}
      BY <1>a DEF FilesNamed, PI!ToSet
    <3>3. <<>> \in Seq(Nat) /\ DOMAIN <<>> = {}
      BY EmptySeq, LenProperties
    <3>4. ui' \in PromptUi /\ ui'.items = <<>> /\ ui'.live = {}
      BY <1>a, <3>1, <3>2, <3>3 DEF PromptUi
    <3> QED
      BY <3>3, <3>4 DEF PromptOK, FilesNamed
  <2> QED
    BY <2>1, <2>2
<1> QED
  BY <1>1, <1>2, <1>3, <1>4, <1>5, <1>6, <1>7, <1>8, <1>9, <1>10, <1>11 DEF PI!Next

\* Every file listed has its URL, and no URL outlives its file, in whatever order
\* files are added, removed, submitted and the prompt unmounted, and however many
\* a provider's add takes (add, remove and clear of prompt-input.tsx).
THEOREM UrlsAreThoseOfFiles == Spec => []UrlsMatchItems
<1> DEFINE I == route = "prompt" => PromptInv
<1>1. Init => I
  <2> SUFFICES ASSUME Init, route = "prompt" PROVE PromptInv
    OBVIOUS
  <2>1. PI!Init
    BY DEF Init
  <2>2. PICK b \in BOOLEAN :
          ui = [page |-> "prompt", provider |-> b, items |-> <<>>, live |-> {}, next |-> 1,
                text |-> FALSE, composing |-> FALSE, generating |-> FALSE, shots |-> {}]
    BY <2>1 DEF PI!Init
  <2>4. <<>> \in Seq(Nat)
    OBVIOUS
  <2>5. ui \in PromptUi /\ ui.items = <<>> /\ ui.live = {}
    BY <2>2, <2>4 DEF PromptUi
  <2>3. DOMAIN <<>> = {}
    OBVIOUS
  <2> QED
    BY <2>3, <2>5 DEF PromptInv, PromptOK, FilesNamed
<1>2. I /\ [Next]_vars => I'
  <2> SUFFICES ASSUME I, [Next]_vars, route' = "prompt" PROVE PromptInv'
    OBVIOUS
  <2>1. route = "prompt" /\ PromptInv
    BY DEF Next, vars
  <2>2. CASE UNCHANGED vars
    BY <2>1, <2>2 DEF vars, PromptInv, PromptOK, FilesNamed, PromptUi
  <2>3. CASE Next
    <3>1. PI!Next
      BY <2>1, <2>3 DEF Next
    <3> QED
      BY <2>1, <3>1, PromptStep, ConsoleAssumption
  <2> QED
    BY <2>2, <2>3
<1>3. I => UrlsMatchItems
  BY DEF UrlsMatchItems, PI!UrlsMatchItems, PI!ToSet, PromptInv, PromptOK, FilesNamed
<1> QED
  BY <1>1, <1>2, <1>3, PTL DEF Spec, vars

-----------------------------------------------------------------------------
(***************************************************************************)
(* The dialog that starts a session.                                       *)
(***************************************************************************)
FormRows == [id : Nat, kind : SF!ResourceKinds, filled : BOOLEAN]
Wanted ==
  [agent : Agents \cup {None}, env : BOOLEAN, vaults : SUBSET Vaults,
   resources : Seq(FormRows)]

SessionUi ==
  [page : {"session_form", "session", "billing"}, open : BOOLEAN, form : Wanted,
   detail : Agents \cup {None}, mcp : Agents \cup {None}, hosts : SUBSET Vaults,
   loaded : BOOLEAN, revealed : SUBSET Nat, asked : SUBSET Nat, local : BOOLEAN,
   submitting : BOOLEAN, rows : Nat]

SessionSrv(s) ==
  /\ s = [agent |-> s.agent, vaults |-> s.vaults, late |-> s.late, posts |-> s.posts,
          sessions |-> s.sessions]
  /\ s.agent \in Agents \cup {None} /\ s.vaults \subseteq Vaults

\* A row has a number of its own, and what is in clear was asked for by number.
RowsOK(u) ==
  LET rows == u.form.resources
  IN /\ \A i \in DOMAIN rows : rows[i].id <= u.rows
     /\ \A i, j \in DOMAIN rows : rows[i].id = rows[j].id => i = j
     /\ \A i \in DOMAIN rows : i \in u.revealed => rows[i].id \in u.asked

\* The answer that still counts is for the agent in the form, and so was the last.
McpOK(u, s) ==
  /\ s.agent \in {None, u.form.agent}
  /\ s.agent = None => u.mcp \in {None, u.form.agent}

SessionOK(u, s) ==
  /\ u \in SessionUi /\ SessionSrv(s) /\ RowsOK(u)
  /\ u.page = "session_form" => McpOK(u, s)

SessionInv == SessionOK(ui, srv)

\* A change of the form, the render after it and its effects.
LEMMA SetKeeps ==
  ASSUME ui \in SessionUi, SessionSrv(srv), NEW u \in SessionUi, RowsOK(u),
         NEW s, SessionSrv(s), u.form.agent = ui.form.agent => McpOK(u, s), SF!Set(u, s)
  PROVE  SessionOK(ui', srv')
<1> DEFINE w == IF u.form.agent = None THEN [u EXCEPT !.mcp = None] ELSE u
           v == SF!Rendered(w, ui)
           e == SF!AgentEffect(v, ui, s)
<1>1. ui' = v /\ srv' = SF!VaultEffect(v, ui, e)
  BY DEF SF!Set
<1>2. /\ w \in SessionUi /\ w.form = u.form /\ w.revealed = u.revealed /\ w.rows = u.rows
      /\ w.asked = u.asked /\ w.mcp = IF u.form.agent = None THEN None ELSE u.mcp
  BY DEF SessionUi
<1> HIDE DEF w
<1>3. /\ v \in SessionUi /\ v.form = u.form /\ v.revealed = u.revealed /\ v.rows = u.rows
      /\ v.asked = u.asked /\ v.mcp = IF u.form.agent = None THEN None ELSE u.mcp
  <2> DEFINE b == SF!isLocalRuntime(w)
  <2>1. b \in BOOLEAN /\ v = [w EXCEPT !.local = b]
    BY DEF SF!isLocalRuntime, SF!Rendered
  <2> HIDE DEF b, v
  <2> QED
    BY <1>2, <2>1 DEF SessionUi
<1> HIDE DEF v
<1>4. RowsOK(v)
  BY <1>3 DEF RowsOK
<1>5. SessionSrv(e) /\ e.agent = IF u.form.agent = ui.form.agent THEN s.agent ELSE u.form.agent
  <2>1. CASE u.form.agent = ui.form.agent
    BY <1>3, <2>1 DEF SF!AgentEffect
  <2>2. CASE u.form.agent # ui.form.agent
    <3> DEFINE l == IF s.agent = None THEN s.late ELSE s.late \cup {s.agent}
    <3>1. e = [s EXCEPT !.agent = u.form.agent, !.late = l]
      BY <1>3, <2>2 DEF SF!AgentEffect
    <3>2. u.form.agent \in Agents \cup {None}
      BY DEF SessionUi, Wanted
    <3> HIDE DEF e, l
    <3> QED
      BY <2>2, <3>1, <3>2 DEF SessionSrv
  <2> QED
    BY <2>1, <2>2
<1> HIDE DEF e
<1>6. SessionSrv(srv') /\ srv'.agent = e.agent
  <2>1. SF!Missing(v) \subseteq Vaults
    BY <1>3 DEF SF!Missing, SessionUi, Wanted
  <2>2. srv' = e \/ srv' = [e EXCEPT !.vaults = SF!Missing(v)]
    BY <1>1 DEF SF!VaultEffect
  <2> QED
    BY <1>5, <2>1, <2>2 DEF SessionSrv
<1>7. McpOK(v, srv')
  BY <1>3, <1>5, <1>6 DEF McpOK
<1> QED
  BY <1>1, <1>3, <1>4, <1>6, <1>7 DEF SessionOK

\* A dialog that is cleared has no rows and no answer.
LEMMA ClearedIsBlank ==
  ASSUME NEW u \in SessionUi
  PROVE  /\ SF!Cleared(u) \in SessionUi /\ SF!Cleared(u).form = SF!INITIAL_FORM_VALUES
         /\ SF!Cleared(u).mcp = None /\ SF!Cleared(u).page = u.page
         /\ SF!Cleared(u).rows = u.rows
         /\ SF!INITIAL_FORM_VALUES \in Wanted /\ SF!INITIAL_FORM_VALUES.resources = <<>>
         /\ SF!INITIAL_FORM_VALUES.agent = None
<1>1. /\ SF!INITIAL_FORM_VALUES \in Wanted /\ SF!INITIAL_FORM_VALUES.resources = <<>>
      /\ SF!INITIAL_FORM_VALUES.agent = None
  BY EmptySeq DEF SF!INITIAL_FORM_VALUES, Wanted
<1> DEFINE f == SF!INITIAL_FORM_VALUES
<1>2. SF!Cleared(u) = [u EXCEPT !.form = f, !.detail = None, !.mcp = None, !.hosts = {},
                                !.revealed = {}, !.asked = {}, !.submitting = FALSE]
  BY DEF SF!Cleared
<1> HIDE DEF f
<1> DEFINE c == SF!Cleared(u)
<1> HIDE DEF c
<1>3. c = [u EXCEPT !.form = f, !.detail = None, !.mcp = None, !.hosts = {},
                    !.revealed = {}, !.asked = {}, !.submitting = FALSE]
  BY <1>2 DEF c
<1>4. f \in Wanted
  BY <1>1 DEF f
<1>5. c \in SessionUi /\ c.form = f /\ c.mcp = None /\ c.page = u.page /\ c.rows = u.rows
  BY <1>3, <1>4 DEF SessionUi
<1> QED
  BY <1>1, <1>5 DEF c, f

LEMMA NoRows ==
  ASSUME NEW u, u.form.resources = <<>>
  PROVE  RowsOK(u)
BY DEF RowsOK

\* A row that comes, that is filled in, that goes.
LEMMA RowAdded ==
  ASSUME NEW u \in SessionUi, RowsOK(u), NEW k \in SF!ResourceKinds
  PROVE  LET v == [u EXCEPT !.form.resources = Append(@, SF!blankResource(k, u.rows + 1)),
                            !.rows = @ + 1, !.revealed = {}, !.asked = {}]
         IN v \in SessionUi /\ RowsOK(v) /\ v.form.agent = u.form.agent /\ v.mcp = u.mcp
<1> DEFINE v == [u EXCEPT !.form.resources = Append(@, SF!blankResource(k, u.rows + 1)),
                          !.rows = @ + 1, !.revealed = {}, !.asked = {}]
           r == SF!blankResource(k, u.rows + 1)
           s == u.form.resources
           q == Append(s, r)
           n == u.rows + 1
           f == [u.form EXCEPT !.resources = q]
<1>1. u.form \in Wanted /\ u.rows \in Nat /\ s \in Seq(FormRows)
  BY DEF SessionUi, Wanted
<1>2. r \in FormRows /\ r.id = n /\ n \in Nat
  BY <1>1 DEF SF!blankResource, FormRows
<1>3. v = [u EXCEPT !.form = f, !.rows = n, !.revealed = {}, !.asked = {}]
  BY <1>1 DEF SessionUi, Wanted
<1> HIDE DEF r, n, v
<1>4. /\ q \in Seq(FormRows) /\ Len(q) = Len(s) + 1 /\ DOMAIN q = 1..(Len(s) + 1)
      /\ \A i \in 1..Len(s) : q[i] = s[i]
      /\ q[Len(s) + 1] = r /\ Len(s) \in Nat /\ DOMAIN s = 1..Len(s)
  BY <1>1, <1>2, AppendProperties, LenProperties
<1> HIDE DEF q
<1>5. f \in Wanted /\ f.resources = q /\ f.agent = u.form.agent
  BY <1>1, <1>4 DEF Wanted
<1> HIDE DEF f
<1>6. /\ v \in SessionUi /\ v.form = f /\ v.rows = n /\ v.revealed = {}
      /\ v.mcp = u.mcp
  BY <1>2, <1>3, <1>5 DEF SessionUi
<1>7. \A i \in DOMAIN s : s[i].id \in Nat /\ s[i].id < n
  <2>1. ASSUME NEW i \in DOMAIN s PROVE s[i] \in FormRows
    BY <1>1, <1>4, ElementOfSeq
  <2>2. \A i \in DOMAIN s : s[i].id <= u.rows
    BY DEF RowsOK
  <2> HIDE DEF s
  <2>3. \A i \in DOMAIN s : s[i].id \in Nat
    BY <2>1 DEF FormRows
  <2> QED
    BY <1>1, <2>2, <2>3 DEF n
<1>8. \A i, j \in DOMAIN s : s[i].id = s[j].id => i = j
  BY DEF RowsOK
<1> HIDE DEF s
<1>9. \A i \in DOMAIN q : \/ i \in DOMAIN s /\ q[i].id = s[i].id /\ s[i].id < n
                          \/ i = Len(s) + 1 /\ q[i].id = n
  BY <1>2, <1>4, <1>7
<1>10. \A i \in DOMAIN q : q[i].id <= n
  BY <1>2, <1>7, <1>9
<1>11. \A i, j \in DOMAIN q : q[i].id = q[j].id => i = j
  BY <1>2, <1>7, <1>8, <1>9
<1> QED
  BY <1>5, <1>6, <1>10, <1>11 DEF RowsOK, v

LEMMA RowFilled ==
  ASSUME NEW u \in SessionUi, RowsOK(u), NEW i \in DOMAIN u.form.resources
  PROVE  LET v == [u EXCEPT !.form.resources[i].filled = TRUE]
         IN v \in SessionUi /\ RowsOK(v) /\ v.form.agent = u.form.agent /\ v.mcp = u.mcp
<1> DEFINE v == [u EXCEPT !.form.resources[i].filled = TRUE]
           s == u.form.resources
           r == [s[i] EXCEPT !.filled = TRUE]
           q == [s EXCEPT ![i] = r]
           f == [u.form EXCEPT !.resources = q]
<1>1. u.form \in Wanted /\ s \in Seq(FormRows)
  BY DEF SessionUi, Wanted
<1>2. DOMAIN s = 1..Len(s) /\ Len(s) \in Nat
  BY <1>1, LenProperties
<1>3. s[i] \in FormRows
  BY <1>1, <1>2, ElementOfSeq
<1>4. r \in FormRows /\ r.id = s[i].id
  BY <1>3 DEF FormRows
<1>5. v = [u EXCEPT !.form = f]
  BY <1>1, <1>2 DEF SessionUi, Wanted
<1> HIDE DEF r, v
<1>6. /\ q \in Seq(FormRows) /\ DOMAIN q = DOMAIN s
      /\ \A j \in DOMAIN s : q[j].id = s[j].id
  BY <1>1, <1>2, <1>4, ExceptSeq
<1> HIDE DEF q
<1>7. f \in Wanted /\ f.resources = q /\ f.agent = u.form.agent
  BY <1>1, <1>6 DEF Wanted
<1> HIDE DEF f
<1>8. /\ v \in SessionUi /\ v.form = f /\ v.rows = u.rows /\ v.revealed = u.revealed
      /\ v.asked = u.asked /\ v.mcp = u.mcp
  BY <1>5, <1>7 DEF SessionUi
<1>9. RowsOK(v)
  BY <1>6, <1>7, <1>8 DEF RowsOK
<1> QED
  BY <1>7, <1>8, <1>9 DEF v

LEMMA RowGone ==
  ASSUME NEW u \in SessionUi, RowsOK(u), NEW p \in DOMAIN u.form.resources
  PROVE  LET v == SF!removeResource(u, p)
         IN v \in SessionUi /\ RowsOK(v) /\ v.form.agent = u.form.agent /\ v.mcp = u.mcp
<1> DEFINE s == u.form.resources
           r == SubSeq(s, 1, p - 1) \o SubSeq(s, p + 1, Len(s))
           f == [u.form EXCEPT !.resources = r]
           v == SF!removeResource(u, p)
           k == Len(s)
<1>1. u.form \in Wanted /\ s \in Seq(FormRows) /\ k \in Nat /\ DOMAIN s = 1..k
  BY LenProperties DEF SessionUi, Wanted
<1>2. v = [u EXCEPT !.form = f, !.revealed = {}, !.asked = {}]
  BY <1>1 DEF SF!removeResource, SF!RemoveAt, SessionUi, Wanted
<1> HIDE DEF v
<1>3. /\ r \in Seq(FormRows) /\ DOMAIN r = 1..(k - 1)
      /\ \A i \in 1..(k - 1) : r[i] = IF i < p THEN s[i] ELSE s[i + 1]
  BY <1>1, Without
<1> HIDE DEF r, k
<1>4. f \in Wanted /\ f.resources = r /\ f.agent = u.form.agent
  BY <1>1, <1>3 DEF Wanted
<1> HIDE DEF f
<1>5. /\ v \in SessionUi /\ v.form = f /\ v.rows = u.rows /\ v.revealed = {} /\ v.mcp = u.mcp
  BY <1>2, <1>4 DEF SessionUi
<1>6. /\ \A i \in DOMAIN s : s[i].id <= u.rows
      /\ \A i, j \in DOMAIN s : s[i].id = s[j].id => i = j
  BY DEF RowsOK
<1> HIDE DEF s
<1> DEFINE At(i) == IF i < p THEN i ELSE i + 1
<1>7. p \in Int /\ \A i \in DOMAIN r : i \in Int
  BY <1>1, <1>3 DEF s
<1>8. ASSUME NEW i \in Int, NEW j \in Int, At(i) = At(j) PROVE i = j
  BY <1>7, <1>8
<1>9. ASSUME NEW i \in DOMAIN r PROVE At(i) \in DOMAIN s /\ r[i] = s[At(i)]
  <2>1. CASE i < p
    BY <1>1, <1>3, <2>1
  <2>2. CASE ~(i < p)
    BY <1>1, <1>3, <2>2
  <2> QED
    BY <2>1, <2>2
<1> HIDE DEF At
<1>10. /\ \A i \in DOMAIN r : r[i].id <= u.rows
       /\ \A i, j \in DOMAIN r : r[i].id = r[j].id => i = j
  BY <1>6, <1>7, <1>8, <1>9
<1> QED
  BY <1>4, <1>5, <1>10 DEF RowsOK, v

LEMMA SessionStep ==
  ASSUME SessionInv, SF!Next
  PROVE  SessionInv'
<1>a. ui \in SessionUi /\ SessionSrv(srv) /\ RowsOK(ui)
      /\ (SF!On => McpOK(ui, srv))
  BY DEF SessionInv, SessionOK, SF!On
<1> SUFFICES SessionOK(ui', srv')
  BY DEF SessionInv, SessionOK, SessionUi, SessionSrv, RowsOK, McpOK
\* A click, with the agent as it was or another.
<1>b. ASSUME NEW u \in SessionUi, RowsOK(u), SF!On, SF!Set(u, srv),
             u.form.agent = ui.form.agent => u.mcp \in {None, ui.mcp}
      PROVE  SessionOK(ui', srv')
  <2>1. u.form.agent = ui.form.agent => McpOK(u, srv)
    BY <1>a, <1>b DEF McpOK
  <2> QED
    BY <1>a, <1>b, <2>1, SetKeeps
\* Something else than the rows, the agent and the answer changes.
<1>c. ASSUME NEW u \in SessionUi, SF!On, SF!Set(u, srv), u.form.resources = ui.form.resources,
             u.rows = ui.rows, u.revealed = ui.revealed, u.asked = ui.asked,
             u.form.agent = ui.form.agent => u.mcp = ui.mcp
      PROVE  SessionOK(ui', srv')
  <2>1. RowsOK(u)
    BY <1>a, <1>c DEF RowsOK
  <2> QED
    BY <1>b, <1>c, <2>1
<1>1. CASE SF!AgentAnswer
  <2>1. PICK m \in {None, srv.agent} :
          SF!On /\ SF!Set([ui EXCEPT !.mcp = m], [srv EXCEPT !.agent = None])
    BY <1>1 DEF SF!AgentAnswer
  <2> DEFINE u == [ui EXCEPT !.mcp = m]
             s == [srv EXCEPT !.agent = None]
  <2>2. SF!Set(u, s)
    BY <2>1
  <2>3. m \in Agents \cup {None} /\ m \in {None, ui.form.agent}
    BY <1>a, <2>1 DEF SessionSrv, McpOK
  <2> HIDE DEF u, s
  <2>4. /\ u \in SessionUi /\ u.form = ui.form /\ u.rows = ui.rows /\ u.mcp = m
        /\ u.revealed = ui.revealed /\ u.asked = ui.asked
    BY <1>a, <2>3 DEF SessionUi, u
  <2>5. SessionSrv(s) /\ s.agent = None
    BY <1>a DEF SessionSrv, s
  <2>6. RowsOK(u)
    BY <1>a, <2>4 DEF RowsOK
  <2>7. McpOK(u, s)
    BY <2>3, <2>4, <2>5 DEF McpOK
  <2> QED
    BY <1>a, <2>2, <2>4, <2>5, <2>6, <2>7, SetKeeps
<1>2. CASE SF!LateAnswer
  <2>1. PICK a \in srv.late : ui' = ui /\ srv' = [srv EXCEPT !.late = @ \ {a}]
    BY <1>2 DEF SF!LateAnswer
  <2>2. SessionSrv(srv') /\ srv'.agent = srv.agent
    BY <1>a, <2>1 DEF SessionSrv
  <2> QED
    BY <1>a, <2>1, <2>2 DEF SessionOK, McpOK, SF!On
<1>3. CASE SF!VaultAnswer
  <2> DEFINE h == ui.hosts \cup srv.vaults
             u == [ui EXCEPT !.hosts = h]
             s == [srv EXCEPT !.vaults = {}]
  <2>1. SF!On /\ SF!Set(u, s)
    BY <1>3 DEF SF!VaultAnswer
  <2>2. h \in SUBSET Vaults
    BY <1>a DEF SessionUi, SessionSrv
  <2> HIDE DEF u, s, h
  <2>3. /\ u \in SessionUi /\ u.form = ui.form /\ u.rows = ui.rows /\ u.mcp = ui.mcp
        /\ u.revealed = ui.revealed /\ u.asked = ui.asked
    BY <1>a, <2>2 DEF SessionUi, u
  <2>4. SessionSrv(s) /\ s.agent = srv.agent
    BY <1>a DEF SessionSrv, s
  <2>5. RowsOK(u) /\ McpOK(u, s)
    BY <1>a, <2>1, <2>3, <2>4 DEF RowsOK, McpOK
  <2> QED
    BY <1>a, <2>1, <2>3, <2>4, <2>5, SetKeeps
<1>4. CASE SF!loadAux
  <2> DEFINE u == [ui EXCEPT !.loaded = TRUE]
  <2>1. SF!On /\ SF!Set(u, srv)
    BY <1>4 DEF SF!loadAux
  <2>2. /\ u \in SessionUi /\ u.form = ui.form /\ u.rows = ui.rows /\ u.mcp = ui.mcp
        /\ u.revealed = ui.revealed /\ u.asked = ui.asked
    BY <1>a DEF SessionUi
  <2> HIDE DEF u
  <2> QED
    BY <1>c, <2>1, <2>2
\* The dialog opens and closes without rows.
<1> DEFINE c == SF!Cleared(ui)
           f == SF!INITIAL_FORM_VALUES
<1>d. /\ c \in SessionUi /\ c.form = f /\ c.mcp = None /\ c.page = ui.page
      /\ f \in Wanted /\ f.resources = <<>> /\ f.agent = None
  BY <1>a, ClearedIsBlank
<1> HIDE DEF c, f
<1>5. CASE SF!openModal
  <2>1. PICK a \in Agents :
          SF!On /\ SF!Set([c EXCEPT !.open = TRUE,
                             !.form.agent = IF ui.loaded THEN a ELSE None,
                             !.form.env = ui.loaded], srv)
    BY <1>5 DEF SF!openModal, c
  <2> DEFINE x == IF ui.loaded THEN a ELSE None
             g == [f EXCEPT !.agent = x, !.env = ui.loaded]
             u == [c EXCEPT !.open = TRUE, !.form = g]
  <2>2. x \in Agents \cup {None} /\ ui.loaded \in BOOLEAN
    BY <1>a DEF SessionUi
  <2> HIDE DEF x
  <2>3. g \in Wanted /\ g.resources = <<>>
    BY <1>d, <2>2 DEF Wanted
  <2>4. SF!Set(u, srv)
    <3>1. u = [c EXCEPT !.open = TRUE, !.form.agent = x, !.form.env = ui.loaded]
      BY <1>d DEF SessionUi, Wanted
    <3> HIDE DEF u
    <3> QED
      BY <2>1, <3>1 DEF x
  <2> HIDE DEF g
  <2>5. u \in SessionUi /\ u.form = g /\ u.mcp = None
    BY <1>d, <2>3 DEF SessionUi
  <2> HIDE DEF u
  <2>6. RowsOK(u)
    BY <2>3, <2>5, NoRows
  <2> QED
    BY <1>b, <2>1, <2>4, <2>5, <2>6
<1> DEFINE z == SF!closeModal(ui)
<1>e. /\ z \in SessionUi /\ z.form = f /\ z.mcp = None /\ z.page = ui.page /\ RowsOK(z)
  <2>1. z = [c EXCEPT !.open = FALSE]
    BY DEF SF!closeModal, c
  <2> HIDE DEF z
  <2>2. z \in SessionUi /\ z.form = f /\ z.mcp = None /\ z.page = ui.page
    BY <1>d, <2>1 DEF SessionUi
  <2> QED
    BY <1>d, <2>2, NoRows
<1> HIDE DEF z
<1>6. CASE SF!Close
  <2>1. SF!On /\ SF!Set(z, srv)
    BY <1>6 DEF SF!Close, SF!Do, z
  <2> QED
    BY <1>b, <1>e, <2>1
\* A field of the form that is not the rows.
<1>f. ASSUME NEW g \in Wanted, NEW d \in Agents \cup {None}, g.resources = ui.form.resources,
             SF!On, SF!Set([ui EXCEPT !.form = g, !.detail = d], srv)
      PROVE  SessionOK(ui', srv')
  <2> DEFINE u == [ui EXCEPT !.form = g, !.detail = d]
  <2>1. /\ u \in SessionUi /\ u.form = g /\ u.rows = ui.rows /\ u.mcp = ui.mcp
        /\ u.revealed = ui.revealed /\ u.asked = ui.asked
    BY <1>a, <1>f DEF SessionUi
  <2> HIDE DEF u
  <2>2. SF!Set(u, srv)
    BY <1>f DEF u
  <2> QED
    BY <1>c, <1>f, <2>1, <2>2
<1>g. ui.form \in Wanted /\ ui.detail \in Agents \cup {None}
  BY <1>a DEF SessionUi
<1>7. CASE SF!AgentCombobox
  <2>1. PICK a \in Agents : SF!On /\ SF!Set([ui EXCEPT !.form.agent = a, !.detail = a], srv)
    BY <1>7 DEF SF!AgentCombobox, SF!Do
  <2> DEFINE g == [ui.form EXCEPT !.agent = a]
  <2>2. g \in Wanted /\ g.resources = ui.form.resources
    BY <1>g DEF Wanted
  <2>3. [ui EXCEPT !.form.agent = a, !.detail = a] = [ui EXCEPT !.form = g, !.detail = a]
    BY <1>a DEF SessionUi
  <2> HIDE DEF g
  <2> QED
    BY <1>f, <2>1, <2>2, <2>3
<1>8. CASE SF!EnvironmentCombobox
  <2>1. PICK e \in BOOLEAN : SF!On /\ SF!Set([ui EXCEPT !.form.env = e], srv)
    BY <1>8 DEF SF!EnvironmentCombobox, SF!Do
  <2> DEFINE g == [ui.form EXCEPT !.env = e]
  <2>2. g \in Wanted /\ g.resources = ui.form.resources
    BY <1>g DEF Wanted
  <2>3. [ui EXCEPT !.form.env = e] = [ui EXCEPT !.form = g, !.detail = ui.detail]
    BY <1>a DEF SessionUi
  <2> HIDE DEF g
  <2> QED
    BY <1>f, <1>g, <2>1, <2>2, <2>3
<1>9. CASE SF!toggleVault
  <2>1. PICK v \in Vaults :
          SF!On /\ SF!Set([ui EXCEPT !.form.vaults =
                             IF v \in @ THEN @ \ {v} ELSE @ \cup {v}], srv)
    BY <1>9 DEF SF!toggleVault, SF!Do
  <2> DEFINE w == IF v \in ui.form.vaults THEN ui.form.vaults \ {v} ELSE ui.form.vaults \cup {v}
             g == [ui.form EXCEPT !.vaults = w]
  <2>2. w \in SUBSET Vaults
    BY <1>g DEF Wanted
  <2>3. [ui EXCEPT !.form.vaults = IF v \in @ THEN @ \ {v} ELSE @ \cup {v}]
          = [ui EXCEPT !.form = g, !.detail = ui.detail]
    BY <1>a DEF SessionUi
  <2> HIDE DEF w
  <2>4. g \in Wanted /\ g.resources = ui.form.resources
    BY <1>g, <2>2 DEF Wanted
  <2> HIDE DEF g
  <2> QED
    BY <1>f, <1>g, <2>1, <2>3, <2>4
<1>10. CASE SF!addResource
  <2>1. PICK k \in SF!ResourceKinds :
          SF!On /\ SF!Set([ui EXCEPT
                             !.form.resources = Append(@, SF!blankResource(k, ui.rows + 1)),
                             !.rows = @ + 1, !.revealed = {}, !.asked = {}], srv)
    BY <1>10 DEF SF!addResource, SF!Do
  <2> QED
    BY <1>a, <1>b, <2>1, RowAdded
<1>11. CASE SF!FillGithub \/ SF!FillFile \/ SF!FillMemoryStore \/ SF!FillEnv
  <2>1. PICK i \in DOMAIN ui.form.resources :
          SF!On /\ SF!Set([ui EXCEPT !.form.resources[i].filled = TRUE], srv)
    BY <1>11 DEF SF!FillGithub, SF!FillFile, SF!FillMemoryStore, SF!FillEnv, SF!Fill, SF!Do
  <2> QED
    BY <1>a, <1>b, <2>1, RowFilled
<1>12. CASE SF!RemoveRow
  <2>1. PICK i \in DOMAIN ui.form.resources : SF!On /\ SF!Set(SF!removeResource(ui, i), srv)
    BY <1>12 DEF SF!RemoveRow, SF!Do
  <2> QED
    BY <1>a, <1>b, <2>1, RowGone
<1>13. CASE SF!toggleReveal
  <2>1. PICK i \in DOMAIN ui.form.resources :
          /\ SF!On
          /\ SF!Set(LET r == ui.form.resources[i]
                    IN IF i \in ui.revealed
                       THEN [ui EXCEPT !.revealed = @ \ {i}, !.asked = @ \ {r.id}]
                       ELSE [ui EXCEPT !.revealed = @ \cup {i}, !.asked = @ \cup {r.id}], srv)
    BY <1>13 DEF SF!toggleReveal, SF!Do
  <2> DEFINE n == ui.form.resources[i].id
             a == IF i \in ui.revealed THEN ui.revealed \ {i} ELSE ui.revealed \cup {i}
             b == IF i \in ui.revealed THEN ui.asked \ {n} ELSE ui.asked \cup {n}
             v == [ui EXCEPT !.revealed = a, !.asked = b]
  <2>2. SF!Set(v, srv)
    <3>1. CASE i \in ui.revealed
      BY <2>1, <3>1
    <3>2. CASE i \notin ui.revealed
      BY <2>1, <3>2
    <3> QED
      BY <3>1, <3>2
  <2>3. ui.form.resources \in Seq(FormRows)
    BY <1>g DEF Wanted
  <2>4. i \in Nat /\ ui.form.resources[i] \in FormRows
    BY <2>3, ElementOfSeq, LenProperties
  <2>5. n \in Nat
    BY <2>4 DEF FormRows
  <2> HIDE DEF n
  <2>6. /\ a \in SUBSET Nat /\ b \in SUBSET Nat
        /\ \/ i \in ui.revealed /\ a = ui.revealed \ {i} /\ b = ui.asked \ {n}
           \/ a = ui.revealed \cup {i} /\ b = ui.asked \cup {n}
    BY <1>a, <2>4, <2>5 DEF SessionUi
  <2> HIDE DEF a, b
  <2>7. v \in SessionUi /\ RowsOK(v) /\ v.form = ui.form /\ v.mcp = ui.mcp
    <3>1. /\ v \in SessionUi /\ v.form = ui.form /\ v.mcp = ui.mcp /\ v.rows = ui.rows
          /\ v.revealed = a /\ v.asked = b
      BY <1>a, <2>6 DEF SessionUi
    <3> HIDE DEF v
    <3>2. RowsOK(v)
      BY <1>a, <2>6, <3>1 DEF RowsOK, n
    <3> QED
      BY <3>1, <3>2
  <2> HIDE DEF v
  <2> QED
    BY <1>b, <2>1, <2>2, <2>7
\* The POST and its answers.
<1>14. CASE SF!onSubmit
  <2>1. SF!On /\ ui' = [ui EXCEPT !.submitting = TRUE]
        /\ srv' = [srv EXCEPT !.posts = @ \cup {SF!Body(ui)}]
    BY <1>14 DEF SF!onSubmit
  <2>2. SessionSrv(srv') /\ srv'.agent = srv.agent
    BY <1>a, <2>1 DEF SessionSrv
  <2>3. /\ ui' \in SessionUi /\ ui'.form = ui.form /\ ui'.rows = ui.rows /\ ui'.mcp = ui.mcp
        /\ ui'.revealed = ui.revealed /\ ui'.asked = ui.asked /\ ui'.page = ui.page
    BY <1>a, <2>1 DEF SessionUi
  <2> QED
    BY <1>a, <2>1, <2>2, <2>3 DEF SessionOK, McpOK, RowsOK
<1>15. CASE SF!Created \/ SF!NoBalance
  <2>1. PICK p \in {"session", "billing"} : ui' = [z EXCEPT !.page = p]
    BY <1>15 DEF SF!Created, SF!NoBalance, z
  <2>2. PICK b : \/ srv' = [srv EXCEPT !.posts = @ \ {b}, !.sessions = @ \cup {b}]
                 \/ srv' = [srv EXCEPT !.posts = @ \ {b}]
    BY <1>15 DEF SF!Created, SF!NoBalance
  <2>3. SessionSrv(srv')
    BY <1>a, <2>2 DEF SessionSrv
  <2>4. ui' \in SessionUi /\ ui'.form = f /\ ui'.page # "session_form"
    BY <1>e, <2>1 DEF SessionUi
  <2>5. RowsOK(ui')
    BY <1>d, <2>4, NoRows
  <2> QED
    BY <2>3, <2>4, <2>5 DEF SessionOK
<1>16. CASE SF!CreateFails
  <2>1. PICK b : SF!On /\ ui' = [ui EXCEPT !.submitting = FALSE]
                 /\ srv' = [srv EXCEPT !.posts = @ \ {b}]
    BY <1>16 DEF SF!CreateFails
  <2>2. SessionSrv(srv') /\ srv'.agent = srv.agent
    BY <1>a, <2>1 DEF SessionSrv
  <2>3. /\ ui' \in SessionUi /\ ui'.form = ui.form /\ ui'.rows = ui.rows /\ ui'.mcp = ui.mcp
        /\ ui'.revealed = ui.revealed /\ ui'.asked = ui.asked /\ ui'.page = ui.page
    BY <1>a, <2>1 DEF SessionUi
  <2> QED
    BY <1>a, <2>1, <2>2, <2>3 DEF SessionOK, McpOK, RowsOK
<1> QED
  BY <1>1, <1>2, <1>3, <1>4, <1>5, <1>6, <1>7, <1>8, <1>9, <1>10, <1>11, <1>12, <1>13,
     <1>14, <1>15, <1>16 DEF SF!Next

\* The warning about MCP servers is that of the agent in the form, whichever
\* answers come late, and a secret is in clear in no row but one the user asked to
\* see, however rows are added and removed (the effects and the rows of the dialog
\* of SessionsList.tsx).
THEOREM DialogFollowsItsUser == Spec => []FormFollowsUser
<1> DEFINE I == route = "session_form" => SessionInv
<1>1. Init => I
  <2> SUFFICES ASSUME Init, route = "session_form" PROVE SessionInv
    OBVIOUS
  <2>1. SF!Init
    BY DEF Init
  <2> DEFINE f == SF!INITIAL_FORM_VALUES
  <2>2. f \in Wanted /\ f.resources = <<>> /\ f.agent = None
    BY EmptySeq DEF SF!INITIAL_FORM_VALUES, Wanted
  <2>3. ui = [page |-> "session_form", open |-> FALSE, form |-> f, detail |-> None,
              mcp |-> None, hosts |-> {}, loaded |-> FALSE, revealed |-> {}, asked |-> {},
              local |-> FALSE, submitting |-> FALSE, rows |-> 0]
    BY <2>1 DEF SF!Init
  <2>4. SessionSrv(srv) /\ srv.agent = None
    BY <2>1 DEF SF!Init, SessionSrv
  <2> HIDE DEF f
  <2>5. ui \in SessionUi /\ ui.form = f /\ ui.mcp = None
    BY <2>2, <2>3 DEF SessionUi
  <2>6. RowsOK(ui)
    BY <2>2, <2>5, NoRows
  <2> QED
    BY <2>4, <2>5, <2>6 DEF SessionInv, SessionOK, McpOK
<1>2. I /\ [Next]_vars => I'
  <2> SUFFICES ASSUME I, [Next]_vars, route' = "session_form" PROVE SessionInv'
    OBVIOUS
  <2>1. route = "session_form" /\ SessionInv
    BY DEF Next, vars
  <2>2. CASE UNCHANGED vars
    BY <2>1, <2>2 DEF vars, SessionInv, SessionOK, SessionUi, SessionSrv, RowsOK, McpOK
  <2>3. CASE Next
    <3>1. SF!Next
      BY <2>1, <2>3 DEF Next
    <3> QED
      BY <2>1, <3>1, SessionStep
  <2> QED
    BY <2>2, <2>3
<1>3. I => FormFollowsUser
  BY DEF FormFollowsUser, SF!FormFollowsUser, SF!McpOfAgent, SF!OnlyAskedRevealed, SF!On,
         SessionInv, SessionOK, McpOK, RowsOK
<1> QED
  BY <1>1, <1>2, <1>3, PTL DEF Spec, vars

-----------------------------------------------------------------------------
(***************************************************************************)
(* The agent form: AgentForm.                                              *)
(***************************************************************************)
\* The form a user can have: it names one of the gateways and one of the levels, has a
\* policy of each tool it names, and says yes or no where it must.
FormFields ==
  {"managed", "thinking", "permission", "overrides", "general", "team"}

States == AF!Policies \cup {"disabled"}

Overrides(o) == \A t \in DOMAIN o : o[t] \in States

FormOK(f) ==
  /\ FormFields \subseteq DOMAIN f
  /\ f.managed \in Gateways \cup {None} /\ f.thinking \in AF!ThinkingLevels
  /\ f.permission \in AF!Policies /\ f.general \in BOOLEAN /\ f.team \in BOOLEAN
  /\ Overrides(f.overrides)

HasForm(u) == "form" \in DOMAIN u /\ FormOK(u.form)

\* A key that is there is read as what it holds, one that is missing as its default.
LEMMA Keys ==
  /\ \A v, d : AF!Or({v}, d) = v
  /\ \A d : AF!Or({}, d) = d
  /\ \A v, d : AF!Or(AF!When(TRUE, v), d) = v
  /\ \A v, d : AF!Or(AF!When(FALSE, v), d) = d
<1>1. \A v : (CHOOSE x \in {v} : TRUE) = v
  OBVIOUS
<1>2. \A v : {v} # {}
  OBVIOUS
<1>3. \A v, d : AF!Or({v}, d) = v
  BY <1>1, <1>2, Zenon DEF AF!Or
<1>4. \A d : AF!Or({}, d) = d
  BY Zenon DEF AF!Or
<1>5. \A v : AF!When(TRUE, v) = {v} /\ AF!When(FALSE, v) = {}
  BY Zenon DEF AF!When
<1> QED
  BY <1>3, <1>4, <1>5, Zenon

\* What is read back from the text of any form that may be edited binds the agent
\* as that form does.
LEMMA BindingReadBack ==
  ASSUME NEW f, f.managed \in Gateways \cup {None}
  PROVE  AF!Binding(AF!parseConfig(AF!formToConfig(f))) = AF!Binding(f)
<1> DEFINE c == AF!formToConfig(f)
           g == AF!parseConfig(c)
           oma == AF!Or(c.oma, [harness |-> None, binding |-> {}])
           rb == AF!Or(oma.binding, AF!NoBinding)
           black == AF!When(f.blocked # {}, f.blocked)
           acp == [AF!NoBinding EXCEPT !.runtime_id = {f.runtime}, !.acp_agent_id = {f.acp},
                     !.local_skill_blocklist = black]
           flat == [harness |-> f.managed, binding |-> {}]
           proxy == [harness |-> "acp-proxy", binding |-> {acp}]
<1>1. c.oma = IF f.runtime # None /\ f.acp # None THEN {proxy}
              ELSE AF!When(f.managed # None, flat)
  BY DEF AF!formToConfig
<1>b. \A h : AF!Binding(h) =
        IF h.runtime # None /\ h.acp # None
        THEN {[harness |-> "acp-proxy",
               binding |-> {[AF!NoBinding EXCEPT !.runtime_id = {h.runtime},
                               !.acp_agent_id = {h.acp},
                               !.local_skill_blocklist =
                                 AF!When(h.blocked # {}, h.blocked)]}]}
        ELSE AF!When(h.managed # None, [harness |-> h.managed, binding |-> {}])
  BY DEF AF!Binding
<1>2. /\ g.runtime = IF oma.harness = "acp-proxy" THEN AF!Or(rb.runtime_id, None) ELSE None
      /\ g.acp = AF!Or(rb.acp_agent_id, AcpDefault)
      /\ g.blocked = AF!Or(rb.local_skill_blocklist, {})
      /\ g.managed = AF!ManagedIn(oma.harness, rb)
  BY DEF AF!parseConfig, AF!INITIAL_FORM
<1>n. AF!Or(AF!NoBinding.agent, None) = None
  BY Keys DEF AF!NoBinding
<1>3. CASE f.runtime # None /\ f.acp # None
  <2>1. oma = proxy
    BY <1>1, <1>3, Keys
  <2>2. rb = acp /\ oma.harness = "acp-proxy"
    <3> HIDE DEF acp, oma
    <3>1. oma.binding = {acp} /\ oma.harness = "acp-proxy"
      BY <2>1
    <3> QED
      BY <3>1, Keys
  <2>3. /\ acp.runtime_id = {f.runtime} /\ acp.acp_agent_id = {f.acp}
        /\ acp.local_skill_blocklist = black
    BY DEF AF!NoBinding
  <2>4. AF!Or(black, {}) = f.blocked
    <3>1. CASE f.blocked = {}
      BY <3>1, Keys DEF AF!When
    <3>2. CASE f.blocked # {}
      BY <3>2, Keys DEF AF!When
    <3> QED
      BY <3>1, <3>2
  <2> HIDE DEF c, g, oma, rb, black, acp, proxy
  <2>5. g.runtime = f.runtime /\ g.acp = f.acp /\ g.blocked = f.blocked
    <3>1. /\ AF!Or(rb.runtime_id, None) = f.runtime
          /\ AF!Or(rb.acp_agent_id, AcpDefault) = f.acp
          /\ AF!Or(rb.local_skill_blocklist, {}) = f.blocked
      <4>1. /\ rb.runtime_id = {f.runtime} /\ rb.acp_agent_id = {f.acp}
            /\ rb.local_skill_blocklist = black
        BY <2>2, <2>3
      <4>2. AF!Or({f.runtime}, None) = f.runtime /\ AF!Or({f.acp}, AcpDefault) = f.acp
        BY Keys
      <4> QED
        BY <2>4, <4>1, <4>2
    <3> QED
      BY <1>2, <2>2, <3>1
  <2> QED
    BY <1>3, <1>b, <2>5 DEF g, c
<1>4. CASE ~(f.runtime # None /\ f.acp # None) /\ f.managed # None
  <2>1. oma = flat /\ f.managed \in Gateways
    BY <1>1, <1>4, Keys DEF AF!When
  <2>2. oma.harness = f.managed /\ oma.harness # "acp-proxy" /\ rb = AF!NoBinding
    BY <2>1, Keys, HarnessAssumption
  <2>3. AF!ManagedIn(oma.harness, rb) = f.managed
    BY <2>1, <2>2 DEF AF!ManagedIn
  <2> HIDE DEF c, g, oma, rb
  <2>4. g.runtime = None /\ g.managed = f.managed
    BY <1>2, <2>2, <2>3
  <2> QED
    BY <1>4, <1>b, <2>4 DEF g, c
<1>5. CASE ~(f.runtime # None /\ f.acp # None) /\ f.managed = None
  <2>1. oma = [harness |-> None, binding |-> {}]
    BY <1>1, <1>5, Keys DEF AF!When
  <2>2. oma.harness = None /\ rb = AF!NoBinding
    BY <2>1, Keys
  <2>3. AF!ManagedIn(oma.harness, rb) = None /\ None # "acp-proxy"
    BY <1>n, <2>2, HarnessAssumption DEF AF!ManagedIn
  <2> HIDE DEF c, g, oma, rb
  <2>4. g.runtime = None /\ g.managed = None
    BY <1>2, <2>2, <2>3
  <2> QED
    BY <1>5, <1>b, <2>4 DEF g, c, AF!When
<1> QED
  BY <1>3, <1>4, <1>5 DEF g, c

\* The entries of the tools are read back as the states they were written from.
LEMMA OverridesReadBack ==
  ASSUME NEW o, Overrides(o)
  PROVE  LET again == AF!overridesIn({AF!Override(t, o[t]) : t \in DOMAIN o})
         IN /\ DOMAIN again = DOMAIN o
            /\ \A t \in DOMAIN o : again[t] = o[t]
<1> DEFINE configs == {AF!Override(t, o[t]) : t \in DOMAIN o}
           said == {c \in configs : AF!StateOf(c) # "default"}
           again == AF!overridesIn(configs)
<1>1. ASSUME NEW t \in DOMAIN o
      PROVE  /\ AF!Override(t, o[t]).name = t
             /\ AF!StateOf(AF!Override(t, o[t])) = o[t] /\ o[t] # "default"
  <2>1. o[t] \in {"always_allow", "always_ask", "disabled"}
    BY DEF Overrides, States, AF!Policies
  <2>2. CASE o[t] = "disabled"
    BY <2>2 DEF AF!Override, AF!StateOf
  <2>3. CASE o[t] # "disabled"
    <3>1. AF!Override(t, o[t]) = [name |-> t, enabled |-> {TRUE}, policy |-> {o[t]}]
      BY <2>3 DEF AF!Override
    <3>2. {TRUE} # {FALSE}
      OBVIOUS
    <3>3. AF!Or({o[t]}, "default") = o[t]
      BY Keys
    <3> QED
      BY <2>1, <2>3, <3>1, <3>2, <3>3 DEF AF!StateOf, AF!Policies
  <2> QED
    BY <2>2, <2>3
<1>2. said = configs
  BY <1>1
<1>3. again = [t \in {c.name : c \in said} |->
                 AF!StateOf(CHOOSE c \in said : c.name = t)]
  BY DEF AF!overridesIn
<1>4. {c.name : c \in said} = DOMAIN o
  BY <1>1, <1>2
<1>5. ASSUME NEW t \in DOMAIN o PROVE again[t] = o[t]
  <2> DEFINE e == CHOOSE c \in said : c.name = t
  <2>1. \E c \in said : c.name = t
    BY <1>1, <1>2
  <2>2. e \in said /\ e.name = t
    BY <2>1
  <2> HIDE DEF e
  <2>3. PICK u \in DOMAIN o : e = AF!Override(u, o[u])
    BY <1>2, <2>2
  <2>4. u = t
    BY <1>1, <2>2, <2>3
  <2>5. AF!StateOf(e) = o[t]
    BY <1>1, <2>3, <2>4
  <2> QED
    BY <1>3, <1>4, <2>5 DEF e
<1> QED
  BY <1>3, <1>4, <1>5

\* The tools, the MCP toolsets among them, and the metadata of what is read back.
LEMMA ToolsReadBack ==
  ASSUME NEW f, FormOK(f)
  PROVE  LET g == AF!parseConfig(AF!formToConfig(f))
         IN g.mcp = f.mcp => AF!buildToolsField(g) = AF!buildToolsField(f)
<1> DEFINE c == AF!formToConfig(f)
           g == AF!parseConfig(c)
           o == f.overrides
           chosen == {t \in DOMAIN o : o[t] # "default"}
           configs == {AF!Override(t, o[t]) : t \in chosen}
           ts == [enabled |-> {f.enabled}, policy |-> {f.permission},
                  configs |-> AF!When(configs # {}, configs)]
           mcp == {f.mcp[i].name : i \in {j \in DOMAIN f.mcp : f.mcp[j].name # None}}
           none == [enabled |-> {}, policy |-> {}, configs |-> {}]
           read == AF!Or(AF!Or(c.tools, [toolset |-> {}, mcp |-> {}]).toolset, none)
<1>1. c.tools = {[toolset |-> {ts}, mcp |-> mcp]}
  BY DEF AF!formToConfig, AF!buildToolsField
<1>2. read = ts
  <2>1. AF!Or(c.tools, [toolset |-> {}, mcp |-> {}]) = [toolset |-> {ts}, mcp |-> mcp]
    BY <1>1, Keys, Zenon
  <2>2. AF!Or(c.tools, [toolset |-> {}, mcp |-> {}]).toolset = {ts}
    BY <2>1
  <2> QED
    BY <2>2, Keys, Zenon
<1>3. /\ g.enabled = AF!Or(read.enabled, TRUE)
      /\ g.permission = IF read.policy = {"always_ask"} THEN "always_ask" ELSE "always_allow"
      /\ g.overrides = AF!overridesIn(AF!Or(read.configs, {}))
  BY DEF AF!parseConfig, AF!INITIAL_FORM
<1>4. Overrides(o) /\ f.permission \in AF!Policies
  BY DEF FormOK
<1>5. chosen = DOMAIN o
  BY <1>4 DEF Overrides, States, AF!Policies
<1>6. AF!Or(AF!When(configs # {}, configs), {}) = configs
  <2> HIDE DEF configs
  <2>1. CASE configs = {}
    BY <2>1, Keys DEF AF!When
  <2>2. CASE configs # {}
    BY <2>2, Keys DEF AF!When
  <2> QED
    BY <2>1, <2>2
<1>7. /\ g.enabled = f.enabled /\ g.overrides = AF!overridesIn(configs)
      /\ g.permission = f.permission
  <2>1. read.enabled = {f.enabled} /\ read.policy = {f.permission}
        /\ read.configs = AF!When(configs # {}, configs)
    <3> HIDE DEF read, configs
    <3> QED
      BY <1>2
  <2> HIDE DEF read, g, configs
  <2>2. g.enabled = f.enabled
    <3>1. AF!Or({f.enabled}, TRUE) = f.enabled
      BY Keys, Zenon
    <3> QED
      BY <1>3, <2>1, <3>1
  <2>3. g.permission = f.permission
    BY <1>3, <1>4, <2>1 DEF AF!Policies
  <2>4. g.overrides = AF!overridesIn(configs)
    BY <1>3, <1>6, <2>1
  <2> QED
    BY <2>2, <2>3, <2>4
<1> DEFINE q == g.overrides
           chosen2 == {t \in DOMAIN q : q[t] # "default"}
           configs2 == {AF!Override(t, q[t]) : t \in chosen2}
<1>8. configs = {AF!Override(t, o[t]) : t \in DOMAIN o}
  BY <1>5
<1>9. DOMAIN q = DOMAIN o /\ \A t \in DOMAIN o : q[t] = o[t]
  <2> HIDE DEF configs, g
  <2>1. q = AF!overridesIn({AF!Override(t, o[t]) : t \in DOMAIN o})
    BY <1>7, <1>8
  <2> HIDE DEF o, q
  <2> QED
    BY <1>4, <2>1, OverridesReadBack
<1>10. configs2 = configs
  <2> HIDE DEF g
  <2> QED
    BY <1>5, <1>9
<1>11. SUFFICES ASSUME g.mcp = f.mcp PROVE AF!buildToolsField(g) = AF!buildToolsField(f)
  OBVIOUS
<1> DEFINE mcp2 == {g.mcp[i].name : i \in {j \in DOMAIN g.mcp : g.mcp[j].name # None}}
<1>12. AF!buildToolsField(g) =
         [toolset |-> {[enabled |-> {g.enabled}, policy |-> {g.permission},
                        configs |-> AF!When(configs2 # {}, configs2)]}, mcp |-> mcp2]
  <2> HIDE DEF g
  <2> QED
    BY DEF AF!buildToolsField
<1>13. AF!buildToolsField(f) = [toolset |-> {ts}, mcp |-> mcp]
  BY DEF AF!buildToolsField
<1>14. mcp2 = mcp
  <2> HIDE DEF g
  <2> QED
    BY <1>11
<1> HIDE DEF g, configs, configs2, mcp, mcp2
<1> QED
  BY <1>7, <1>10, <1>12, <1>13, <1>14

LEMMA MetadataReadBack ==
  ASSUME NEW f, FormOK(f)
  PROVE  LET g == AF!parseConfig(AF!formToConfig(f))
         IN g.team = f.team /\ g.thinking = f.thinking
<1> DEFINE c == AF!formToConfig(f)
           g == AF!parseConfig(c)
           m == [enable_team_tools |-> AF!When(f.team, TRUE),
                 thinking_level |-> AF!When(f.thinking # "off", f.thinking)]
           none == [enable_team_tools |-> {}, thinking_level |-> {}]
           md == AF!Or(c.metadata, none)
           level == AF!Or(md.thinking_level, "off")
<1>1. c.metadata = AF!When(f.team \/ f.thinking # "off", m)
  BY DEF AF!formToConfig, AF!buildAgentMetadata
<1>2. /\ g.team = (md.enable_team_tools = {TRUE})
      /\ g.thinking = IF level \in AF!ThinkingLevels THEN level ELSE "off"
  BY DEF AF!parseConfig, AF!INITIAL_FORM
<1>3. f.team \in BOOLEAN /\ f.thinking \in AF!ThinkingLevels
  BY DEF FormOK
<1>4. md = m
  <2>1. CASE f.team \/ f.thinking # "off"
    <3>1. c.metadata = {m}
      BY <1>1, <2>1, Zenon DEF AF!When
    <3> HIDE DEF m, none, c
    <3> QED
      BY <3>1, Keys
  <2>2. CASE ~(f.team \/ f.thinking # "off")
    <3>1. m = none
      BY <2>2 DEF AF!When
    <3>2. c.metadata = {}
      BY <1>1, <2>2, Zenon DEF AF!When
    <3> HIDE DEF m, none, c
    <3> QED
      BY <3>1, <3>2, Keys
  <2> QED
    BY <2>1, <2>2
<1>5. level = f.thinking
  <2>1. md.thinking_level = AF!When(f.thinking # "off", f.thinking)
    BY <1>4
  <2>2. CASE f.thinking = "off"
    BY <2>1, <2>2, Keys DEF AF!When
  <2>3. CASE f.thinking # "off"
    BY <2>1, <2>3, Keys DEF AF!When
  <2> QED
    BY <2>2, <2>3
<1>6. (md.enable_team_tools = {TRUE}) = f.team
  <2>1. md.enable_team_tools = AF!When(f.team, TRUE)
    <3> HIDE DEF md
    <3> QED
      BY <1>4, Zenon
  <2>2. CASE f.team
    BY <2>1, <2>2 DEF AF!When
  <2>3. CASE ~f.team
    <3>1. md.enable_team_tools = {} /\ f.team = FALSE
      BY <1>3, <2>1, <2>3 DEF AF!When
    <3> QED
      BY <3>1
  <2> QED
    BY <2>2, <2>3
<1> HIDE DEF md, level
<1>7. g.team = f.team
  BY <1>2, <1>6
<1>8. g.thinking = f.thinking
  BY <1>2, <1>3, <1>5
<1> QED
  BY <1>7, <1>8

LEMMA PayloadReadBack ==
  ASSUME NEW f, FormOK(f)
  PROVE  AF!Payload(AF!parseConfig(AF!formToConfig(f)))
           = [AF!Payload(f) EXCEPT !.model = IF @ = None THEN Fallback ELSE @]
<1> DEFINE c == AF!formToConfig(f)
           g == AF!parseConfig(c)
           m == IF f.model = None THEN Fallback ELSE f.model
<1>1. AF!Binding(g) = AF!Binding(f)
  BY BindingReadBack DEF FormOK
<1>2. /\ c.name = f.name /\ c.model = f.model
      /\ c.mcp_servers = AF!When(f.mcp # <<>>, f.mcp)
      /\ c.skills = AF!When(f.skills # {}, f.skills)
      /\ c.multiagent = AF!When(f.callable # <<>>, f.callable)
      /\ c.general = AF!When(f.general, TRUE)
  BY DEF AF!formToConfig
<1>3. /\ g.name = c.name /\ g.model = IF c.model = None THEN Fallback ELSE c.model
      /\ g.mcp = AF!Or(c.mcp_servers, <<>>) /\ g.skills = AF!Or(c.skills, {})
      /\ g.callable = AF!Or(c.multiagent, <<>>) /\ g.general = (c.general = {TRUE})
  BY DEF AF!parseConfig, AF!INITIAL_FORM
<1>4. g.team = f.team /\ g.thinking = f.thinking
  BY MetadataReadBack
<1>t. g.mcp = f.mcp => AF!buildToolsField(g) = AF!buildToolsField(f)
  BY ToolsReadBack
<1> HIDE DEF g, c
<1>5. g.name = f.name /\ g.model = m
  BY <1>2, <1>3
<1>6. \A v, e : AF!Or(AF!When(v # e, v), e) = v
  <2> SUFFICES ASSUME NEW v, NEW e PROVE AF!Or(AF!When(v # e, v), e) = v
    OBVIOUS
  <2>1. CASE v = e
    BY <2>1, Keys DEF AF!When
  <2>2. CASE v # e
    BY <2>2, Keys DEF AF!When
  <2> QED
    BY <2>1, <2>2
<1>7. g.mcp = f.mcp /\ g.skills = f.skills /\ g.callable = f.callable
  <2>1. /\ AF!Or(AF!When(f.mcp # <<>>, f.mcp), <<>>) = f.mcp
        /\ AF!Or(AF!When(f.skills # {}, f.skills), {}) = f.skills
        /\ AF!Or(AF!When(f.callable # <<>>, f.callable), <<>>) = f.callable
    BY <1>6
  <2> QED
    BY <1>2, <1>3, <2>1, Zenon
<1>8. g.general = f.general
  <2>1. f.general \in BOOLEAN
    BY DEF FormOK
  <2>2. CASE f.general = TRUE
    BY <1>2, <1>3, <2>2 DEF AF!When
  <2>3. CASE f.general = FALSE
    <3>1. c.general = {}
      BY <1>2, <2>3 DEF AF!When
    <3> QED
      BY <1>3, <2>3, <3>1
  <2> QED
    BY <2>1, <2>2, <2>3
<1>9. AF!buildToolsField(g) = AF!buildToolsField(f)
  BY <1>t, <1>7
<1>10. AF!buildAgentMetadata(g) = AF!buildAgentMetadata(f)
  BY <1>4 DEF AF!buildAgentMetadata
<1> DEFINE mcp == AF!When(f.mcp # <<>>, f.mcp)
           skills == AF!When(f.skills # {}, f.skills)
           agents == AF!When(f.callable # <<>>, f.callable)
           general == AF!When(f.general, TRUE)
           t == AF!buildToolsField(f)
           d == AF!buildAgentMetadata(f)
           b == AF!Binding(f)
<1>11. AF!Payload(g) =
         [name |-> f.name, model |-> m, tools |-> {t}, mcp_servers |-> mcp,
          skills |-> skills, multiagent |-> agents, general |-> general, metadata |-> d,
          oma |-> b]
  BY <1>1, <1>5, <1>7, <1>8, <1>9, <1>10, Zenon DEF AF!Payload
<1>12. AF!Payload(f) =
         [name |-> f.name, model |-> f.model, tools |-> {t}, mcp_servers |-> mcp,
          skills |-> skills, multiagent |-> agents, general |-> general, metadata |-> d,
          oma |-> b]
  BY Zenon DEF AF!Payload
<1> HIDE DEF mcp, skills, agents, general, t, d, b, m
<1>13. [AF!Payload(f) EXCEPT !.model = IF @ = None THEN Fallback ELSE @] =
         [name |-> f.name, model |-> IF f.model = None THEN Fallback ELSE f.model,
          tools |-> {t}, mcp_servers |-> mcp, skills |-> skills, multiagent |-> agents,
          general |-> general, metadata |-> d, oma |-> b]
  BY <1>12
<1>14. m = IF f.model = None THEN Fallback ELSE f.model
  BY DEF m
<1> QED
  BY <1>11, <1>13, <1>14, Zenon DEF g, c

\* A step that leaves a form a user can have.
LEMMA Edited ==
  ASSUME HasForm(ui), NEW f, AF!Edit(f), FormOK(f)
  PROVE  HasForm(ui')
  BY DEF HasForm, AF!Edit

\* Whatever text is read, the form that comes of it is one a user can have.
LEMMA ReadFormOK == \A c : FormOK(AF!parseConfig(c))
<1> SUFFICES ASSUME NEW c PROVE FormOK(AF!parseConfig(c))
  OBVIOUS
<1> DEFINE g == AF!parseConfig(c)
<1> DEFINE oma == AF!Or(c.oma, [harness |-> None, binding |-> {}])
           rb == AF!Or(oma.binding, AF!NoBinding)
           none == [enabled |-> {}, policy |-> {}, configs |-> {}]
           toolset == AF!Or(AF!Or(c.tools, [toolset |-> {}, mcp |-> {}]).toolset, none)
           md == AF!Or(c.metadata, [enable_team_tools |-> {}, thinking_level |-> {}])
           level == AF!Or(md.thinking_level, "off")
<1>1. /\ FormFields \subseteq DOMAIN g
      /\ g.managed = AF!ManagedIn(oma.harness, rb)
      /\ g.permission = IF toolset.policy = {"always_ask"} THEN "always_ask"
                        ELSE "always_allow"
      /\ g.overrides = AF!overridesIn(AF!Or(toolset.configs, {}))
      /\ g.general = (c.general = {TRUE}) /\ g.team = (md.enable_team_tools = {TRUE})
      /\ g.thinking = IF level \in AF!ThinkingLevels THEN level ELSE "off"
  BY DEF AF!parseConfig, AF!INITIAL_FORM, FormFields
<1>2. \A h, b : AF!ManagedIn(h, b) \in Gateways \cup {None}
  BY DEF AF!ManagedIn
<1>3. \A k : Overrides(AF!overridesIn(k))
  <2> SUFFICES ASSUME NEW k PROVE Overrides(AF!overridesIn(k))
    OBVIOUS
  <2> DEFINE said == {e \in k : AF!StateOf(e) # "default"}
             q == AF!overridesIn(k)
  <2>1. q = [t \in {e.name : e \in said} |-> AF!StateOf(CHOOSE e \in said : e.name = t)]
    BY DEF AF!overridesIn
  <2>2. ASSUME NEW t \in DOMAIN q PROVE q[t] \in States
    <3> DEFINE e == CHOOSE x \in said : x.name = t
    <3>1. \E x \in said : x.name = t
      BY <2>1
    <3>2. e \in said
      BY <3>1
    <3>3. q[t] = AF!StateOf(e)
      BY <2>1
    <3> HIDE DEF e, q
    <3>4. AF!StateOf(e) # "default"
      BY <3>2
    <3>5. AF!StateOf(e) \in States \cup {"default"}
      BY DEF AF!StateOf, States
    <3> QED
      BY <3>3, <3>4, <3>5
  <2> HIDE DEF q
  <2>3. Overrides(q)
    BY <2>2 DEF Overrides
  <2> QED
    BY <2>3 DEF q
<1> HIDE DEF g, oma, rb, toolset, md, level
<1>4. FormOK(g)
  BY <1>1, <1>2, <1>3 DEF FormOK, AF!ThinkingLevels, AF!Policies
<1> QED
  BY <1>4 DEF g

LEMMA InitialFormOK == FormOK(AF!INITIAL_FORM)
BY DEF FormOK, FormFields, Overrides, States, AF!INITIAL_FORM, AF!Policies,
       AF!ThinkingLevels

\* The default card is put into a form that may be edited.
LEMMA HydratedForm ==
  ASSUME NEW u, HasForm(u), NEW have
  PROVE  HasForm(AF!Hydrated(u, have))
<1> DEFINE f == [u.form EXCEPT !.card = DefaultCard, !.model = DefaultCard]
<1>1. FormOK(f)
  BY DEF HasForm, FormOK, FormFields
<1>2. AF!Hydrated(u, have) = u \/ AF!Hydrated(u, have) = [u EXCEPT !.form = f]
  BY DEF AF!Hydrated
<1> HIDE DEF f
<1> QED
  BY <1>1, <1>2 DEF HasForm

LEMMA FormStep ==
  ASSUME HasForm(ui), AF!Next
  PROVE  HasForm(ui')
<1>1. CASE AF!CardsArrive
  BY <1>1, HydratedForm DEF AF!CardsArrive
<1>2. CASE AF!HarnessesArrive
  BY <1>2 DEF HasForm, AF!HarnessesArrive
<1>a. /\ "form" \in DOMAIN AF!closeCreate(ui) /\ HasForm(AF!closeCreate(ui))
  BY InitialFormOK DEF HasForm, AF!closeCreate
<1>3. CASE AF!TemplateStep
  <2>1. CASE ui' = AF!closeCreate(ui)
    BY <1>a, <2>1
  <2>2. ASSUME NEW blank \in BOOLEAN, NEW s \in Servers, NEW k \in Skills,
               ui' = AF!selectTemplate(ui, blank, s, k)
        PROVE  HasForm(ui')
    <3> DEFINE f == IF blank THEN AF!INITIAL_FORM
                    ELSE [AF!INITIAL_FORM EXCEPT !.name = TRUE, !.model = DefaultCard,
                            !.mcp = <<[name |-> s, url |-> s]>>, !.skills = {k}]
               u == [ui EXCEPT !.form = f, !.step = "form"]
    <3>1. FormOK(f)
      BY InitialFormOK DEF FormOK, FormFields, AF!INITIAL_FORM
    <3>2. ui' = AF!Hydrated(u, srv.cards)
      BY <2>2 DEF AF!selectTemplate
    <3> HIDE DEF f
    <3>3. HasForm(u)
      BY <3>1 DEF HasForm
    <3> HIDE DEF u
    <3> QED
      BY <3>2, <3>3, HydratedForm
  <2> QED
    BY <1>3, <2>1, <2>2 DEF AF!TemplateStep
<1>4. CASE AF!BackToTemplates
  BY <1>4 DEF HasForm, AF!BackToTemplates
<1>5. CASE AF!Cancel
  BY <1>a, <1>5 DEF AF!Cancel
<1>6. CASE AF!Reopen
  BY <1>6 DEF HasForm, AF!Reopen
<1> DEFINE f == ui.form
<1>b. FormOK(f)
  BY DEF HasForm
<1>7. CASE AF!BasicTab
  <2>1. \A c : FormOK([f EXCEPT !.name = TRUE]) /\ FormOK([f EXCEPT !.card = c, !.model = c])
    BY <1>b DEF FormOK, FormFields
  <2>2. \A l \in AF!ThinkingLevels : FormOK([f EXCEPT !.thinking = l])
    BY <1>b DEF FormOK, FormFields
  <2> QED
    BY <1>7, <2>1, <2>2, Edited DEF AF!BasicTab
<1>8. CASE AF!HarnessSelect
  <2>1. \A r, a, m : m \in Gateways \cup {None} =>
          FormOK([f EXCEPT !.runtime = r, !.acp = a, !.managed = m])
    BY <1>b DEF FormOK, FormFields
  <2>2. \E r, a, m : /\ m \in Gateways \cup {None}
                     /\ AF!Edit([f EXCEPT !.runtime = r, !.acp = a, !.managed = m])
    <3>1. CASE AF!Edit([f EXCEPT !.runtime = None, !.acp = AcpDefault, !.managed = None])
      BY <3>1
    <3>2. ASSUME NEW g \in Gateways,
                 AF!Edit([f EXCEPT !.runtime = None, !.acp = AcpDefault, !.managed = g])
          PROVE  \E s, a, m : /\ m \in Gateways \cup {None}
                             /\ AF!Edit([f EXCEPT !.runtime = s, !.acp = a, !.managed = m])
      BY <3>2
    <3>3. ASSUME NEW r \in Runtimes,
                 AF!Edit([f EXCEPT !.runtime = r, !.managed = None,
                            !.acp = IF Detected[r] = <<>> THEN @ ELSE Head(Detected[r])])
          PROVE  \E s, a, m : /\ m \in Gateways \cup {None}
                             /\ AF!Edit([f EXCEPT !.runtime = s, !.acp = a, !.managed = m])
      <4>1. [f EXCEPT !.runtime = r, !.managed = None,
               !.acp = IF Detected[r] = <<>> THEN @ ELSE Head(Detected[r])]
            = [f EXCEPT !.runtime = r,
                 !.acp = IF Detected[r] = <<>> THEN f.acp ELSE Head(Detected[r]),
                 !.managed = None]
        OBVIOUS
      <4> QED
        BY <3>3, <4>1
    <3> QED
      BY <1>8, <3>1, <3>2, <3>3 DEF AF!HarnessSelect
  <2> QED
    BY <2>1, <2>2, Edited
<1>9. CASE AF!AcpAgentPicker
  <2>1. \A a : FormOK([f EXCEPT !.acp = a, !.blocked = {}])
    BY <1>b DEF FormOK, FormFields
  <2> QED
    BY <1>9, <2>1, Edited DEF AF!AcpAgentPicker
<1>10. CASE AF!LocalSkillBlocklist
  <2>1. \A k : FormOK([f EXCEPT !.blocked = k])
    BY <1>b DEF FormOK, FormFields
  <2> QED
    BY <1>10, <2>1, Edited DEF AF!LocalSkillBlocklist
<1>11. CASE AF!ToolsTab
  <2> DEFINE o == f.overrides
  <2>1. \A e : FormOK([f EXCEPT !.enabled = e])
    BY <1>b DEF FormOK, FormFields
  <2>2. \A p \in AF!Policies : FormOK([f EXCEPT !.permission = p])
    BY <1>b DEF FormOK, FormFields
  <2>3. \A q : Overrides(q) => FormOK([f EXCEPT !.overrides = q])
    BY <1>b DEF FormOK, FormFields
  <2>4. Overrides(o)
    BY <1>b DEF FormOK
  <2>5. \A t, v : v \in States => Overrides(AF!Overridden(o, t, v))
    <3> HIDE DEF o
    <3> QED
      BY <2>4 DEF Overrides, AF!Overridden
  <2>6. \A t : Overrides([x \in DOMAIN o \ {t} |-> o[x]])
    <3> HIDE DEF o
    <3> QED
      BY <2>4 DEF Overrides
  <2> QED
    BY <1>11, <2>1, <2>2, <2>3, <2>5, <2>6, Edited DEF AF!ToolsTab, States
<1>12. CASE AF!SkillsTab
  <2>1. \A k : FormOK([f EXCEPT !.skills = k])
    BY <1>b DEF FormOK, FormFields
  <2> QED
    BY <1>12, <2>1, Edited DEF AF!SkillsTab, AF!toggleSkill
<1>13. CASE AF!McpTab
  <2>1. \A m : FormOK([f EXCEPT !.mcp = m])
    BY <1>b DEF FormOK, FormFields
  <2> QED
    BY <1>b, <1>13, <2>1, Edited DEF AF!McpTab, AF!addMcp, AF!addMcpFromRegistry
<1>14. CASE AF!AgentsTab
  <2>1. \A c : FormOK([f EXCEPT !.callable = c])
    BY <1>b DEF FormOK, FormFields
  <2>2. f.general \in BOOLEAN /\ f.team \in BOOLEAN
    BY <1>b DEF FormOK
  <2>3. \A x \in BOOLEAN : FormOK([f EXCEPT !.general = x]) /\ FormOK([f EXCEPT !.team = x])
    BY <1>b DEF FormOK, FormFields
  <2> QED
    BY <1>b, <1>14, <2>1, <2>2, <2>3, Edited DEF AF!AgentsTab, AF!addCallable
<1>15. ASSUME NEW mode \in {"form", "yaml", "json"}, AF!switchMode(mode)
       PROVE  HasForm(ui')
  <2>1. \E h, k : /\ ui' = [ui EXCEPT !.mode = mode, !.code = k, !.form = h]
                  /\ h = f \/ \E c : h = AF!parseConfig(c)
    BY <1>15 DEF AF!switchMode
  <2>2. PICK h, k : /\ ui' = [ui EXCEPT !.mode = mode, !.code = k, !.form = h]
                    /\ FormOK(h)
    BY <1>b, <2>1, ReadFormOK
  <2> QED
    BY <2>2 DEF HasForm
<1>16. CASE AF!Type
  <2>1. PICK t : ui' = [ui EXCEPT !.code = t]
    BY <1>16 DEF AF!Type
  <2> QED
    BY <2>1 DEF HasForm
<1>17. CASE AF!create \/ AF!createFromCode \/ AF!CreateFails
  <2>1. PICK e : ui' = [ui EXCEPT !.error = e]
    BY <1>17 DEF AF!create, AF!createFromCode, AF!CreateFails
  <2> QED
    BY <2>1 DEF HasForm
<1>18. CASE AF!Created
  <2>1. ui' = [AF!closeCreate(ui) EXCEPT !.page = "agent"]
    BY <1>18 DEF AF!Created
  <2> QED
    BY <1>a, <2>1 DEF HasForm
<1> QED
  BY <1>1, <1>2, <1>3, <1>4, <1>5, <1>6, <1>7, <1>8, <1>9, <1>10, <1>11, <1>12, <1>13,
     <1>14, <1>15, <1>16, <1>17, <1>18 DEF AF!Next

\* Whatever was chosen, typed and pasted, turning the form into text (formToConfig of
\* AgentFormDialog.tsx) and back (its switchMode) keeps the agent that create would
\* post, tools, metadata and harness included, but for a model that gets its default.
THEOREM FormSurvivesText == Spec => []FormRoundTrips
<1> DEFINE I == route = "agent_form" => HasForm(ui)
<1>1. Init => I
  BY InitialFormOK DEF Init, AF!Init, AF!Fresh, HasForm
<1>2. I /\ [Next]_vars => I'
  <2> SUFFICES ASSUME I, [Next]_vars, route' = "agent_form" PROVE HasForm(ui')
    BY DEF HasForm
  <2>1. route = "agent_form" /\ HasForm(ui)
    BY DEF Next, vars
  <2>2. CASE UNCHANGED vars
    BY <2>1, <2>2 DEF vars
  <2>3. CASE Next
    <3>1. AF!Next
      BY <2>1, <2>3 DEF Next
    <3> QED
      BY <2>1, <3>1, FormStep
  <2> QED
    BY <2>2, <2>3
<1>3. I => FormRoundTrips
  BY PayloadReadBack, Zenon DEF FormRoundTrips, AF!FormRoundTrips, HasForm
<1> QED
  BY <1>1, <1>2, <1>3, PTL DEF Spec, vars

-----------------------------------------------------------------------------
(***************************************************************************)
(* The tabs over the events of a session: EventViews.                      *)
(***************************************************************************)
LEMMA LeastOf ==
  ASSUME NEW S \in SUBSET Nat, S # {}
  PROVE  \E x \in S : \A y \in S : x <= y
<1> DEFINE R == OpToRel(<, Nat)
<1>1. IsWellFoundedOn(R, Nat)
  BY NatLessThanWellFounded
<1>2. \A x, y \in Nat : x < y => <<x, y>> \in R
  BY DEF OpToRel
<1> HIDE DEF R
<1>3. PICK x \in S : \A y \in S : ~ (<<y, x>> \in R)
  BY <1>1, WFMin
<1>4. \A y \in S : ~ (y < x)
  BY <1>2, <1>3
<1> QED BY <1>4

LEMMA GreatestOf ==
  ASSUME NEW n \in Nat, NEW S \in SUBSET (1..n), S # {}
  PROVE  \E x \in S : \A y \in S : y <= x
<1> DEFINE T == {k \in Nat : n - k \in S}
<1>1. T \in SUBSET Nat /\ T # {}
  <2>1. PICK x \in S : TRUE
    OBVIOUS
  <2>2. n - x \in Nat /\ n - (n - x) = x
    OBVIOUS
  <2> QED
    BY <2>1, <2>2
<1> HIDE DEF T
<1>2. PICK t \in T : \A k \in T : t <= k
  BY <1>1, LeastOf
<1>3. t \in Nat /\ n - t \in S
  BY <1>2 DEF T
<1>4. ASSUME NEW y \in S PROVE y <= n - t
  <2>1. n - y \in Nat /\ n - (n - y) = y
    OBVIOUS
  <2>2. n - y \in T
    BY <2>1 DEF T
  <2> QED
    BY <1>2, <1>3, <2>1, <2>2
<1> QED
  BY <1>3, <1>4

EventKinds == Plain \cup EV!Uses \cup EV!Results \cup {"message"}
Events == [kind : EventKinds, ref : Nat \cup {None}, thread : EV!Threads]

\* The event answers a use of its own thread that the log has, or nothing.
RefersInto(e, log) ==
  IF e.kind \in EV!Results
  THEN /\ e.ref \in DOMAIN log /\ log[e.ref].kind \in EV!Uses
       /\ log[e.ref].thread = e.thread
  ELSE e.ref = None

LogOK(log) == log \in Seq(Events) /\ \A i \in DOMAIN log : RefersInto(log[i], log)

EventsUi ==
  [page : {"events"}, tab : {"transcript", "debug", "timeline"}, thread : EV!Threads,
   categories : SUBSET EV!Categories, types : SUBSET EventKinds,
   selected : Nat \cup {None}, debug : Nat \cup {None}, mode : {"rendered", "raw"},
   jumped : Nat \cup {None}]

\* Until something else happens what was jumped to is selected, unfiltered.
JumpOK(u, log) ==
  u.jumped # None =>
    /\ u.debug = u.jumped /\ u.types = {}
    /\ u.jumped \in DOMAIN log /\ log[u.jumped].thread = u.thread

EventsInv == LogOK(srv.log) /\ "log" \in DOMAIN srv /\ ui \in EventsUi /\ JumpOK(ui, srv.log)

LEMMA LogGrows ==
  ASSUME NEW log, LogOK(log), NEW es \in Seq(Events), \A k \in DOMAIN es : RefersInto(es[k], log)
  PROVE  /\ LogOK(log \o es)
         /\ \A i \in DOMAIN log : i \in DOMAIN (log \o es) /\ (log \o es)[i] = log[i]
<1> DEFINE new == log \o es
           n == Len(log)
           m == Len(es)
<1>1. /\ log \in Seq(Events) /\ n \in Nat /\ m \in Nat
      /\ DOMAIN log = 1..n /\ DOMAIN es = 1..m
  BY LenProperties DEF LogOK
<1>2. /\ new \in Seq(Events) /\ Len(new) = n + m
      /\ \A i \in 1..(n + m) : new[i] = IF i <= n THEN log[i] ELSE es[i - n]
  BY <1>1, ConcatProperties, Zenon
<1>3. DOMAIN new = 1..(n + m)
  BY <1>2, LenProperties
<1> HIDE DEF new, n, m
<1>4. \A i \in DOMAIN log : i \in DOMAIN new /\ new[i] = log[i]
  BY <1>1, <1>2, <1>3
<1>5. ASSUME NEW e, RefersInto(e, log) PROVE RefersInto(e, new)
  BY <1>4, <1>5 DEF RefersInto
<1>6. ASSUME NEW i \in DOMAIN new PROVE RefersInto(new[i], log)
  <2>1. CASE i <= n
    BY <1>1, <1>2, <1>3, <2>1 DEF LogOK
  <2>2. CASE ~(i <= n)
    <3>1. i - n \in 1..m /\ new[i] = es[i - n]
      BY <1>1, <1>2, <1>3, <2>2
    <3> QED
      BY <1>1, <3>1
  <2> QED
    BY <2>1, <2>2
<1> QED
  BY <1>2, <1>4, <1>5, <1>6 DEF LogOK, new

\* A kind is that of a use, of a result, or of what no tool is part of.
LEMMA KindsApart ==
  /\ EV!Uses \cap EV!Results = {} /\ "message" \notin EV!Uses \cup EV!Results
  /\ Plain \cap (EV!Uses \cup EV!Results) = {} /\ None \notin Nat
  BY EventAssumption DEF EV!Uses, EV!Results

\* A row of a tab has an event of the tab's thread, and each of the tab's events has
\* a row.
LEMMA RowsOfList ==
  ASSUME NEW ids
  PROVE  /\ \A g \in EV!mergeConsecutiveAgentEvents(ids) : g # {} /\ g \subseteq ids
         /\ \A i \in ids : \E g \in EV!mergeConsecutiveAgentEvents(ids) : i \in g
<1>1. \A i \in ids : i \in EV!Row(ids, i)
  BY DEF EV!Row
<1>2. \A i : EV!Row(ids, i) \subseteq ids
  BY DEF EV!Row
<1> QED
  BY <1>1, <1>2, Zenon DEF EV!mergeConsecutiveAgentEvents

LEMMA FirstOf ==
  ASSUME NEW g \in SUBSET Nat, g # {}
  PROVE  EV!First(g) \in g
  BY LeastOf DEF EV!First

LEMMA SelectedRow ==
  ASSUME NEW rows, NEW id
  PROVE  /\ EV!selectedDisplayEvent(rows, id) # {} =>
              id # None /\ id \in EV!selectedDisplayEvent(rows, id)
              /\ EV!selectedDisplayEvent(rows, id) \in rows
         /\ id # None /\ (\E g \in rows : id \in g) =>
              id \in EV!selectedDisplayEvent(rows, id)
  BY DEF EV!selectedDisplayEvent

\* What is in a list of a thread is an event of it.
LEMMA OfTheThread ==
  ASSUME LogOK(srv.log), NEW u
  PROVE  /\ EV!OfThread(u.thread) \subseteq DOMAIN srv.log /\ DOMAIN srv.log \subseteq Nat
         /\ \A i \in EV!OfThread(u.thread) : srv.log[i].thread = u.thread
         /\ EV!TranscriptVisible(u) \subseteq EV!OfThread(u.thread)
         /\ EV!filterDebugEvents(u) \subseteq EV!OfThread(u.thread)
<1>1. DOMAIN srv.log = 1..Len(srv.log) /\ Len(srv.log) \in Nat
  BY LenProperties DEF LogOK
<1> QED
  BY <1>1 DEF EV!OfThread, EV!TranscriptVisible, EV!filterDebugEvents

LEMMA Logged ==
  ASSUME EventsInv, NEW es \in Seq(Events), EV!Appended(es),
         \A k \in DOMAIN es : RefersInto(es[k], srv.log)
  PROVE  EventsInv'
<1>1. ui' = ui /\ srv' = [srv EXCEPT !.log = srv.log \o es]
  BY DEF EV!Appended
<1>2. "log" \in DOMAIN srv' /\ srv'.log = srv.log \o es
  BY <1>1 DEF EventsInv
<1>3. /\ LogOK(srv'.log)
      /\ \A i \in DOMAIN srv.log : i \in DOMAIN srv'.log /\ srv'.log[i] = srv.log[i]
  BY <1>2, LogGrows DEF EventsInv
<1>4. JumpOK(ui', srv'.log)
  BY <1>1, <1>3 DEF EventsInv, JumpOK
<1> QED
  BY <1>1, <1>2, <1>3, <1>4 DEF EventsInv

\* A step of the user that is no jump, or one to an event of the thread.
LEMMA Moved ==
  ASSUME EventsInv, NEW u \in EventsUi, EV!Move(u), srv' = srv
  PROVE  EventsInv'
<1>1. ui' \in EventsUi /\ ui'.jumped = None
  BY DEF EV!Move, EV!Do, EventsUi
<1> QED
  BY <1>1 DEF EventsInv, JumpOK

LEMMA EventsStep ==
  ASSUME EventsInv, EV!Next
  PROVE  EventsInv'
<1> DEFINE log == srv.log
<1>a. LogOK(srv.log) /\ ui \in EventsUi
  BY DEF EventsInv
<1>1. CASE EV!Emit
  <2>1. PICK k \in Plain \cup EV!Uses \cup {"message"}, th \in EV!Threads :
          EV!Appended(<<EV!Ev(k, None, th)>>)
    BY <1>1 DEF EV!Emit, EV!Threads
  <2> DEFINE e == EV!Ev(k, None, th)
  <2>2. e \in Events /\ e.kind \notin EV!Results /\ e.ref = None
    BY KindsApart DEF Events, EventKinds, EV!Ev
  <2> HIDE DEF e
  <2>3. <<e>> \in Seq(Events) /\ \A i \in DOMAIN <<e>> : <<e>>[i] = e
    BY <2>2
  <2>4. \A i \in DOMAIN <<e>> : RefersInto(<<e>>[i], srv.log)
    BY <2>2, <2>3 DEF RefersInto
  <2> QED
    BY <2>1, <2>3, <2>4, Logged DEF e
<1>2. CASE EV!Answer
  <2>a. PICK i \in DOMAIN log :
          /\ log[i].kind \in EV!Uses
          /\ \E ks \in EV!Answers(log[i].kind) :
               EV!Appended([k \in DOMAIN ks |-> EV!Ev(ks[k], i, log[i].thread)])
    BY <1>2 DEF EV!Answer
  <2>1. PICK ks \in EV!Answers(log[i].kind) :
          EV!Appended([k \in DOMAIN ks |-> EV!Ev(ks[k], i, log[i].thread)])
    BY <2>a
  <2>2. /\ ks \in {<<"tool_result">>, <<"mcp_tool_result">>,
                   <<"custom_tool_result", "tool_result">>}
    BY <2>a, <2>1 DEF EV!Answers, EV!Uses
  <2>3. /\ \E n \in Nat : DOMAIN ks = 1..n
        /\ \A k \in DOMAIN ks : ks[k] \in EV!Results
    <3>1. ks \in Seq(EV!Results)
      <4>1. CASE ks = <<"tool_result">>
        BY <4>1 DEF EV!Results
      <4>2. CASE ks = <<"mcp_tool_result">>
        BY <4>2 DEF EV!Results
      <4>3. CASE ks = <<"custom_tool_result", "tool_result">>
        BY <4>3 DEF EV!Results
      <4> QED
        BY <2>2, <4>1, <4>2, <4>3
    <3> QED
      BY <3>1, LenProperties, ElementOfSeq
  <2>4. PICK n \in Nat : DOMAIN ks = 1..n
    BY <2>3
  <2> HIDE DEF log
  <2>5. i \in Nat /\ log[i].thread \in EV!Threads
    <3>1. log[i] \in Events /\ i \in Nat
      BY <1>a, <2>a, LenProperties, ElementOfSeq DEF LogOK, log
    <3> QED
      BY <3>1 DEF Events
  <2> DEFINE E(k) == EV!Ev(ks[k], i, log[i].thread)
             es == [k \in DOMAIN ks |-> E(k)]
  <2>6. ASSUME NEW k \in DOMAIN ks
        PROVE  /\ E(k) \in Events /\ E(k).kind \in EV!Results /\ E(k).ref = i
               /\ E(k).thread = log[i].thread
    BY <2>3, <2>5 DEF Events, EventKinds, EV!Ev
  <2>7. EV!Appended(es)
    BY <2>1 DEF log
  <2> HIDE DEF E
  <2>8. es \in Seq(Events) /\ DOMAIN es = DOMAIN ks /\ \A k \in DOMAIN ks : es[k] = E(k)
    <3>1. es \in [1..n -> Events]
      BY <2>4, <2>6
    <3> QED
      BY <3>1, SeqDef
  <2> HIDE DEF es
  <2>9. \A k \in DOMAIN es : RefersInto(es[k], srv.log)
    BY <2>a, <2>6, <2>8 DEF RefersInto, log
  <2> QED
    BY <2>7, <2>8, <2>9, Logged
<1>3. CASE EV!ViewTab
  <2>1. PICK t \in {"transcript", "debug", "timeline"} :
          EV!Move([ui EXCEPT !.tab = t, !.categories = EV!Fresh.categories, !.types = {},
                             !.mode = "rendered"]) /\ srv' = srv
    BY <1>3 DEF EV!ViewTab
  <2>2. [ui EXCEPT !.tab = t, !.categories = EV!Fresh.categories, !.types = {},
                   !.mode = "rendered"] \in EventsUi
    BY <1>a DEF EventsUi, EV!Fresh
  <2> QED
    BY <2>1, <2>2, Moved
<1>4. CASE EV!ThreadTree
  <2>1. PICK th \in EV!Threads : EV!Move([ui EXCEPT !.thread = th]) /\ srv' = srv
    BY <1>4 DEF EV!ThreadTree
  <2>2. [ui EXCEPT !.thread = th] \in EventsUi
    BY <1>a DEF EventsUi
  <2> QED
    BY <2>1, <2>2, Moved
<1>5. CASE EV!toggleCategory
  <2>1. PICK c \in EV!Categories :
          EV!Move([ui EXCEPT !.categories = IF c \in @ THEN @ \ {c} ELSE @ \cup {c}])
          /\ srv' = srv
    BY <1>5 DEF EV!toggleCategory
  <2>2. [ui EXCEPT !.categories = IF c \in @ THEN @ \ {c} ELSE @ \cup {c}] \in EventsUi
    BY <1>a DEF EventsUi
  <2> QED
    BY <2>1, <2>2, Moved
\* The types to show are kinds of events.
<1>b. EV!TypesOf(ui) \subseteq EventKinds
  <2>1. \A i \in EV!OfThread(ui.thread) : i \in DOMAIN srv.log
    BY DEF EV!OfThread
  <2>2. \A i \in DOMAIN srv.log : srv.log[i].kind \in EventKinds
    <3>1. \A i \in DOMAIN srv.log : srv.log[i] \in Events
      BY <1>a, LenProperties, ElementOfSeq DEF LogOK
    <3> QED
      BY <3>1 DEF Events
  <2> QED
    BY <2>1, <2>2 DEF EV!TypesOf
<1>c. ASSUME NEW T \in SUBSET EventKinds PROVE [ui EXCEPT !.types = T] \in EventsUi
  BY <1>a DEF EventsUi
<1>6. CASE EV!toggleType
  <2>1. PICK k \in EV!TypesOf(ui) :
          EV!Move([ui EXCEPT !.types =
               IF @ # {} THEN IF k \in @ THEN @ \ {k} ELSE @ \cup {k}
               ELSE IF EV!isDefaultHidden(k)
               THEN {x \in EV!TypesOf(ui) : ~EV!isDefaultHidden(x)} \cup {k}
               ELSE {k}]) /\ srv' = srv
    BY <1>6 DEF EV!toggleType
  <2> DEFINE T == IF ui.types # {}
                  THEN IF k \in ui.types THEN ui.types \ {k} ELSE ui.types \cup {k}
                  ELSE IF EV!isDefaultHidden(k)
                  THEN {x \in EV!TypesOf(ui) : ~EV!isDefaultHidden(x)} \cup {k}
                  ELSE {k}
  <2>2. T \in SUBSET EventKinds
    BY <1>a, <1>b DEF EventsUi
  <2>3. EV!Move([ui EXCEPT !.types = T])
    BY <2>1
  <2> HIDE DEF T
  <2> QED
    BY <1>c, <2>1, <2>2, <2>3, Moved
<1>7. CASE EV!ResetFilter
  BY <1>7, <1>c, Moved DEF EV!ResetFilter
<1>8. CASE EV!ShowAllTypes
  BY <1>8, <1>b, <1>c, Moved DEF EV!ShowAllTypes
\* What a click selects.
<1>d. ASSUME NEW ids, ids \subseteq EV!OfThread(ui.thread),
             NEW g \in EV!mergeConsecutiveAgentEvents(ids)
      PROVE  EV!First(g) \in EV!OfThread(ui.thread) /\ EV!First(g) \in Nat
  <2>1. g # {} /\ g \subseteq EV!OfThread(ui.thread)
    BY <1>d, RowsOfList
  <2>2. EV!OfThread(ui.thread) \subseteq Nat
    BY <1>a, OfTheThread
  <2>3. g \in SUBSET Nat
    BY <2>1, <2>2
  <2> QED
    BY <2>1, <2>3, FirstOf
<1>9. CASE EV!TranscriptRow
  <2>1. PICK g \in EV!TranscriptRows(ui) :
          EV!Move([ui EXCEPT !.selected = EV!First(g)]) /\ srv' = srv
    BY <1>9 DEF EV!TranscriptRow
  <2>2. EV!First(g) \in Nat
    BY <1>a, <1>d, <2>1, OfTheThread DEF EV!TranscriptRows
  <2>3. [ui EXCEPT !.selected = EV!First(g)] \in EventsUi
    BY <1>a, <2>2 DEF EventsUi
  <2> QED
    BY <2>1, <2>3, Moved
<1>10. CASE EV!DebugRow
  <2>1. PICK g \in EV!DebugRows(ui) :
          EV!Move([ui EXCEPT !.debug = EV!First(g)]) /\ srv' = srv
    BY <1>10 DEF EV!DebugRow
  <2>2. EV!First(g) \in Nat
    BY <1>a, <1>d, <2>1, OfTheThread DEF EV!DebugRows
  <2>3. [ui EXCEPT !.debug = EV!First(g)] \in EventsUi
    BY <1>a, <2>2 DEF EventsUi
  <2> QED
    BY <2>1, <2>3, Moved
<1>11. CASE EV!EventDetailPane
  <2>1. /\ [ui EXCEPT !.mode = IF @ = "raw" THEN "rendered" ELSE "raw"] \in EventsUi
        /\ [ui EXCEPT !.selected = None] \in EventsUi
        /\ [ui EXCEPT !.debug = None] \in EventsUi
    BY <1>a DEF EventsUi
  <2>2. /\ \/ EV!Move([ui EXCEPT !.mode = IF @ = "raw" THEN "rendered" ELSE "raw"])
           \/ EV!Move([ui EXCEPT !.selected = None])
           \/ EV!Move([ui EXCEPT !.debug = None])
        /\ srv' = srv
    BY <1>11 DEF EV!EventDetailPane
  <2> QED
    BY <2>1, <2>2, Moved
<1>12. CASE EV!scrollToDebugEvent
  <2> DEFINE g == EV!selectedDisplayEvent(EV!TranscriptRows(ui), ui.selected)
             i == EV!First(g)
  <2>1. /\ ui.tab = "transcript" /\ EV!Pane(ui) /\ srv' = srv
        /\ EV!Do([ui EXCEPT !.tab = "debug", !.debug = i, !.jumped = i,
                            !.categories = EV!Fresh.categories, !.types = {},
                            !.mode = "rendered"])
    BY <1>12 DEF EV!scrollToDebugEvent
  <2>2. g # {}
    BY <2>1 DEF EV!Pane
  <2>3. g \in EV!TranscriptRows(ui)
    BY <2>2, SelectedRow
  <2>4. i \in EV!OfThread(ui.thread) /\ i \in Nat
    BY <1>a, <1>d, <2>3, OfTheThread DEF EV!TranscriptRows
  <2> HIDE DEF i
  <2>5. /\ ui' \in EventsUi /\ ui'.debug = i /\ ui'.jumped = i /\ ui'.types = {}
        /\ ui'.thread = ui.thread
    BY <1>a, <2>1, <2>4 DEF EventsUi, EV!Do, EV!Fresh
  <2>6. i \in DOMAIN srv.log /\ srv.log[i].thread = ui.thread
    BY <2>4 DEF EV!OfThread
  <2> QED
    BY <2>1, <2>5, <2>6 DEF EventsInv, JumpOK
<1> QED
  BY <1>1, <1>2, <1>3, <1>4, <1>5, <1>6, <1>7, <1>8, <1>9, <1>10, <1>11, <1>12
  DEF EV!Next

\* An event of the shown thread has a row in the debug tab when no filter is set.
LEMMA JumpIsShown ==
  ASSUME EventsInv
  PROVE  EV!JumpShowsEvent
<1> SUFFICES ASSUME ui.jumped # None, ~EV!isDefaultHidden(srv.log[ui.jumped].kind)
             PROVE  ui.jumped \in EV!selectedDisplayEvent(EV!DebugRows(ui), ui.debug)
  BY DEF EV!JumpShowsEvent
<1>1. /\ ui.debug = ui.jumped /\ ui.types = {}
      /\ ui.jumped \in DOMAIN srv.log /\ srv.log[ui.jumped].thread = ui.thread
  BY DEF EventsInv, JumpOK
<1>2. ui.jumped \in EV!filterDebugEvents(ui)
  BY <1>1 DEF EV!filterDebugEvents, EV!OfThread
<1>3. \E g \in EV!DebugRows(ui) : ui.jumped \in g
  BY <1>2, RowsOfList DEF EV!DebugRows
<1> QED
  BY <1>1, <1>3, SelectedRow

\* The result shown with a use answers it, and there is one when the log has one.
LEMMA ResultIsFound ==
  ASSUME LogOK(srv.log), NEW n \in EV!OfThread(ui.thread)
  PROVE  LET r == EV!ResultFor(EV!OfThread(ui.thread), n)
         IN \/ r # None /\ srv.log[r].ref = n
            \/ r = None /\ \A i \in DOMAIN srv.log : srv.log[i].ref # n
<1> DEFINE ids == EV!OfThread(ui.thread)
           A == {i \in ids : srv.log[i].kind \in EV!Results /\ EV!getToolCallId(i) = n}
           r == EV!ResultFor(ids, n)
<1>1. /\ DOMAIN srv.log = 1..Len(srv.log) /\ Len(srv.log) \in Nat
      /\ \A i \in DOMAIN srv.log : srv.log[i] \in Events
  BY LenProperties, ElementOfSeq DEF LogOK
<1>2. ids \subseteq DOMAIN srv.log /\ \A i \in ids : srv.log[i].thread = ui.thread
  BY DEF EV!OfThread
<1>3. r = IF A = {} THEN None ELSE CHOOSE i \in A : \A j \in A : j <= i
  BY DEF EV!ResultFor
<1>4. \A i \in A : srv.log[i].ref = n /\ i # None
  BY <1>1, <1>2, KindsApart DEF EV!getToolCallId
<1>5. CASE A # {}
  <2>1. A \in SUBSET (1..Len(srv.log))
    BY <1>1, <1>2
  <2> HIDE DEF A
  <2>2. \E i \in A : \A j \in A : j <= i
    BY <1>1, <1>5, <2>1, GreatestOf
  <2>3. r \in A
    BY <1>3, <1>5, <2>2
  <2> QED
    BY <1>4, <2>3
<1>6. CASE A = {}
  <2>1. ASSUME NEW i \in DOMAIN srv.log, srv.log[i].ref = n PROVE FALSE
    <3>1. n \in Nat /\ n # None
      BY <1>1, <1>2, KindsApart
    <3>2. /\ srv.log[i].kind \in EV!Results
          /\ srv.log[i].thread = srv.log[n].thread
      BY <2>1, <3>1 DEF LogOK, RefersInto
    <3>3. i \in ids
      BY <1>2, <3>2 DEF EV!OfThread
    <3>4. srv.log[i].kind \notin EV!Uses
      BY <3>2, KindsApart
    <3>5. EV!getToolCallId(i) = n
      BY <2>1, <3>4 DEF EV!getToolCallId
    <3> QED
      BY <1>6, <3>2, <3>3, <3>5
  <2> QED
    BY <1>3, <1>6, <2>1
<1> QED
  BY <1>5, <1>6

LEMMA BothAreShown ==
  ASSUME EventsInv
  PROVE  EV!BothSidesShown
<1> DEFINE d == EV!EventDetail(ui)
           i == ui.debug
           e == srv.log[i]
           ids == EV!OfThread(ui.thread)
           pairing == EV!pairToolResults(ids)
<1> SUFFICES ASSUME d # None
             PROVE  /\ e.kind \in EV!Results => d.use = e.ref
                    /\ e.kind \in EV!Uses =>
                         \/ d.result # None /\ srv.log[d.result].ref = i
                         \/ d.result = None /\ \A j \in DOMAIN srv.log : srv.log[j].ref # i
  BY Zenon DEF EV!BothSidesShown
<1>1. LogOK(srv.log)
  BY DEF EventsInv
<1>2. EV!selectedDisplayEvent(EV!DebugRows(ui), i) # {}
  BY DEF EV!EventDetail
<1>3. i \in ids
  <2>1. PICK g \in EV!DebugRows(ui) : i \in g
    BY <1>2, SelectedRow
  <2>2. g \subseteq EV!filterDebugEvents(ui)
    BY <2>1, RowsOfList DEF EV!DebugRows
  <2> QED
    BY <1>1, <2>1, <2>2, OfTheThread
<1>4. i \in DOMAIN srv.log /\ e.thread = ui.thread
  BY <1>3 DEF EV!OfThread
<1>5. e.kind \in EV!Uses \cup EV!Results => d = EV!resolveToolPair(i, pairing)
  BY <1>2 DEF EV!EventDetail
<1> HIDE DEF d
<1>6. CASE e.kind \in EV!Results
  <2>1. e.kind \notin EV!Uses
    BY <1>6, KindsApart
  <2>2. EV!getToolCallId(i) = e.ref
    BY <2>1 DEF EV!getToolCallId
  <2>3. e.ref \in DOMAIN srv.log /\ srv.log[e.ref].kind \in EV!Uses
        /\ srv.log[e.ref].thread = ui.thread
    BY <1>1, <1>4, <1>6 DEF LogOK, RefersInto
  <2>4. e.ref \in ids
    BY <2>3 DEF EV!OfThread
  <2>5. e.ref \in pairing.uses
    BY <2>3, <2>4 DEF EV!pairToolResults
  <2> HIDE DEF pairing
  <2>6. d.use = e.ref
    BY <1>5, <1>6, <2>1, <2>2, <2>5 DEF EV!resolveToolPair
  <2> QED
    BY <2>1, <2>6
<1>7. CASE e.kind \in EV!Uses
  <2>1. e.kind \notin EV!Results
    BY <1>7, KindsApart
  <2>2. pairing.results[i] = EV!ResultFor(ids, i)
    BY <1>4 DEF EV!pairToolResults
  <2> HIDE DEF pairing
  <2>3. d.result = EV!ResultFor(ids, i)
    BY <1>5, <1>7, <2>2 DEF EV!resolveToolPair
  <2>4. \/ EV!ResultFor(ids, i) # None /\ srv.log[EV!ResultFor(ids, i)].ref = i
        \/ /\ EV!ResultFor(ids, i) = None
           /\ \A j \in DOMAIN srv.log : srv.log[j].ref # i
    BY <1>1, <1>3, ResultIsFound
  <2> QED
    BY <2>1, <2>3, <2>4
<1> QED
  BY <1>6, <1>7

\* The event one jumps to from the transcript is the one the debug tab shows, and a
\* tool's use and its result are shown together (EventDetail.tsx, DebugTab.tsx and
\* tool-pairing.ts), for logs of any length.
THEOREM DebugShowsWhatIsSelected == Spec => []DebugShowsEvent
<1> DEFINE I == route = "events" => EventsInv
<1>1. Init => I
  <2> SUFFICES ASSUME Init, route = "events" PROVE EventsInv
    OBVIOUS
  <2>1. ui = EV!Fresh /\ srv = [log |-> <<>>]
    BY DEF Init, EV!Init
  <2>2. ui \in EventsUi /\ ui.jumped = None
    BY <2>1 DEF EventsUi, EV!Fresh, EV!Threads, EV!Categories
  <2>3. LogOK(srv.log)
    BY <2>1, EmptySeq DEF LogOK
  <2> QED
    BY <2>1, <2>2, <2>3 DEF EventsInv, JumpOK
<1>2. I /\ [Next]_vars => I'
  <2> SUFFICES ASSUME I, [Next]_vars, route' = "events" PROVE EventsInv'
    OBVIOUS
  <2>1. route = "events" /\ EventsInv
    BY DEF Next, vars
  <2>2. CASE UNCHANGED vars
    BY <2>1, <2>2 DEF vars, EventsInv, JumpOK
  <2>3. CASE Next
    <3>1. EV!Next
      BY <2>1, <2>3 DEF Next
    <3> QED
      BY <2>1, <3>1, EventsStep
  <2> QED
    BY <2>2, <2>3
<1>3. I => DebugShowsEvent
  BY JumpIsShown, BothAreShown DEF DebugShowsEvent, EV!DebugShowsEvent
<1> QED
  BY <1>1, <1>2, <1>3, PTL DEF Spec, vars

-----------------------------------------------------------------------------
(***************************************************************************)
(* The lists: ResourceList.                                                *)
(***************************************************************************)
RowSet == [id : Nat, at : Nat, archived : BOOLEAN]
PageSets == {S \in SUBSET RowSet : IsFiniteSet(S)}

\* The order of a list of kind k, which is that of creation or its reverse.
Bef(k, r, s) ==
  IF k \in {"environments", "agents"} THEN RL!Oldest(r, s) ELSE RL!Oldest(s, r)

LEMMA BefIsBefore == \A r, s : RL!Before(r, s) = Bef(ui.kind, r, s)
  BY DEF RL!Before, Bef

LEMMA BefOrders ==
  ASSUME NEW k, NEW a \in RowSet, NEW b \in RowSet, NEW c \in RowSet
  PROVE  /\ ~Bef(k, a, a)
         /\ Bef(k, a, b) /\ Bef(k, b, c) => Bef(k, a, c)
         /\ ~Bef(k, b, a) /\ Bef(k, b, c) => Bef(k, a, c)
         /\ ~Bef(k, a, b) /\ ~Bef(k, b, a) => a.id = b.id
  BY DEF Bef, RL!Oldest, RowSet

LEMMA BefReads ==
  ASSUME NEW k, NEW a, NEW b, NEW c, a.id = b.id, a.at = b.at
  PROVE  Bef(k, a, c) = Bef(k, b, c)
  BY DEF Bef, RL!Oldest

\* The operators of the list are those of the library.
LEMMA SameCardinality == \A S : RL!Cardinality(S) = Cardinality(S)
  BY Zenon DEF RL!Cardinality, Cardinality, RL!IsFiniteSet, IsFiniteSet

\* What comes before one row of a set and what comes before a later one.
LEMMA RankGrows ==
  ASSUME NEW S \in PageSets, NEW r \in S, NEW b \in S, Bef(ui.kind, r, b)
  PROVE  /\ RL!Rank(S, r) \in Nat /\ RL!Rank(S, b) \in Nat
         /\ RL!Rank(S, r) <= RL!Rank(S, b)
<1> DEFINE R == {s \in S : RL!Before(s, r)}
           B == {s \in S : RL!Before(s, b)}
<1>1. IsFiniteSet(S) /\ \A s \in S : s \in RowSet
  BY DEF PageSets
<1>2. IsFiniteSet(B) /\ Cardinality(B) \in Nat
  BY <1>1, FS_Subset, FS_CardinalityType
<1>3. R \in SUBSET B
  BY <1>1, BefIsBefore, BefOrders
<1>4. IsFiniteSet(R) /\ Cardinality(R) \in Nat /\ Cardinality(R) <= Cardinality(B)
  BY <1>2, <1>3, FS_Subset, FS_CardinalityType
<1>5. RL!Rank(S, r) = Cardinality(R) /\ RL!Rank(S, b) = Cardinality(B)
  BY SameCardinality DEF RL!Rank
<1> QED
  BY <1>2, <1>4, <1>5

\* A page has a last row.
LEMMA LastRowOf ==
  ASSUME NEW S \in PageSets, S # {}
  PROVE  /\ RL!LastRow(S) \in S
         /\ \A s \in S : ~RL!Before(RL!LastRow(S), s)
<1> DEFINE After(r) == {s \in S : RL!Before(r, s)}
           N == {Cardinality(After(r)) : r \in S}
<1>1. IsFiniteSet(S) /\ \A s \in S : s \in RowSet
  BY DEF PageSets
<1>2. \A r \in S : IsFiniteSet(After(r)) /\ Cardinality(After(r)) \in Nat
  BY <1>1, FS_Subset, FS_CardinalityType
<1>3. N \in SUBSET Nat /\ N # {}
  BY <1>2
<1>4. PICK m \in N : \A n \in N : m <= n
  BY <1>3, LeastOf
<1>5. PICK r \in S : m = Cardinality(After(r))
  OBVIOUS
<1>6. ASSUME NEW s \in S, RL!Before(r, s) PROVE FALSE
  <2>1. After(s) \in SUBSET After(r)
    BY <1>1, <1>6, BefIsBefore, BefOrders
  <2>2. s \in After(r) /\ s \notin After(s)
    BY <1>1, <1>6, BefIsBefore, BefOrders
  <2>3. IsFiniteSet(After(r)) /\ Cardinality(After(r)) \in Nat /\ Cardinality(After(s)) \in Nat
    BY <1>2
  <2>4. Cardinality(After(s)) \in N
    OBVIOUS
  <2> HIDE DEF N, After
  <2>5. /\ Cardinality(After(s)) <= Cardinality(After(r))
        /\ Cardinality(After(r)) = Cardinality(After(s)) => After(r) = After(s)
    BY <2>1, <2>3, FS_Subset
  <2> QED
    BY <1>4, <1>5, <2>2, <2>3, <2>4, <2>5
<1> QED
  BY <1>6 DEF RL!LastRow

\* The rows of the server, and what becomes of them: no row older than now is added,
\* and none stops being archived.
ListSrv(s) ==
  /\ s = [rows |-> s.rows, now |-> s.now, calls |-> s.calls]
  /\ s.rows \in PageSets /\ s.now \in Nat

Evolves(s, z) ==
  /\ s.now <= z.now
  /\ \A r \in z.rows :
       \/ r.at >= s.now
       \/ \E q \in s.rows : q.id = r.id /\ q.at = r.at /\ (q.archived => r.archived)

\* The pages of a list are in order, and have every row between those they list.
Sorted(k, pages) ==
  \A m, n \in DOMAIN pages :
    m < n => \A a \in pages[m], b \in pages[n] : Bef(k, a, b)

Has(pages, id) == \E j \in DOMAIN pages : \E a \in pages[j] : a.id = id

Dense(k, p, pages, t, rows) ==
  p.status # "archived" =>
    \A r \in rows : \A i \in DOMAIN pages : \A b \in pages[i] :
      RL!Matches(r, p) /\ r.at < t /\ Bef(k, r, b) => Has(pages, r.id)

ListOK(k, p, pages, t, s) ==
  /\ pages \in Seq(PageSets) /\ t \in Nat /\ t <= s.now
  /\ Sorted(k, pages) /\ Dense(k, p, pages, t, s.rows)

Ends(pages) == pages # <<>> /\ pages[Len(pages)] # {}

LEMMA NoPages ==
  ASSUME NEW k, NEW p, NEW s, ListSrv(s)
  PROVE  ListOK(k, p, <<>>, 0, s)
<1>1. DOMAIN <<>> = {} /\ <<>> \in Seq(PageSets)
  BY EmptySeq
<1>2. 0 <= s.now
  BY DEF ListSrv
<1> QED
  BY <1>1, <1>2 DEF ListOK, Sorted, Dense

\* What happens to the rows leaves a list as good as it was.
LEMMA StaysGood ==
  ASSUME NEW k, NEW p, NEW pages, NEW t, NEW s, NEW z, ListSrv(s), ListSrv(z),
         Evolves(s, z), ListOK(k, p, pages, t, s)
  PROVE  ListOK(k, p, pages, t, z)
<1>1. t \in Nat /\ t <= s.now /\ s.now \in Nat /\ z.now \in Nat /\ s.now <= z.now
  BY DEF ListOK, ListSrv, Evolves
<1>2. ASSUME p.status # "archived", NEW r \in z.rows, NEW i \in DOMAIN pages,
             NEW b \in pages[i], RL!Matches(r, p), r.at < t, Bef(k, r, b)
      PROVE  Has(pages, r.id)
  <2>1. r.at \in Nat
    BY DEF ListSrv, PageSets, RowSet
  <2>2. PICK q \in s.rows : q.id = r.id /\ q.at = r.at /\ (q.archived => r.archived)
    BY <1>1, <1>2, <2>1 DEF Evolves
  <2>3. RL!Matches(q, p)
    BY <1>2, <2>2 DEF RL!Matches
  <2>4. Bef(k, q, b)
    BY <1>2, <2>2, BefReads
  <2> QED
    BY <1>2, <2>2, <2>3, <2>4 DEF ListOK, Dense
<1>3. Dense(k, p, pages, t, z.rows)
  BY <1>2 DEF Dense
<1> QED
  BY <1>1, <1>3 DEF ListOK

\* A page that is read continues the list, and leaves no row out.
LEMMA PageAdded ==
  ASSUME ui.kind # "files", ListSrv(srv), NEW p, NEW got, NEW t0,
         ListOK(ui.kind, p, got, t0, srv), got # <<>> => Ends(got)
  PROVE  ListOK(ui.kind, p, Append(got, RL!ListPage(srv.rows, p, got)),
                IF got = <<>> THEN srv.now ELSE t0, srv)
<1> DEFINE k == ui.kind
           C == {r \in srv.rows : RL!Matches(r, p) /\ RL!Resumes(got, r)}
           P == RL!ListPage(srv.rows, p, got)
           new == Append(got, P)
           n == Len(got)
           last == RL!LastRow(got[n])
           t == IF got = <<>> THEN srv.now ELSE t0
<1>1. /\ got \in Seq(PageSets) /\ n \in Nat /\ DOMAIN got = 1..n
      /\ \A i \in 1..n : got[i] \in PageSets
  BY LenProperties, ElementOfSeq DEF ListOK
<1>2. IsFiniteSet(srv.rows) /\ srv.rows \in SUBSET RowSet /\ srv.now \in Nat
  BY DEF ListSrv, PageSets
<1>3. C \in PageSets
  <2>1. C \in SUBSET srv.rows
    OBVIOUS
  <2>2. IsFiniteSet(C)
    BY <1>2, <2>1, FS_Subset
  <2> QED
    BY <1>2, <2>1, <2>2 DEF PageSets
<1>4. P = RL!Limit(C)
  BY DEF RL!ListPage
<1>5. P \subseteq C
  BY <1>4 DEF RL!Limit
<1>6. P \in PageSets
  <2>1. IsFiniteSet(P)
    BY <1>3, <1>5, FS_Subset DEF PageSets
  <2> QED
    BY <1>3, <1>5, <2>1 DEF PageSets
\* A row before one of the page that could be on it is.
<1>7. ASSUME NEW r \in C, NEW b \in P, Bef(k, r, b) PROVE r \in P
  <2>1. CASE ui.kind = "memory_stores"
    BY <1>4, <2>1 DEF RL!Limit
  <2>2. CASE ui.kind # "memory_stores"
    <3>1. P = {x \in C : RL!Rank(C, x) < PageSize}
      BY <1>4, <2>2 DEF RL!Limit
    <3>2. b \in C /\ RL!Rank(C, b) < PageSize
      BY <3>1
    <3> HIDE DEF C, P, k
    <3>3. /\ RL!Rank(C, r) \in Nat /\ RL!Rank(C, b) \in Nat
          /\ RL!Rank(C, r) <= RL!Rank(C, b)
      BY <1>3, <1>7, <3>2, RankGrows DEF k
    <3>4. RL!Rank(C, r) < PageSize
      BY <3>2, <3>3, ConsoleAssumption
    <3> QED
      BY <3>1, <3>4
  <2> QED
    BY <2>1, <2>2
\* The list so far ends with a row.
<1>8. ASSUME got # <<>>
      PROVE  /\ n \in 1..n /\ last \in got[n] /\ last \in RowSet
             /\ \A s \in got[n] : ~Bef(k, last, s)
             /\ \A r : RL!Resumes(got, r) <=> Bef(k, last, r)
             /\ \A i \in 1..n : \A a \in got[i] :
                  a \in RowSet /\ (i < n => Bef(k, a, last))
  <2>1. n # 0
    BY <1>1, <1>8, EmptySeq
  <2>2. n \in 1..n
    BY <1>1, <2>1
  <2>3. got[n] \in PageSets /\ got[n] # {}
    BY <1>1, <1>8, <2>2 DEF Ends
  <2>4. last \in got[n] /\ \A s \in got[n] : ~Bef(k, last, s)
    BY <2>3, LastRowOf, BefIsBefore
  <2>5. RL!Last(got) = got[n]
    BY DEF RL!Last
  <2>6. \A r : RL!Resumes(got, r) <=> Bef(k, last, r)
    <3> SUFFICES ASSUME NEW r PROVE RL!Resumes(got, r) <=> RL!Before(last, r)
      BY BefIsBefore
    <3>1. RL!Resumes(got, r) <=> RL!Before(RL!LastRow(RL!Last(got)), r)
      BY <1>8 DEF RL!Resumes
    <3> QED
      BY <2>5, <3>1
  <2>7. \A i \in 1..n : \A a \in got[i] : a \in RowSet
    BY <1>1 DEF PageSets
  <2> HIDE DEF n, last, k
  <2>8. ASSUME NEW i \in 1..n, NEW a \in got[i], i < n PROVE Bef(k, a, last)
    BY <1>1, <2>2, <2>4, <2>8 DEF ListOK, Sorted, k
  <2> QED
    BY <2>2, <2>4, <2>6, <2>7, <2>8
<1> HIDE DEF P
<1>9. /\ new \in Seq(PageSets) /\ DOMAIN new = 1..(n + 1)
      /\ \A i \in 1..n : new[i] = got[i]
      /\ new[n + 1] = P
  <2>1. /\ new \in Seq(PageSets) /\ Len(new) = n + 1
        /\ \A i \in 1..n : new[i] = got[i]
        /\ new[n + 1] = P
    BY <1>1, <1>6, AppendProperties
  <2> QED
    BY <2>1, LenProperties
<1> HIDE DEF new, n, last, k, t
<1>10. \A b \in P : b \in RowSet /\ b \in srv.rows
  BY <1>5, <1>6 DEF PageSets
<1>11. got = <<>> => n = 0
  BY DEF n
\* In order.
<1>12. ASSUME NEW i \in 1..n, NEW a \in got[i], NEW b \in P
       PROVE  Bef(k, a, b)
  <2>1. got # <<>>
    BY <1>1, <1>11
  <2>2. Bef(k, last, b) /\ a \in RowSet /\ b \in RowSet /\ last \in RowSet
    BY <1>5, <1>8, <1>10, <2>1
  <2>3. CASE i = n
    <3>1. ~Bef(k, last, a)
      BY <1>8, <2>1, <2>3
    <3> QED
      BY <2>2, <3>1, BefOrders
  <2>4. CASE i # n
    <3>1. Bef(k, a, last)
      BY <1>1, <1>8, <2>1, <2>4
    <3> QED
      BY <2>2, <3>1, BefOrders
  <2> QED
    BY <2>3, <2>4
<1>13. Sorted(k, new)
  <2> SUFFICES ASSUME NEW i \in 1..(n + 1), NEW j \in 1..(n + 1), i < j,
                      NEW a \in new[i], NEW b \in new[j]
               PROVE  Bef(k, a, b)
    BY <1>9 DEF Sorted
  <2>1. CASE j = n + 1
    <3>1. i \in 1..n /\ a \in got[i] /\ b \in P
      BY <1>1, <1>9, <2>1
    <3> QED
      BY <1>12, <3>1
  <2>2. CASE j # n + 1
    <3>1. i \in 1..n /\ j \in 1..n /\ a \in got[i] /\ b \in got[j]
      BY <1>1, <1>9, <2>2
    <3> QED
      BY <1>1, <3>1 DEF ListOK, Sorted, k
  <2> QED
    BY <2>1, <2>2
\* Without gaps.
<1>14. \A id : Has(got, id) => Has(new, id)
  BY <1>1, <1>9 DEF Has
<1>15. Dense(k, p, new, t, srv.rows)
  <2> SUFFICES ASSUME p.status # "archived", NEW r \in srv.rows, NEW i \in 1..(n + 1),
                      NEW b \in new[i], RL!Matches(r, p), r.at < t, Bef(k, r, b)
               PROVE  Has(new, r.id)
    BY <1>9 DEF Dense
  <2>1. r \in RowSet
    BY <1>2
  <2>2. ASSUME NEW j \in 1..n, NEW c \in got[j], Bef(k, r, c) PROVE Has(new, r.id)
    <3>1. got # <<>>
      BY <1>1, <1>11
    <3>2. t = t0
      BY <3>1 DEF t
    <3> QED
      BY <1>1, <1>14, <2>2, <3>2 DEF ListOK, Dense, k
  <2>3. CASE i # n + 1
    <3>1. i \in 1..n /\ b \in got[i]
      BY <1>1, <1>9, <2>3
    <3> QED
      BY <2>2, <3>1
  <2>4. CASE i = n + 1 /\ RL!Resumes(got, r)
    <3>1. b \in P /\ r \in C
      BY <1>9, <2>4
    <3>2. r \in P
      BY <1>7, <3>1
    <3>3. n + 1 \in DOMAIN new /\ r \in new[n + 1]
      BY <1>1, <1>9, <3>2
    <3> QED
      BY <3>3 DEF Has
  <2>5. CASE i = n + 1 /\ ~RL!Resumes(got, r)
    <3>1. got # <<>>
      BY <2>5 DEF RL!Resumes
    <3>2. ~Bef(k, last, r) /\ n \in 1..n /\ last \in got[n] /\ last \in RowSet
      BY <1>8, <2>5, <3>1
    <3>3. CASE Bef(k, r, last)
      BY <2>2, <3>2, <3>3
    <3>4. CASE ~Bef(k, r, last)
      <4>1. last.id = r.id
        BY <2>1, <3>2, <3>4, BefOrders
      <4>2. Has(got, r.id)
        BY <1>1, <3>2, <4>1 DEF Has
      <4> QED
        BY <1>14, <4>2
    <3> QED
      BY <3>3, <3>4
  <2> QED
    BY <2>3, <2>4, <2>5
<1>16. t \in Nat /\ t <= srv.now
  BY <1>2 DEF t, ListOK
<1> QED
  BY <1>9, <1>13, <1>15, <1>16 DEF ListOK, new, t, P, k

\* An entry of the cache; what is fetched is as good as what is listed.
SlotOK(k, p, s, v) ==
  /\ s = [pages |-> s.pages, asOf |-> s.asOf, more |-> s.more, fetch |-> s.fetch]
  /\ s.fetch = [want |-> s.fetch.want, got |-> s.fetch.got, asOf |-> s.fetch.asOf]
  /\ ListOK(k, p, s.pages, s.asOf, v) /\ ListOK(k, p, s.fetch.got, s.fetch.asOf, v)
  /\ s.more => Ends(s.pages)
  /\ s.fetch.got # <<>> /\ Len(s.fetch.got) < s.fetch.want => Ends(s.fetch.got)

ListUi(u) ==
  /\ u = [page |-> u.page, kind |-> u.kind, params |-> u.params, shown |-> u.shown,
          cache |-> u.cache, dialog |-> u.dialog]
  /\ u.params \in DOMAIN u.cache

GoodUi(u, v) ==
  /\ ListUi(u)
  /\ u.kind # "files" => \A p \in DOMAIN u.cache : SlotOK(u.kind, p, u.cache[p], v)

ListInv == ListSrv(srv) /\ GoodUi(ui, srv)

LEMMA SlotFetch ==
  ASSUME NEW k, NEW p, NEW s, NEW v, SlotOK(k, p, s, v), NEW n, NEW got, NEW t,
         ListOK(k, p, got, t, v), got # <<>> /\ Len(got) < n => Ends(got)
  PROVE  SlotOK(k, p, [s EXCEPT !.fetch = RL!Fetch(n, got, t)], v)
<1> DEFINE f == RL!Fetch(n, got, t)
           z == [s EXCEPT !.fetch = f]
<1>1. f = [want |-> n, got |-> got, asOf |-> t]
  BY DEF RL!Fetch
<1>2. f = [want |-> f.want, got |-> f.got, asOf |-> f.asOf]
      /\ f.want = n /\ f.got = got /\ f.asOf = t
  BY <1>1
<1> HIDE DEF f
<1>3. z = [pages |-> s.pages, asOf |-> s.asOf, more |-> s.more, fetch |-> f]
  BY DEF SlotOK
<1>4. /\ z = [pages |-> z.pages, asOf |-> z.asOf, more |-> z.more, fetch |-> z.fetch]
      /\ z.pages = s.pages /\ z.asOf = s.asOf /\ z.more = s.more /\ z.fetch = f
  BY <1>3
<1> HIDE DEF z
<1>5. SlotOK(k, p, z, v)
  BY <1>2, <1>4 DEF SlotOK
<1> QED
  BY <1>5 DEF z, f

LEMMA SlotFull ==
  ASSUME NEW k, NEW p, NEW v, ListSrv(v), NEW pages, NEW t, ListOK(k, p, pages, t, v),
         NEW more, more => Ends(pages), NEW n
  PROVE  SlotOK(k, p, RL!Slot(pages, t, more, RL!Fetch(n, <<>>, 0)), v)
<1> DEFINE f == RL!Fetch(n, <<>>, 0)
           z == RL!Slot(pages, t, more, f)
<1>1. f = [want |-> f.want, got |-> f.got, asOf |-> f.asOf] /\ f.got = <<>> /\ f.asOf = 0
  BY DEF RL!Fetch
<1> HIDE DEF f
<1>2. /\ z = [pages |-> z.pages, asOf |-> z.asOf, more |-> z.more, fetch |-> z.fetch]
      /\ z.pages = pages /\ z.asOf = t /\ z.more = more /\ z.fetch = f
  BY DEF RL!Slot
<1> HIDE DEF z
<1>3. ListOK(k, p, <<>>, 0, v)
  BY NoPages
<1>4. SlotOK(k, p, z, v)
  BY <1>1, <1>2, <1>3 DEF SlotOK
<1> QED
  BY <1>4 DEF z, f

\* One entry is replaced.
Put(u, p, s) == [u EXCEPT !.cache[p] = s]

LEMMA SlotPut ==
  ASSUME NEW u, NEW v, GoodUi(u, v), NEW p \in DOMAIN u.cache, NEW s,
         u.kind # "files" => SlotOK(u.kind, p, s, v)
  PROVE  GoodUi(Put(u, p, s), v) /\ Put(u, p, s).kind = u.kind
<1> DEFINE c == [u.cache EXCEPT ![p] = s]
           w == Put(u, p, s)
<1>1. DOMAIN c = DOMAIN u.cache /\ c[p] = s /\ \A q \in DOMAIN c : q # p => c[q] = u.cache[q]
  OBVIOUS
<1>2. w = [u EXCEPT !.cache = c]
  BY DEF Put, GoodUi, ListUi
<1> HIDE DEF c, w
<1>3. w = [page |-> u.page, kind |-> u.kind, params |-> u.params, shown |-> u.shown,
           cache |-> c, dialog |-> u.dialog]
  BY <1>2 DEF GoodUi, ListUi
<1>4. /\ w = [page |-> w.page, kind |-> w.kind, params |-> w.params, shown |-> w.shown,
              cache |-> w.cache, dialog |-> w.dialog]
      /\ w.kind = u.kind /\ w.params = u.params /\ w.cache = c
  BY <1>3
<1>5. ListUi(w)
  BY <1>1, <1>4 DEF GoodUi, ListUi
<1> QED
  BY <1>1, <1>4, <1>5 DEF GoodUi, w

\* Anything but the cache and the filters may change.
LEMMA GoodKept ==
  ASSUME NEW u, NEW v, GoodUi(u, v), NEW w,
         w = [page |-> w.page, kind |-> w.kind, params |-> w.params, shown |-> w.shown,
              cache |-> w.cache, dialog |-> w.dialog],
         w.kind = u.kind, w.cache = u.cache, w.params \in DOMAIN u.cache
  PROVE  GoodUi(w, v)
  BY DEF GoodUi, ListUi

LEMMA GoodRendered ==
  ASSUME NEW u, NEW v, GoodUi(u, v)
  PROVE  GoodUi(RL!Rendered(u), v) /\ RL!Rendered(u).kind = u.kind
<1>1. CASE RL!Rendered(u) = u
  BY <1>1
<1>2. CASE RL!Rendered(u) = [u EXCEPT !.shown = RL!Current(u).pages]
  <2> DEFINE x == RL!Current(u).pages
             w == [u EXCEPT !.shown = x]
  <2> HIDE DEF x
  <2>1. w = [page |-> u.page, kind |-> u.kind, params |-> u.params, shown |-> x,
             cache |-> u.cache, dialog |-> u.dialog]
    BY DEF GoodUi, ListUi
  <2>2. /\ w = [page |-> w.page, kind |-> w.kind, params |-> w.params, shown |-> w.shown,
                cache |-> w.cache, dialog |-> w.dialog]
        /\ w.kind = u.kind /\ w.params = u.params /\ w.cache = u.cache
    BY <2>1
  <2>3. RL!Rendered(u) = w
    BY <1>2 DEF x
  <2> HIDE DEF w
  <2>4. w.params \in DOMAIN u.cache
    BY <2>2 DEF GoodUi, ListUi
  <2> QED
    BY <2>2, <2>3, <2>4, GoodKept
<1> QED
  BY <1>1, <1>2 DEF RL!Rendered

\* A fetch replaces the one of the current list.
Refetch(u, n, got, t) ==
  RL!With(u, [RL!Current(u) EXCEPT !.fetch = RL!Fetch(n, got, t)])

LEMMA GoodFetch ==
  ASSUME NEW u, NEW v, ListSrv(v), GoodUi(u, v), NEW n, NEW got, NEW t,
         u.kind # "files" =>
           ListOK(u.kind, u.params, got, t, v)
           /\ (got # <<>> /\ Len(got) < n => Ends(got))
  PROVE  GoodUi(Refetch(u, n, got, t), v) /\ Refetch(u, n, got, t).kind = u.kind
<1> DEFINE p == u.params
           s == u.cache[p]
           z == [s EXCEPT !.fetch = RL!Fetch(n, got, t)]
<1>1. p \in DOMAIN u.cache
  BY DEF GoodUi, ListUi
<1>2. u.kind # "files" => SlotOK(u.kind, p, s, v)
  BY <1>1 DEF GoodUi
<1> HIDE DEF s
<1>3. u.kind # "files" => SlotOK(u.kind, p, z, v)
  BY <1>2, SlotFetch
<1>4. Refetch(u, n, got, t) = Put(u, p, z)
  BY DEF Refetch, RL!With, RL!Current, Put, s
<1> HIDE DEF z, p
<1> QED
  BY <1>1, <1>3, <1>4, SlotPut

LEMMA GoodRefresh ==
  ASSUME NEW u, NEW v, ListSrv(v), GoodUi(u, v)
  PROVE  GoodUi(RL!refresh(u), v) /\ RL!refresh(u).kind = u.kind
<1> DEFINE m == Len(RL!Current(u).pages)
           n == IF m = 0 THEN 1 ELSE m
<1>1. RL!refresh(u) = Refetch(u, n, <<>>, 0)
  BY DEF RL!refresh, Refetch
<1> HIDE DEF n
<1>2. ListOK(u.kind, u.params, <<>>, 0, v)
  BY NoPages
<1> QED
  BY <1>1, <1>2, GoodFetch

LEMMA GoodFiltered ==
  ASSUME NEW u, NEW v, ListSrv(v), GoodUi(u, v), NEW p
  PROVE  GoodUi(RL!Filtered(u, p), v) /\ RL!Filtered(u, p).kind = u.kind
<1> DEFINE w == [u EXCEPT !.params = p]
<1>1. w = [page |-> u.page, kind |-> u.kind, params |-> p, shown |-> u.shown,
           cache |-> u.cache, dialog |-> u.dialog]
  BY DEF GoodUi, ListUi
<1>2. /\ w = [page |-> w.page, kind |-> w.kind, params |-> w.params, shown |-> w.shown,
              cache |-> w.cache, dialog |-> w.dialog]
      /\ w.page = u.page /\ w.kind = u.kind /\ w.params = p /\ w.shown = u.shown
      /\ w.cache = u.cache /\ w.dialog = u.dialog
  BY <1>1
<1>3. CASE p \in DOMAIN u.cache
  <2>1. RL!Filtered(u, p) = RL!Rendered(w)
    BY <1>3 DEF RL!Filtered
  <2> HIDE DEF w
  <2>2. GoodUi(w, v)
    BY <1>2, <1>3, GoodKept
  <2> QED
    BY <1>2, <2>1, <2>2, GoodRendered
<1>4. CASE p \notin DOMAIN u.cache
  <2> DEFINE c == [x \in DOMAIN u.cache \cup {p} |->
                     IF x = p THEN RL!Cold ELSE u.cache[x]]
             z == [w EXCEPT !.cache = c]
  <2>1. RL!Filtered(u, p) = z
    BY <1>4 DEF RL!Filtered
  <2>2. /\ DOMAIN c = DOMAIN u.cache \cup {p} /\ c[p] = RL!Cold
        /\ \A x \in DOMAIN u.cache : c[x] = u.cache[x]
    BY <1>4
  <2> HIDE DEF c, w
  <2>3. z = [page |-> u.page, kind |-> u.kind, params |-> p, shown |-> u.shown,
             cache |-> c, dialog |-> u.dialog]
    BY <1>2
  <2>4. /\ z = [page |-> z.page, kind |-> z.kind, params |-> z.params, shown |-> z.shown,
                cache |-> z.cache, dialog |-> z.dialog]
        /\ z.kind = u.kind /\ z.params = p /\ z.cache = c
    BY <2>3
  <2> HIDE DEF z
  <2>5. SlotOK(u.kind, p, RL!Cold, v)
    <3>1. RL!Cold = RL!Slot(<<>>, 0, FALSE, RL!Fetch(1, <<>>, 0))
      BY DEF RL!Cold
    <3> QED
      BY <3>1, NoPages, SlotFull
  <2>6. GoodUi(z, v)
    BY <2>2, <2>4, <2>5 DEF GoodUi, ListUi
  <2> QED
    BY <2>1, <2>4, <2>6
<1> QED
  BY <1>3, <1>4

LEMMA GoodStays ==
  ASSUME NEW u, NEW s, NEW z, ListSrv(s), ListSrv(z), Evolves(s, z), GoodUi(u, s)
  PROVE  GoodUi(u, z)
<1>1. ASSUME u.kind # "files", NEW p \in DOMAIN u.cache
      PROVE  SlotOK(u.kind, p, u.cache[p], z)
  <2> DEFINE c == u.cache[p]
             k == u.kind
  <2>1. SlotOK(k, p, c, s)
    BY <1>1 DEF GoodUi
  <2> HIDE DEF c, k
  <2>2. ListOK(k, p, c.pages, c.asOf, z) /\ ListOK(k, p, c.fetch.got, c.fetch.asOf, z)
    BY <2>1, StaysGood DEF SlotOK
  <2>3. SlotOK(k, p, c, z)
    BY <2>1, <2>2 DEF SlotOK
  <2> QED
    BY <2>3 DEF c, k
<1> QED
  BY <1>1 DEF GoodUi

LEMMA ListStep ==
  ASSUME ListInv, RL!Next
  PROVE  ListInv'
<1>a. ListSrv(srv) /\ GoodUi(ui, srv)
  BY DEF ListInv
<1>b. ListUi(ui) /\ ui.params \in DOMAIN ui.cache
  BY <1>a DEF GoodUi, ListUi
<1> SUFFICES ListSrv(srv') /\ GoodUi(ui', srv')
  BY DEF ListInv, ListSrv, GoodUi, ListUi
\* Requests come and go: the rows stay.
<1>c. ASSUME NEW c, srv' = [srv EXCEPT !.calls = c], GoodUi(ui', srv)
      PROVE  ListSrv(srv') /\ GoodUi(ui', srv')
  <2>1. srv' = [rows |-> srv.rows, now |-> srv.now, calls |-> c]
    BY <1>a, <1>c DEF ListSrv
  <2>2. ListSrv(srv') /\ srv'.rows = srv.rows /\ srv'.now = srv.now
    BY <1>a, <2>1 DEF ListSrv
  <2>3. Evolves(srv, srv')
    BY <1>a, <2>2 DEF Evolves, ListSrv
  <2> QED
    BY <1>a, <1>c, <2>2, <2>3, GoodStays
\* A dialog opens or closes, the page is left.
<1>d. ASSUME NEW d, NEW g, ui' = [ui EXCEPT !.page = g, !.dialog = d] PROVE GoodUi(ui', srv)
  <2>1. ui' = [page |-> g, kind |-> ui.kind, params |-> ui.params, shown |-> ui.shown,
               cache |-> ui.cache, dialog |-> d]
    BY <1>b, <1>d DEF ListUi
  <2>2. /\ ui' = [page |-> ui'.page, kind |-> ui'.kind, params |-> ui'.params,
                  shown |-> ui'.shown, cache |-> ui'.cache, dialog |-> ui'.dialog]
        /\ ui'.kind = ui.kind /\ ui'.params = ui.params /\ ui'.cache = ui.cache
    BY <2>1
  <2> HIDE <2>1
  <2> QED
    BY <1>a, <1>b, <2>2, GoodKept
<1>1. CASE RL!PageArrives
  <2>1. PICK p \in DOMAIN ui.cache :
          LET f == ui.cache[p].fetch
              got == Append(f.got, RL!ListPage(srv.rows, p, f.got))
              more == RL!Follows(srv.rows, p, got)
              t == IF f.got = <<>> THEN srv.now ELSE f.asOf
          IN /\ Len(f.got) < f.want
             /\ ui' = RL!Rendered([ui EXCEPT !.cache[p] =
                        IF Len(got) >= f.want \/ ~more THEN RL!Slot(got, t, more, RL!NoFetch)
                        ELSE [@ EXCEPT !.fetch = RL!Fetch(f.want, got, t)]])
    BY <1>1 DEF RL!PageArrives
  <2> DEFINE s == ui.cache[p]
             f == s.fetch
             got == Append(f.got, RL!ListPage(srv.rows, p, f.got))
             more == RL!Follows(srv.rows, p, got)
             t == IF f.got = <<>> THEN srv.now ELSE f.asOf
             a == RL!Slot(got, t, more, RL!NoFetch)
             b == [s EXCEPT !.fetch = RL!Fetch(f.want, got, t)]
             z == IF Len(got) >= f.want \/ ~more THEN a ELSE b
  <2>2. ui' = RL!Rendered(Put(ui, p, z)) /\ Len(f.got) < f.want
    BY <2>1 DEF Put
  <2>3. srv' = srv
    BY <1>1 DEF RL!PageArrives
  <2>4. ASSUME ui.kind # "files" PROVE SlotOK(ui.kind, p, z, srv)
    <3>1. SlotOK(ui.kind, p, s, srv)
      BY <1>a, <2>4 DEF GoodUi
    <3> HIDE DEF s
    <3>2. /\ ListOK(ui.kind, p, f.got, f.asOf, srv)
          /\ f.got # <<>> => Ends(f.got)
      BY <2>2, <3>1 DEF SlotOK
    <3>3. ListOK(ui.kind, p, got, t, srv)
      BY <1>a, <2>4, <3>2, PageAdded
    <3>4. got # <<>>
      <4>1. f.got \in Seq(PageSets) /\ got \in Seq(PageSets)
        BY <3>2, <3>3 DEF ListOK
      <4>2. Len(got) = Len(f.got) + 1 /\ Len(f.got) \in Nat
        BY <4>1, LenProperties
      <4> HIDE DEF got
      <4> QED
        BY <4>2, EmptySeq
    <3> HIDE DEF got, f
    <3>5. more => Ends(got)
      BY <3>4 DEF RL!Follows, RL!Last, Ends
    <3> HIDE DEF more, t
    <3>6. SlotOK(ui.kind, p, a, srv)
      <4>1. RL!NoFetch = RL!Fetch(0, <<>>, 0)
        BY DEF RL!NoFetch, RL!Fetch
      <4> QED
        BY <1>a, <3>3, <3>5, <4>1, SlotFull
    <3>7. CASE Len(got) >= f.want \/ ~more
      BY <3>6, <3>7
    <3>8. CASE ~(Len(got) >= f.want \/ ~more)
      <4>1. Ends(got)
        BY <3>5, <3>8
      <4>2. SlotOK(ui.kind, p, b, srv)
        BY <3>1, <3>3, <4>1, SlotFetch
      <4> QED
        BY <3>8, <4>2
    <3> QED
      BY <3>7, <3>8
  <2> HIDE DEF z
  <2>5. GoodUi(Put(ui, p, z), srv)
    BY <1>a, <2>4, SlotPut
  <2> QED
    BY <1>a, <2>2, <2>3, <2>5, GoodRendered
<1>2. CASE RL!FetchFails
  <2>1. ui' = Refetch(ui, 0, <<>>, 0) /\ srv' = srv
    BY <1>2 DEF RL!FetchFails, RL!Do, Refetch, RL!NoFetch, RL!Fetch
  <2>2. ListOK(ui.kind, ui.params, <<>>, 0, srv)
    BY <1>a, NoPages
  <2> QED
    BY <1>a, <2>1, <2>2, GoodFetch
<1>3. CASE RL!LoadMoreRow
  <2> DEFINE s == ui.cache[ui.params]
             n == Len(s.pages) + 1
  <2>1. /\ ui' = Refetch(ui, n, s.pages, s.asOf) /\ srv' = srv
        /\ s.more
    BY <1>3 DEF RL!LoadMoreRow, RL!Do, Refetch, RL!Current
  <2>2. ui.kind # "files" => SlotOK(ui.kind, ui.params, s, srv)
    BY <1>a, <1>b DEF GoodUi
  <2> HIDE DEF s, n
  <2>3. ui.kind # "files" =>
          ListOK(ui.kind, ui.params, s.pages, s.asOf, srv) /\ Ends(s.pages)
    BY <2>1, <2>2 DEF SlotOK
  <2> QED
    BY <1>a, <2>1, <2>3, GoodFetch
<1>4. CASE RL!Focus
  BY <1>a, <1>4, GoodRefresh DEF RL!Focus, RL!Do
<1>5. CASE RL!StatusChip \/ RL!CreatedFilterChip \/ RL!Search
  <2>1. PICK p : RL!Filter(p)
    BY <1>5 DEF RL!StatusChip, RL!CreatedFilterChip, RL!Search
  <2>2. srv' = srv
    BY <1>5 DEF RL!StatusChip, RL!CreatedFilterChip, RL!Search
  <2>3. ui' = RL!Filtered(ui, p)
    BY <2>1 DEF RL!Filter, RL!Do
  <2> QED
    BY <1>a, <2>2, <2>3, GoodFiltered
<1>6. CASE RL!OpenCreate \/ RL!CloseCreate \/ RL!Name \/ RL!OpenRow
  <2>1. PICK d, g : ui' = [ui EXCEPT !.page = g, !.dialog = d]
    <3>1. \A e : [ui EXCEPT !.dialog = e] = [ui EXCEPT !.page = ui.page, !.dialog = e]
      BY <1>b DEF ListUi
    <3>2. \A e : [ui EXCEPT !.page = e] = [ui EXCEPT !.page = e, !.dialog = ui.dialog]
      BY <1>b DEF ListUi
    <3>3. CASE RL!OpenCreate
      BY <3>1, <3>3 DEF RL!OpenCreate, RL!Do
    <3>4. CASE RL!CloseCreate
      BY <3>1, <3>4 DEF RL!CloseCreate, RL!Do
    <3>5. CASE RL!Name
      BY <3>1, <3>5 DEF RL!Name, RL!Do
    <3>6. CASE RL!OpenRow
      BY <3>2, <3>6 DEF RL!OpenRow, RL!Do
    <3> QED
      BY <1>6, <3>3, <3>4, <3>5, <3>6
  <2>2. srv' = srv
    BY <1>6 DEF RL!OpenCreate, RL!CloseCreate, RL!Name, RL!OpenRow
  <2> QED
    BY <1>a, <1>d, <2>1, <2>2
<1>7. CASE \/ RL!create \/ RL!createVault \/ RL!createStore \/ RL!AgentCreated
           \/ RL!EnvironmentMenu \/ RL!VaultMenu \/ RL!StoreMenu \/ RL!AgentMenu
           \/ RL!remove
  <2>1. PICK c : RL!Called(c)
    BY <1>7 DEF RL!create, RL!createVault, RL!createStore, RL!AgentCreated, RL!RowMenu,
                RL!EnvironmentMenu, RL!VaultMenu, RL!StoreMenu, RL!AgentMenu, RL!remove
  <2>2. ui' = ui
    BY <1>7 DEF RL!create, RL!createVault, RL!createStore, RL!AgentCreated, RL!RowMenu,
                RL!EnvironmentMenu, RL!VaultMenu, RL!StoreMenu, RL!AgentMenu, RL!remove,
                RL!Do
  <2>3. \E c2 : srv' = [srv EXCEPT !.calls = c2]
    BY <2>1 DEF RL!Called
  <2> QED
    BY <1>a, <1>c, <2>2, <2>3
<1>8. CASE RL!CallFails
  <2>1. (\E c2 : srv' = [srv EXCEPT !.calls = c2]) /\ ui' = ui
    BY <1>8 DEF RL!CallFails
  <2> QED
    BY <1>a, <1>c, <2>1
\* The rows change.
<1>e. ASSUME NEW R, NEW n, NEW c, srv' = [rows |-> R, now |-> n, calls |-> c],
             R \in PageSets, n \in Nat, srv.now <= n,
             \A r \in R : r.at >= srv.now
                \/ \E q \in srv.rows : q.id = r.id /\ q.at = r.at /\ (q.archived => r.archived),
             GoodUi(ui', srv)
      PROVE  ListSrv(srv') /\ GoodUi(ui', srv')
  <2>2. ListSrv(srv') /\ srv'.rows = R /\ srv'.now = n
    BY <1>e DEF ListSrv
  <2>3. Evolves(srv, srv')
    BY <1>e, <2>2 DEF Evolves
  <2> QED
    BY <1>a, <1>e, <2>2, <2>3, GoodStays
<1>f. /\ srv.rows \in SUBSET RowSet /\ IsFiniteSet(srv.rows) /\ srv.now \in Nat
      /\ srv = [rows |-> srv.rows, now |-> srv.now, calls |-> srv.calls]
  BY <1>a DEF ListSrv, PageSets
\* A row is added now or later.
<1>g. ASSUME NEW i \in Ids, NEW t \in {srv.now, srv.now + 1}
      PROVE  LET R == srv.rows \cup {RL!Row(i, t)}
             IN /\ R \in PageSets /\ t \in Nat /\ srv.now <= t
                /\ \A r \in R : r.at >= srv.now
                     \/ \E q \in srv.rows :
                          q.id = r.id /\ q.at = r.at /\ (q.archived => r.archived)
  <2> DEFINE e == RL!Row(i, t)
             R == srv.rows \cup {e}
  <2>1. t \in Nat /\ srv.now <= t
    BY <1>f
  <2>2. e \in RowSet /\ e.at = t
    BY <2>1, ConsoleAssumption DEF RL!Row, RowSet
  <2> HIDE DEF e
  <2>3. IsFiniteSet(R)
    BY <1>f, FS_AddElement
  <2>4. R \in PageSets
    BY <1>f, <2>2, <2>3 DEF PageSets
  <2>5. \A r \in R : r.at >= srv.now
          \/ \E q \in srv.rows : q.id = r.id /\ q.at = r.at /\ (q.archived => r.archived)
    BY <1>f, <2>1, <2>2
  <2> QED
    BY <2>1, <2>4, <2>5 DEF e
<1>9. CASE RL!Created
  <2>1. PICK i \in Ids, t \in {srv.now, srv.now + 1} :
          srv' = [srv EXCEPT !.rows = @ \cup {RL!Row(i, t)}, !.now = t,
                             !.calls = @ \ {RL!Call("create", None)}]
    BY <1>9 DEF RL!Created
  <2> DEFINE w == [ui EXCEPT !.dialog = RL!NoDialog]
  <2>2. ui' = RL!refresh(w)
    BY <1>9 DEF RL!Created
  <2>3. w = [page |-> ui.page, kind |-> ui.kind, params |-> ui.params, shown |-> ui.shown,
             cache |-> ui.cache, dialog |-> RL!NoDialog]
    BY <1>b DEF ListUi
  <2>4. /\ w = [page |-> w.page, kind |-> w.kind, params |-> w.params, shown |-> w.shown,
                cache |-> w.cache, dialog |-> w.dialog]
        /\ w.kind = ui.kind /\ w.params = ui.params /\ w.cache = ui.cache
    BY <2>3
  <2> HIDE DEF w
  <2>5. GoodUi(w, srv)
    BY <1>a, <1>b, <2>4, GoodKept
  <2>6. GoodUi(ui', srv)
    BY <1>a, <2>2, <2>5, GoodRefresh
  <2> DEFINE R == srv.rows \cup {RL!Row(i, t)}
             c == srv.calls \ {RL!Call("create", None)}
  <2>7. srv' = [rows |-> R, now |-> t, calls |-> c]
    <3>1. srv' = [srv EXCEPT !.rows = R, !.now = t, !.calls = c]
      BY <2>1
    <3> HIDE DEF R, c
    <3> QED
      BY <1>f, <3>1
  <2>8. /\ R \in PageSets /\ t \in Nat /\ srv.now <= t
        /\ \A r \in R : r.at >= srv.now
             \/ \E q \in srv.rows : q.id = r.id /\ q.at = r.at /\ (q.archived => r.archived)
    BY <1>g
  <2> HIDE DEF R, c
  <2> QED
    BY <1>e, <2>6, <2>7, <2>8
\* Rows are archived, or go.
<1>10. CASE RL!Done
  <2>1. PICK c \in srv.calls :
          srv' = [srv EXCEPT
            !.calls = @ \ {c},
            !.rows = {IF r.id = c.id THEN [r EXCEPT !.archived = TRUE] ELSE r :
                        r \in {s \in @ : c.op = "archive" \/ s.id # c.id}}]
    BY <1>10 DEF RL!Done
  <2> DEFINE K == {s \in srv.rows : c.op = "archive" \/ s.id # c.id}
             h == [r \in K |-> IF r.id = c.id THEN [r EXCEPT !.archived = TRUE] ELSE r]
             R == {IF r.id = c.id THEN [r EXCEPT !.archived = TRUE] ELSE r : r \in K}
             d == srv.calls \ {c}
  <2>2. ui' = RL!refresh(ui)
    BY <1>10 DEF RL!Done
  <2>3. GoodUi(ui', srv)
    BY <1>a, <2>2, GoodRefresh
  <2>4. ASSUME NEW r \in K
        PROVE  /\ h[r] \in RowSet /\ h[r].id = r.id /\ h[r].at = r.at
               /\ r.archived => h[r].archived
    BY <1>f DEF RowSet
  <2>5. srv' = [rows |-> R, now |-> srv.now, calls |-> d]
    <3>1. srv' = [srv EXCEPT !.calls = d, !.rows = R]
      BY <2>1
    <3> HIDE DEF R, d
    <3> QED
      BY <1>f, <3>1
  <2>6. IsFiniteSet(K) /\ \A r \in K : r \in srv.rows
    BY <1>f, FS_Subset
  <2>7. h \in [K -> R] /\ \A e \in R : \E r \in K : h[r] = e
    OBVIOUS
  <2> HIDE DEF h, K
  <2>8. IsFiniteSet(R)
    <3>1. h \in Surjection(K, R)
      BY <2>7 DEF Surjection
    <3> QED
      BY <2>6, <3>1, FS_Surjection
  <2> HIDE DEF R, d
  <2>9. R \in PageSets
    BY <2>4, <2>7, <2>8 DEF PageSets
  <2>10. \A r \in R : \E q \in srv.rows :
           q.id = r.id /\ q.at = r.at /\ (q.archived => r.archived)
    BY <2>4, <2>6, <2>7
  <2>11. srv.now <= srv.now
    BY <1>f
  <2> QED
    BY <1>e, <1>f, <2>3, <2>5, <2>9, <2>10, <2>11
<1>11. CASE RL!OthersChange
  <2>1. ui' = ui
    BY <1>11 DEF RL!OthersChange, RL!Do
  <2>2. ASSUME NEW i \in Ids, NEW t \in {srv.now, srv.now + 1},
               srv' = [srv EXCEPT !.rows = @ \cup {RL!Row(i, t)}, !.now = t]
        PROVE  ListSrv(srv') /\ GoodUi(ui', srv')
    <3> DEFINE R == srv.rows \cup {RL!Row(i, t)}
    <3>1. /\ R \in PageSets /\ t \in Nat /\ srv.now <= t
          /\ \A r \in R : r.at >= srv.now
               \/ \E q \in srv.rows : q.id = r.id /\ q.at = r.at /\ (q.archived => r.archived)
      BY <1>g
    <3>2. srv' = [srv EXCEPT !.rows = R, !.now = t]
      BY <2>2
    <3> HIDE DEF R
    <3>3. srv' = [rows |-> R, now |-> t, calls |-> srv.calls]
      BY <1>f, <3>2
    <3> QED
      BY <1>a, <1>e, <2>1, <3>1, <3>3
  <2>3. ASSUME NEW x \in srv.rows, srv' = [srv EXCEPT !.rows = @ \ {x}]
        PROVE  ListSrv(srv') /\ GoodUi(ui', srv')
    <3> DEFINE R == srv.rows \ {x}
    <3>1. R \in SUBSET srv.rows
      OBVIOUS
    <3>2. R \in PageSets
      BY <1>f, <3>1, FS_Subset DEF PageSets
    <3>3. \A r \in R : \E q \in srv.rows :
            q.id = r.id /\ q.at = r.at /\ (q.archived => r.archived)
      OBVIOUS
    <3>4. srv' = [srv EXCEPT !.rows = R]
      BY <2>3
    <3> HIDE DEF R
    <3>5. srv' = [rows |-> R, now |-> srv.now, calls |-> srv.calls]
      BY <1>f, <3>4
    <3>6. srv.now <= srv.now
      BY <1>f
    <3> QED
      BY <1>a, <1>e, <1>f, <2>1, <3>2, <3>3, <3>5, <3>6
  <2> QED
    BY <1>11, <2>2, <2>3 DEF RL!OthersChange
<1> QED
  BY <1>1, <1>2, <1>3, <1>4, <1>5, <1>6, <1>7, <1>8, <1>9, <1>10, <1>11 DEF RL!Next

\* A list shows the rows in the server's order and skips none that was there when
\* its first page was read (useApiQuery.ts over the list handlers of the API),
\* whatever is added, archived and deleted between two pages.
THEOREM ListsSkipNoRow == Spec => []NoRowSkipped
<1> DEFINE I == route = "list" => ListInv
<1>1. Init => I
  <2> SUFFICES ASSUME Init, route = "list" PROVE ListInv
    OBVIOUS
  <2>1. RL!Init
    BY DEF Init
  <2>2. PICK i \in Ids, j \in Ids :
          srv = [rows |-> {RL!Row(i, 1), RL!Row(j, 2)}, now |-> 2, calls |-> {}]
    BY <2>1 DEF RL!Init
  <2>3. RL!Row(i, 1) \in RowSet /\ RL!Row(j, 2) \in RowSet
    BY ConsoleAssumption DEF RL!Row, RowSet
  <2>4. {RL!Row(i, 1), RL!Row(j, 2)} \in PageSets
    <3> DEFINE a == RL!Row(i, 1)
               b == RL!Row(j, 2)
    <3> HIDE DEF a, b
    <3>1. {a, b} = {a} \cup {b} /\ IsFiniteSet({a})
      BY FS_Singleton
    <3>2. IsFiniteSet({a, b})
      BY <3>1, FS_AddElement
    <3> QED
      BY <2>3, <3>2 DEF PageSets, a, b
  <2> DEFINE R == {RL!Row(i, 1), RL!Row(j, 2)}
  <2>5. srv = [rows |-> R, now |-> 2, calls |-> {}] /\ R \in PageSets
    BY <2>2, <2>4
  <2> HIDE DEF R
  <2>6. ListSrv(srv)
    BY <2>5 DEF ListSrv
  <2> DEFINE c == [p \in {RL!Default} |-> RL!Cold]
  <2>7. PICK k : ui = [page |-> "list", kind |-> k, params |-> RL!Default, shown |-> <<>>,
                       cache |-> c, dialog |-> RL!NoDialog]
    BY <2>1 DEF RL!Init
  <2>8. DOMAIN c = {RL!Default} /\ c[RL!Default] = RL!Cold
    OBVIOUS
  <2> HIDE DEF c
  <2>9. SlotOK(ui.kind, RL!Default, RL!Cold, srv)
    <3>1. RL!Cold = RL!Slot(<<>>, 0, FALSE, RL!Fetch(1, <<>>, 0))
      BY DEF RL!Cold
    <3> QED
      BY <2>6, <3>1, NoPages, SlotFull
  <2>10. ListUi(ui) /\ ui.cache = c
    BY <2>7, <2>8 DEF ListUi
  <2> QED
    BY <2>6, <2>8, <2>9, <2>10 DEF ListInv, GoodUi
<1>2. I /\ [Next]_vars => I'
  <2> SUFFICES ASSUME I, [Next]_vars, route' = "list" PROVE ListInv'
    OBVIOUS
  <2>1. route = "list" /\ ListInv
    BY DEF Next, vars
  <2>2. CASE UNCHANGED vars
    BY <2>1, <2>2 DEF vars, ListInv, GoodUi, ListUi, ListSrv
  <2>3. CASE Next
    <3>1. RL!Next
      BY <2>1, <2>3 DEF Next
    <3> QED
      BY <2>1, <3>1, ListStep
  <2> QED
    BY <2>2, <2>3
<1>3. I => NoRowSkipped
  <2> SUFFICES ASSUME ListInv, ui.kind # "files", NEW p \in DOMAIN ui.cache
               PROVE  LET s == ui.cache[p]
                          listed == UNION RL!ToSet(s.pages)
                      IN /\ \A m, n \in DOMAIN s.pages :
                              m < n => \A a \in s.pages[m], b \in s.pages[n] : RL!Before(a, b)
                         /\ p.status # "archived" =>
                              \A r \in srv.rows, b \in listed :
                                RL!Matches(r, p) /\ r.at < s.asOf /\ RL!Before(r, b) =>
                                  \E a \in listed : a.id = r.id
    BY Zenon DEF NoRowSkipped, RL!NoRowSkipped
  <2> DEFINE s == ui.cache[p]
             listed == UNION RL!ToSet(s.pages)
  <2>1. SlotOK(ui.kind, p, s, srv)
    BY DEF ListInv, GoodUi
  <2> HIDE DEF s
  <2>2. Sorted(ui.kind, s.pages) /\ Dense(ui.kind, p, s.pages, s.asOf, srv.rows)
    BY <2>1 DEF SlotOK, ListOK
  <2>3. \A b : b \in listed <=> \E i \in DOMAIN s.pages : b \in s.pages[i]
    BY Zenon DEF RL!ToSet
  <2> HIDE DEF listed
  <2>4. \A m, n \in DOMAIN s.pages :
          m < n => \A a \in s.pages[m], b \in s.pages[n] : RL!Before(a, b)
    BY <2>2, BefIsBefore DEF Sorted
  <2>5. ASSUME p.status # "archived", NEW r \in srv.rows, NEW b \in listed,
               RL!Matches(r, p), r.at < s.asOf, RL!Before(r, b)
        PROVE  \E a \in listed : a.id = r.id
    <3>1. PICK i \in DOMAIN s.pages : b \in s.pages[i]
      BY <2>3
    <3>2. Bef(ui.kind, r, b)
      BY <2>5, BefIsBefore
    <3>3. Has(s.pages, r.id)
      BY <2>2, <2>5, <3>1, <3>2 DEF Dense
    <3> QED
      BY <2>3, <3>3 DEF Has
  <2> QED
    BY <2>4, <2>5 DEF s, listed
<1> QED
  BY <1>1, <1>2, <1>3, PTL DEF Spec, vars
=============================================================================
