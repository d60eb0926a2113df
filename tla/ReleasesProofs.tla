---------------------------- MODULE ReleasesProofs ----------------------------
(***************************************************************************)
(* For any number of versions, builds and uploads at a time, the manifest  *)
(* lists the file that is there and a publication keeps the entries of the *)
(* other versions.                                                         *)
(*                                                                         *)
(* The chain holds every publication once, and only its head has touched a *)
(* file (InOrder).  Therefore the manifest that the head has read is still *)
(* the one on the disk when it is written back (HeadKnows).                *)
(***************************************************************************)
EXTENDS PluginReleases, TLAPS

Publishing == {"queued"} \cup HalfDone

\* The chain c and the slots q belong together.
InOrder(c, q) ==
    /\ \A i \in 1..Len(c) : q[c[i]].op \in Publishing
    /\ \A i, j \in 1..Len(c) : c[i] = c[j] => i = j
    /\ \A s \in Slots : q[s].op \in Publishing => \E i \in 1..Len(c) : c[i] = s
    /\ \A s \in Slots : q[s].op \in HalfDone => c # << >> /\ Head(c) = s

\* What a publication has in hand, and has done to the files d and m.
Knows(r, d, m) ==
    /\ r.op \in Publishing => r.version \in Versions /\ r.build \in Builds
    /\ r.op \in HalfDone => d[r.version] = r.build
    /\ r.op = "manifest_read" => r.read = m

HeadKnows == \A s \in Slots : Knows(relReq[s], dll, manifest)

FilesTyped ==
    /\ dll \in Listing
    /\ manifest \in Listing
    /\ broken \subseteq Versions
    /\ chain \in Seq(Slots)
    /\ relReq \in [Slots -> ReleaseRequest]

\* The inductive invariant.
ReleasesInv ==
    /\ FilesTyped
    /\ InOrder(chain, relReq)
    /\ HeadKnows
    /\ ListedMatchesFile

-----------------------------------------------------------------------------
\* An upload that joins the chain is the last of it (code: publish).
LEMMA JoinKeepsOrder ==
    ASSUME NEW c \in Seq(Slots), NEW q \in [Slots -> ReleaseRequest],
           InOrder(c, q),
           NEW s \in Slots, NEW r \in ReleaseRequest,
           q[s].op \notin Publishing, r.op = "queued"
    PROVE  InOrder(Append(c, s), [q EXCEPT ![s] = r])
  <1> DEFINE d == Append(c, s)
             p == [q EXCEPT ![s] = r]
  <1>1. /\ Len(d) = Len(c) + 1
        /\ \A i \in 1..Len(c) : d[i] = c[i]
        /\ d[Len(c) + 1] = s
        /\ Len(c) \in Nat
        /\ d # << >>
    OBVIOUS
  <1>2. \A i \in 1..Len(c) : c[i] \in Slots /\ c[i] # s
    BY DEF InOrder
  <1>3. \A t \in Slots : p[t] = IF t = s THEN r ELSE q[t]
    OBVIOUS
  <1>4. r.op \in Publishing /\ r.op \notin HalfDone
    BY DEF Publishing, HalfDone
  <1>5. c # << >> => Head(d) = Head(c)
    OBVIOUS
  <1> HIDE DEF d, p
  <1>6. \A i \in 1..Len(d) : p[d[i]].op \in Publishing
    <2> SUFFICES ASSUME NEW i \in 1..Len(d) PROVE p[d[i]].op \in Publishing
      OBVIOUS
    <2>1. CASE i \in 1..Len(c)
      BY <2>1, <1>1, <1>2, <1>3 DEF InOrder
    <2>2. CASE i = Len(c) + 1
      BY <2>2, <1>1, <1>3, <1>4
    <2> QED BY <2>1, <2>2, <1>1
  <1>7. \A i, j \in 1..Len(d) : d[i] = d[j] => i = j
    <2> SUFFICES ASSUME NEW i \in 1..Len(d), NEW j \in 1..Len(d), d[i] = d[j]
                 PROVE  i = j
      OBVIOUS
    <2>1. /\ i \in 1..Len(c) \/ i = Len(c) + 1
          /\ j \in 1..Len(c) \/ j = Len(c) + 1
      BY <1>1
    <2> QED BY <2>1, <1>1, <1>2 DEF InOrder
  <1>8. \A t \in Slots : p[t].op \in Publishing => \E i \in 1..Len(d) : d[i] = t
    <2> SUFFICES ASSUME NEW t \in Slots, p[t].op \in Publishing
                 PROVE  \E i \in 1..Len(d) : d[i] = t
      OBVIOUS
    <2>1. CASE t = s
      BY <2>1, <1>1
    <2>2. CASE t # s
      <3>1. PICK i \in 1..Len(c) : c[i] = t
        BY <2>2, <1>3 DEF InOrder
      <3>2. i \in 1..Len(d) /\ d[i] = t
        BY <3>1, <1>1
      <3> QED BY <3>2
    <2> QED BY <2>1, <2>2
  <1>9. \A t \in Slots : p[t].op \in HalfDone => d # << >> /\ Head(d) = t
    BY <1>1, <1>3, <1>4, <1>5 DEF InOrder
  <1>10. InOrder(d, p)
    BY <1>6, <1>7, <1>8, <1>9 DEF InOrder
  <1> QED BY <1>10 DEF d, p

\* The head of the chain goes on (code: publishNow between two awaits).
LEMMA HeadKeepsOrder ==
    ASSUME NEW c \in Seq(Slots), NEW q \in [Slots -> ReleaseRequest],
           InOrder(c, q),
           NEW s \in Slots, NEW r \in ReleaseRequest,
           q[s].op \in Publishing, Head(c) = s, r.op \in Publishing
    PROVE  InOrder(c, [q EXCEPT ![s] = r])
  <1>1. \A i \in 1..Len(c) : c[i] \in Slots
    OBVIOUS
  <1>2. c # << >>
    BY DEF InOrder
  <1> QED BY <1>1, <1>2 DEF InOrder

\* A slot that does not publish moves beside the chain (code: filePath).
LEMMA OtherKeepsOrder ==
    ASSUME NEW c \in Seq(Slots), NEW q \in [Slots -> ReleaseRequest],
           InOrder(c, q),
           NEW s \in Slots, NEW r \in ReleaseRequest,
           q[s].op \notin Publishing, r.op \notin Publishing
    PROVE  InOrder(c, [q EXCEPT ![s] = r])
  <1>1. \A i \in 1..Len(c) : c[i] \in Slots /\ c[i] # s
    BY DEF InOrder
  <1>2. r.op \notin HalfDone
    BY DEF Publishing
  <1> QED BY <1>1, <1>2 DEF InOrder

\* The head of the chain leaves, and the next one has not begun (code: the
\* promise that the next publication awaits).
LEMMA LeaveKeepsOrder ==
    ASSUME NEW c \in Seq(Slots), NEW q \in [Slots -> ReleaseRequest],
           InOrder(c, q),
           NEW s \in Slots, NEW r \in ReleaseRequest,
           q[s].op \in Publishing, Head(c) = s, r.op \notin Publishing
    PROVE  InOrder(Tail(c), [q EXCEPT ![s] = r])
  <1> DEFINE d == Tail(c)
             p == [q EXCEPT ![s] = r]
  <1>1. c # << >>
    BY DEF InOrder
  <1>2. /\ Len(c) \in Nat
        /\ Len(d) = Len(c) - 1
        /\ \A i \in 1..Len(d) : i + 1 \in 1..Len(c) /\ d[i] = c[i + 1]
        /\ c[1] = s /\ 1 \in 1..Len(c)
    BY <1>1
  <1>3. \A i \in 1..Len(d) : d[i] \in Slots /\ d[i] # s
    BY <1>2 DEF InOrder
  <1>4. \A t \in Slots : p[t] = IF t = s THEN r ELSE q[t]
    OBVIOUS
  <1>5. r.op \notin HalfDone
    BY DEF Publishing
  <1> HIDE DEF d, p
  <1>6. \A i \in 1..Len(d) : p[d[i]].op \in Publishing
    BY <1>2, <1>3, <1>4 DEF InOrder
  <1>7. \A i, j \in 1..Len(d) : d[i] = d[j] => i = j
    <2> SUFFICES ASSUME NEW i \in 1..Len(d), NEW j \in 1..Len(d), d[i] = d[j]
                 PROVE  i = j
      OBVIOUS
    <2>1. c[i + 1] = c[j + 1] /\ i + 1 \in 1..Len(c) /\ j + 1 \in 1..Len(c)
      BY <1>2
    <2>2. i + 1 = j + 1
      BY <2>1 DEF InOrder
    <2> QED BY <2>2
  <1>8. \A t \in Slots : p[t].op \in Publishing => \E i \in 1..Len(d) : d[i] = t
    <2> SUFFICES ASSUME NEW t \in Slots, p[t].op \in Publishing
                 PROVE  \E i \in 1..Len(d) : d[i] = t
      OBVIOUS
    <2>1. t # s /\ q[t].op \in Publishing
      BY <1>4
    <2>2. PICK i \in 1..Len(c) : c[i] = t
      BY <2>1 DEF InOrder
    <2>3. i # 1
      BY <2>1, <2>2, <1>2
    <2>4. i - 1 \in 1..Len(d) /\ d[i - 1] = c[i]
      <3>1. i - 1 \in 1..Len(d)
        BY <2>3, <1>2
      <3>2. (i - 1) + 1 = i
        OBVIOUS
      <3> QED BY <3>1, <3>2, <1>2
    <2> QED BY <2>2, <2>4
  <1>9. \A t \in Slots : p[t].op \notin HalfDone
    <2> SUFFICES ASSUME NEW t \in Slots, p[t].op \in HalfDone PROVE FALSE
      OBVIOUS
    <2>1. t # s /\ q[t].op \in HalfDone
      BY <1>4, <1>5
    <2> QED BY <2>1 DEF InOrder
  <1>10. InOrder(d, p)
    BY <1>6, <1>7, <1>8, <1>9 DEF InOrder
  <1> QED BY <1>10 DEF d, p

-----------------------------------------------------------------------------
LEMMA NoReleaseTyped ==
    /\ NoRelease \in ReleaseRequest
    /\ NoRelease.op = "idle"
    /\ \A d, m : Knows(NoRelease, d, m)
    /\ "idle" \notin Publishing
  BY DEF NoRelease, ReleaseRequest, NothingListed, Listing, Publishing, HalfDone, Knows

\* What a step of slot s leaves to prove when it sets relReq[s] to r.
LEMMA SlotStep ==
    ASSUME ReleasesInv, NEW s \in Slots, NEW r \in ReleaseRequest,
           SetRelease(s, r)
    PROVE  /\ relReq' \in [Slots -> ReleaseRequest]
           /\ \A t \in Slots : relReq'[t] = IF t = s THEN r ELSE relReq[t]
  BY DEF ReleasesInv, FilesTyped, SetRelease

\* Only the head has touched a file (code: publish).
LEMMA OneHalfDone ==
    ASSUME ReleasesInv, NEW s \in Slots, NEW t \in Slots,
           relReq[s].op \in Publishing, Head(chain) = s,
           relReq[t].op \in HalfDone
    PROVE  t = s
  BY DEF ReleasesInv, InOrder

LEMMA RequestInv ==
    ASSUME ReleasesInv, NEW s \in Slots, NEW v \in Versions, NEW b \in Builds,
           PublishRequest(s, v, b)
    PROVE  ReleasesInv'
  <1> DEFINE r == [NoRelease EXCEPT !.op = "queued", !.version = v, !.build = b]
  <1>1. /\ r \in ReleaseRequest
        /\ r.op = "queued" /\ r.version = v /\ r.build = b
    BY DEF ReleaseRequest, NoRelease, NothingListed, Listing
  <1>2. "queued" \notin HalfDone /\ relReq[s].op \notin Publishing
    BY DEF PublishRequest, Doing, Publishing, HalfDone
  <1>3. SetRelease(s, r)
    BY DEF PublishRequest
  <1> HIDE DEF r
  <1>4. FilesTyped'
    BY <1>1, <1>3, SlotStep DEF PublishRequest, FilesTyped, ReleasesInv
  <1>5. InOrder(chain', relReq')
    <2>1. InOrder(Append(chain, s), [relReq EXCEPT ![s] = r])
      BY <1>1, <1>2, JoinKeepsOrder DEF ReleasesInv, FilesTyped
    <2>2. chain' = Append(chain, s) /\ relReq' = [relReq EXCEPT ![s] = r]
      BY <1>3 DEF PublishRequest, SetRelease
    <2> QED BY <2>1, <2>2
  <1>6. HeadKnows'
    BY <1>1, <1>2, <1>3, SlotStep
       DEF PublishRequest, HeadKnows, Knows, ReleasesInv, HalfDone
  <1>7. ListedMatchesFile'
    <2> SUFFICES ASSUME NEW w \in Versions
                 PROVE  \/ manifest[w] = dll[w]
                        \/ w \in broken
                        \/ \E t \in Slots : relReq'[t].op \in HalfDone /\ relReq'[t].version = w
      BY DEF ListedMatchesFile, PublishRequest
    <2>1. \A t \in Slots : relReq[t].op \in HalfDone => relReq'[t] = relReq[t]
      BY <1>1, <1>2, <1>3, SlotStep DEF Publishing
    <2> QED BY <2>1 DEF ReleasesInv, ListedMatchesFile
  <1> QED BY <1>4, <1>5, <1>6, <1>7 DEF ReleasesInv

LEMMA DllInv ==
    ASSUME ReleasesInv, NEW s \in Slots, PublishDll(s)
    PROVE  ReleasesInv'
  <1> DEFINE r == [relReq[s] EXCEPT !.op = "dll_replaced"]
  <1>1. /\ relReq[s] \in ReleaseRequest
        /\ relReq[s].op = "queued" /\ relReq[s].op \in Publishing
    BY DEF PublishDll, Doing, ReleasesInv, FilesTyped, Publishing
  <1>2. /\ r \in ReleaseRequest
        /\ r.op = "dll_replaced" /\ r.op \in HalfDone /\ r.op \in Publishing
        /\ r.version = relReq[s].version /\ r.build = relReq[s].build
    BY <1>1 DEF ReleaseRequest, HalfDone, Publishing
  <1>3. SetRelease(s, r)
    BY DEF PublishDll
  <1>4. relReq[s].version \in Versions /\ relReq[s].build \in Builds
    BY <1>1 DEF ReleasesInv, HeadKnows, Knows
  <1> HIDE DEF r
  <1>5. \A t \in Slots : relReq[t].op \notin HalfDone
    BY <1>1, OneHalfDone DEF PublishDll, MyTurn, HalfDone
  <1>6. FilesTyped'
    BY <1>2, <1>3, <1>4, SlotStep DEF PublishDll, FilesTyped, ReleasesInv, Listing
  <1>7. InOrder(chain', relReq')
    <2>1. InOrder(chain, [relReq EXCEPT ![s] = r])
      BY <1>1, <1>2, HeadKeepsOrder DEF PublishDll, MyTurn, ReleasesInv, FilesTyped
    <2>2. chain' = chain /\ relReq' = [relReq EXCEPT ![s] = r]
      BY <1>3 DEF PublishDll, SetRelease
    <2> QED BY <2>1, <2>2
  <1>8. dll'[relReq[s].version] = relReq[s].build
    BY <1>4 DEF PublishDll, ReleasesInv, FilesTyped, Listing
  <1>9. HeadKnows'
    <2>1. Knows(r, dll', manifest')
      BY <1>2, <1>4, <1>8 DEF Knows
    <2>2. \A t \in Slots \ {s} : Knows(relReq[t], dll', manifest')
      BY <1>5 DEF Knows, ReleasesInv, HeadKnows, HalfDone
    <2> QED BY <2>1, <2>2, <1>2, <1>3, SlotStep DEF HeadKnows
  <1>10. ListedMatchesFile'
    <2> SUFFICES ASSUME NEW w \in Versions
                 PROVE  \/ manifest[w] = dll'[w]
                        \/ w \in broken
                        \/ \E t \in Slots : relReq'[t].op \in HalfDone /\ relReq'[t].version = w
      BY DEF ListedMatchesFile, PublishDll
    <2>1. CASE w = relReq[s].version
      BY <2>1, <1>2, <1>3, SlotStep
    <2>2. CASE w # relReq[s].version
      <3>1. dll'[w] = dll[w]
        BY <2>2 DEF PublishDll, ReleasesInv, FilesTyped, Listing
      <3> QED BY <3>1, <1>5 DEF ReleasesInv, ListedMatchesFile
    <2> QED BY <2>1, <2>2
  <1> QED BY <1>6, <1>7, <1>9, <1>10 DEF ReleasesInv

LEMMA ReadInv ==
    ASSUME ReleasesInv, NEW s \in Slots, PublishRead(s)
    PROVE  ReleasesInv'
  <1> DEFINE r == [relReq[s] EXCEPT !.op = "manifest_read", !.read = manifest]
  <1>1. /\ relReq[s] \in ReleaseRequest
        /\ relReq[s].op \in HalfDone /\ relReq[s].op \in Publishing
    BY DEF PublishRead, Doing, ReleasesInv, FilesTyped, Publishing, HalfDone
  <1>2. /\ r \in ReleaseRequest
        /\ r.op = "manifest_read" /\ r.op \in HalfDone /\ r.op \in Publishing
        /\ r.version = relReq[s].version /\ r.build = relReq[s].build
        /\ r.read = manifest
    BY <1>1 DEF ReleaseRequest, HalfDone, Publishing, ReleasesInv, FilesTyped
  <1>3. SetRelease(s, r)
    BY DEF PublishRead
  <1>4. Head(chain) = s
    BY <1>1 DEF ReleasesInv, InOrder
  <1> HIDE DEF r
  <1>5. FilesTyped'
    BY <1>2, <1>3, SlotStep DEF PublishRead, FilesTyped, ReleasesInv
  <1>6. InOrder(chain', relReq')
    <2>1. InOrder(chain, [relReq EXCEPT ![s] = r])
      BY <1>1, <1>2, <1>4, HeadKeepsOrder DEF ReleasesInv, FilesTyped
    <2>2. chain' = chain /\ relReq' = [relReq EXCEPT ![s] = r]
      BY <1>3 DEF PublishRead, SetRelease
    <2> QED BY <2>1, <2>2
  <1>7. HeadKnows'
    <2>1. Knows(relReq[s], dll, manifest)
      BY DEF ReleasesInv, HeadKnows
    <2>2. Knows(r, dll, manifest)
      BY <2>1, <1>1, <1>2 DEF Knows
    <2> QED BY <2>2, <1>2, <1>3, SlotStep DEF PublishRead, HeadKnows, ReleasesInv
  <1>8. ListedMatchesFile'
    <2>1. \A t \in Slots : relReq[t].op \in HalfDone
              => relReq'[t].op \in HalfDone /\ relReq'[t].version = relReq[t].version
      BY <1>2, <1>3, SlotStep
    <2> QED BY <2>1 DEF PublishRead, ReleasesInv, ListedMatchesFile
  <1> QED BY <1>5, <1>6, <1>7, <1>8 DEF ReleasesInv

\* A publication that ends, well or badly, gives its place in the chain up.
LEMMA LeaveInv ==
    ASSUME ReleasesInv, NEW s \in Slots,
           relReq[s].op \in Publishing, Head(chain) = s,
           chain' = Tail(chain), SetRelease(s, NoRelease),
           dll' = dll, manifest' \in Listing, broken' \subseteq Versions,
           ListedMatchesFile'
    PROVE  ReleasesInv'
  <1>1. NoRelease \in ReleaseRequest /\ NoRelease.op \notin Publishing
    BY NoReleaseTyped
  <1>2. FilesTyped'
    <2>1. chain # << >> /\ chain \in Seq(Slots)
      BY DEF ReleasesInv, InOrder, FilesTyped
    <2>2. Tail(chain) \in Seq(Slots)
      BY <2>1
    <2> QED BY <2>2, <1>1, SlotStep DEF FilesTyped, ReleasesInv
  <1>3. InOrder(chain', relReq')
    <2>1. InOrder(Tail(chain), [relReq EXCEPT ![s] = NoRelease])
      BY <1>1, LeaveKeepsOrder DEF ReleasesInv, FilesTyped
    <2> QED BY <2>1 DEF SetRelease
  <1>4. HeadKnows'
    <2> SUFFICES ASSUME NEW t \in Slots PROVE Knows(relReq'[t], dll', manifest')
      BY DEF HeadKnows
    <2>1. CASE t = s
      BY <2>1, <1>1, SlotStep, NoReleaseTyped
    <2>2. CASE t # s
      <3>1. relReq[t].op \notin HalfDone
        BY <2>2, OneHalfDone
      <3>2. relReq'[t] = relReq[t]
        BY <2>2, <1>1, SlotStep
      <3> QED BY <3>1, <3>2 DEF Knows, ReleasesInv, HeadKnows, HalfDone
    <2> QED BY <2>1, <2>2
  <1> QED BY <1>2, <1>3, <1>4 DEF ReleasesInv

\* Who writes the manifest back has read it when nobody else could change it
\* (code: publishNow, behind the chain).
LEMMA WritesCurrent ==
    ASSUME ReleasesInv, NEW s \in Slots, PublishManifest(s)
    PROVE  /\ relReq[s].op \in Publishing /\ relReq[s].op \in HalfDone
           /\ Head(chain) = s
           /\ relReq[s].version \in Versions /\ relReq[s].build \in Builds
           /\ manifest' = [manifest EXCEPT ![relReq[s].version] = relReq[s].build]
           /\ dll[relReq[s].version] = relReq[s].build
  <1>1. relReq[s].op = "manifest_read"
    BY DEF PublishManifest, Doing
  <1>2. relReq[s].op \in HalfDone /\ relReq[s].op \in Publishing
    BY <1>1 DEF HalfDone, Publishing
  <1>3. Head(chain) = s
    BY <1>2 DEF ReleasesInv, InOrder
  <1>4. Knows(relReq[s], dll, manifest)
    BY DEF ReleasesInv, HeadKnows
  <1> QED BY <1>1, <1>2, <1>3, <1>4 DEF Knows, PublishManifest

LEMMA ManifestInv ==
    ASSUME ReleasesInv, NEW s \in Slots, PublishManifest(s)
    PROVE  ReleasesInv'
  <1> DEFINE v == relReq[s].version
             b == relReq[s].build
  <1>1. /\ relReq[s].op \in Publishing /\ Head(chain) = s
        /\ v \in Versions /\ b \in Builds
        /\ manifest' = [manifest EXCEPT ![v] = b]
        /\ dll[v] = b
    BY WritesCurrent
  <1>2. /\ chain' = Tail(chain) /\ SetRelease(s, NoRelease) /\ dll' = dll
        /\ broken' = broken \ {v}
    BY DEF PublishManifest
  <1> HIDE DEF v, b
  <1>3. manifest \in Listing /\ broken \subseteq Versions
    BY DEF ReleasesInv, FilesTyped
  <1>4. manifest' \in Listing /\ broken' \subseteq Versions
    BY <1>1, <1>2, <1>3 DEF Listing
  <1>5. ListedMatchesFile'
    <2> SUFFICES ASSUME NEW w \in Versions
                 PROVE  manifest'[w] = dll[w] \/ w \in broken'
      BY <1>2 DEF ListedMatchesFile
    <2>1. CASE w = v
      BY <2>1, <1>1, <1>3 DEF Listing
    <2>2. CASE w # v
      <3>1. manifest'[w] = manifest[w]
        BY <2>2, <1>1, <1>3 DEF Listing
      <3>2. \A t \in Slots : relReq[t].op \in HalfDone => relReq[t].version = v
        BY <1>1, OneHalfDone DEF v
      <3> QED BY <3>1, <3>2, <2>2, <1>2 DEF ReleasesInv, ListedMatchesFile
    <2> QED BY <2>1, <2>2
  <1> QED BY <1>1, <1>2, <1>4, <1>5, LeaveInv

LEMMA FailInv ==
    ASSUME ReleasesInv, NEW s \in Slots, PublishFails(s)
    PROVE  ReleasesInv'
  <1>1. /\ relReq[s].op \in Publishing /\ Head(chain) = s
        /\ chain' = Tail(chain) /\ SetRelease(s, NoRelease)
        /\ dll' = dll /\ manifest' = manifest
        /\ broken' = IF relReq[s].op \in HalfDone
                     THEN broken \cup {relReq[s].version} ELSE broken
    BY DEF PublishFails, MyTurn, Publishing
  <1>2. manifest \in Listing /\ broken \subseteq Versions /\ relReq[s].version \in Versions
    BY <1>1 DEF ReleasesInv, FilesTyped, HeadKnows, Knows
  <1>3. broken' \subseteq Versions
    BY <1>1, <1>2
  <1>4. ListedMatchesFile'
    <2> SUFFICES ASSUME NEW w \in Versions
                 PROVE  manifest[w] = dll[w] \/ w \in broken'
      BY <1>1 DEF ListedMatchesFile
    <2>1. \A t \in Slots : relReq[t].op \in HalfDone => t = s
      BY <1>1, OneHalfDone
    <2> QED BY <2>1, <1>1 DEF ReleasesInv, ListedMatchesFile
  <1> QED BY <1>1, <1>2, <1>3, <1>4, LeaveInv

\* A download changes nothing (code: filePath and the route that sends it).
LEMMA DownloadInv ==
    ASSUME ReleasesInv, NEW s \in Slots, NEW r \in ReleaseRequest,
           SetRelease(s, r), relReq[s].op \notin Publishing, r.op \notin Publishing,
           UNCHANGED <<dll, manifest, broken, chain>>
    PROVE  ReleasesInv'
  <1>1. FilesTyped'
    BY SlotStep DEF FilesTyped, ReleasesInv
  <1>2. InOrder(chain', relReq')
    <2>1. InOrder(chain, [relReq EXCEPT ![s] = r])
      BY OtherKeepsOrder DEF ReleasesInv, FilesTyped
    <2> QED BY <2>1 DEF SetRelease
  <1>3. \A t \in Slots : relReq'[t].op \in Publishing \/ relReq[t].op \in Publishing
                            => relReq'[t] = relReq[t]
    BY SlotStep
  <1>4. HalfDone \subseteq Publishing /\ "manifest_read" \in HalfDone
    BY DEF Publishing, HalfDone
  <1>5. HeadKnows'
    BY <1>3, <1>4 DEF HeadKnows, Knows, ReleasesInv
  <1>6. ListedMatchesFile'
    BY <1>3, <1>4 DEF ListedMatchesFile, ReleasesInv
  <1> QED BY <1>1, <1>2, <1>5, <1>6 DEF ReleasesInv

LEMMA CrashInv ==
    ASSUME ReleasesInv, ReleasesCrash
    PROVE  ReleasesInv'
  <1>1. /\ chain' = << >> /\ dll' = dll /\ manifest' = manifest
        /\ \A s \in Slots : relReq'[s] = NoRelease
        /\ relReq' = [s \in Slots |-> NoRelease]
        /\ broken' = broken \cup
             {relReq[s].version : s \in {t \in Slots : relReq[t].op \in HalfDone}}
    BY DEF ReleasesCrash
  <1>2. HalfDone \subseteq Publishing
    BY DEF Publishing
  <1>3. \A s \in Slots : relReq[s].op \in HalfDone => relReq[s].version \in Versions
    BY <1>2 DEF ReleasesInv, HeadKnows, Knows
  <1>4. FilesTyped'
    BY <1>1, <1>3, NoReleaseTyped DEF FilesTyped, ReleasesInv
  <1>5. InOrder(chain', relReq')
    BY <1>1, <1>2, NoReleaseTyped DEF InOrder
  <1>6. HeadKnows'
    BY <1>1, NoReleaseTyped DEF HeadKnows
  <1>7. ListedMatchesFile'
    BY <1>1 DEF ListedMatchesFile, ReleasesInv
  <1> QED BY <1>4, <1>5, <1>6, <1>7 DEF ReleasesInv

-----------------------------------------------------------------------------
LEMMA InitReleases == ReleasesInit => ReleasesInv
  <1> SUFFICES ASSUME ReleasesInit PROVE ReleasesInv
    OBVIOUS
  <1>1. HalfDone \subseteq Publishing
    BY DEF Publishing
  <1>2. FilesTyped
    BY NoReleaseTyped DEF ReleasesInit, FilesTyped, Listing, NothingListed
  <1>3. InOrder(chain, relReq)
    BY <1>1, NoReleaseTyped DEF ReleasesInit, InOrder
  <1>4. HeadKnows
    BY NoReleaseTyped DEF ReleasesInit, HeadKnows
  <1>5. ListedMatchesFile
    BY DEF ReleasesInit, ListedMatchesFile
  <1> QED BY <1>2, <1>3, <1>4, <1>5 DEF ReleasesInv

LEMMA StepReleases ==
    ASSUME ReleasesInv, [ReleasesNext]_releasesVars
    PROVE  ReleasesInv'
  <1>1. ASSUME NEW s \in Slots, NEW v \in Versions, NEW b \in Builds,
               PublishRequest(s, v, b)
        PROVE  ReleasesInv'
    BY <1>1, RequestInv
  <1>2. ASSUME NEW s \in Slots, NEW v \in Versions, DownloadBegin(s, v)
        PROVE  ReleasesInv'
    <2> DEFINE r == [NoRelease EXCEPT !.op = "download", !.version = v,
                                      !.build = manifest[v]]
    <2>1. manifest[v] \in Builds
      BY <1>2 DEF DownloadBegin, ReleasesInv, FilesTyped, Listing
    <2>2. r \in ReleaseRequest /\ r.op \notin Publishing
      BY <2>1 DEF NoRelease, ReleaseRequest, NothingListed, Listing, Publishing, HalfDone
    <2>3. SetRelease(s, r) /\ relReq[s].op = "idle"
          /\ UNCHANGED <<dll, manifest, broken, chain>>
      BY <1>2 DEF DownloadBegin, Doing
    <2> HIDE DEF r
    <2> QED BY <2>2, <2>3, NoReleaseTyped, DownloadInv
  <1>3. ASSUME NEW s \in Slots, DownloadSend(s)
        PROVE  ReleasesInv'
    <2>1. relReq[s].op \notin Publishing
      BY <1>3 DEF DownloadSend, Doing, Publishing, HalfDone
    <2>2. SetRelease(s, NoRelease) /\ UNCHANGED <<dll, manifest, broken, chain>>
      BY <1>3 DEF DownloadSend
    <2>3. NoRelease \in ReleaseRequest /\ NoRelease.op \notin Publishing
      BY NoReleaseTyped
    <2> QED BY <2>1, <2>2, <2>3, DownloadInv
  <1>4. ASSUME UNCHANGED releasesVars
        PROVE  ReleasesInv'
    BY <1>4 DEF releasesVars, ReleasesInv, FilesTyped, HeadKnows, ListedMatchesFile
  <1> QED
    BY <1>1, <1>2, <1>3, <1>4, DllInv, ReadInv, ManifestInv, FailInv, CrashInv
       DEF ReleasesNext

\* For any number of versions, builds and slots: what the models of the
\* publication say of the chain, the files and the slots always holds.
THEOREM ReleasesInvariance == ReleasesSpec => []ReleasesInv
  BY InitReleases, StepReleases, PTL DEF ReleasesSpec

\* The files and requests are well typed, and a publication that has touched a
\* file is the head of the chain (code: publish).
THEOREM ReleasesTypeCorrect == ReleasesSpec => []ReleasesTypeOK
  <1>1. ReleasesInv => ReleasesTypeOK
    BY DEF ReleasesInv, FilesTyped, InOrder, ReleasesTypeOK
  <1> QED BY <1>1, ReleasesInvariance, PTL

\* The listed checksum is the file's, except during a publication or after one
\* that died half way (code: publishNow).
THEOREM ChecksumsMatch == ReleasesSpec => []ListedMatchesFile
  <1>1. ReleasesInv => ListedMatchesFile
    BY DEF ReleasesInv
  <1> QED BY <1>1, ReleasesInvariance, PTL

\* No publication loses the entry of another version (code: publish, which
\* serializes them).
THEOREM PublicationsKeepOthers == ReleasesSpec => OtherVersionsKept
  <1> DEFINE Kept == \A v \in Versions : manifest'[v] # manifest[v] =>
                 \E s \in Slots : /\ relReq[s].version = v
                                  /\ relReq[s].build = manifest'[v]
  <1>1. ASSUME ReleasesInv, [ReleasesNext]_releasesVars
        PROVE  [Kept]_releasesVars
    <2>1. ASSUME NEW s \in Slots, PublishManifest(s)
          PROVE  Kept
      <3>1. /\ relReq[s].version \in Versions
            /\ manifest' = [manifest EXCEPT ![relReq[s].version] = relReq[s].build]
        BY <1>1, <2>1, WritesCurrent
      <3>2. manifest \in [Versions -> Builds \cup {None}]
        BY <1>1 DEF ReleasesInv, FilesTyped, Listing
      <3> QED BY <3>1, <3>2
    <2>2. CASE UNCHANGED manifest
      BY <2>2
    <2>3. CASE \E s \in Slots : PublishManifest(s)
      BY <2>1, <2>3, SMTT(60)
    <2>4. UNCHANGED manifest \/ \E s \in Slots : PublishManifest(s)
      BY <1>1 DEF ReleasesNext, PublishRequest, PublishDll, PublishRead, PublishFails,
                  DownloadBegin, DownloadSend, ReleasesCrash, releasesVars
    <2> QED BY <2>2, <2>3, <2>4
  <1> QED BY <1>1, ReleasesInvariance, PTL DEF ReleasesSpec, OtherVersionsKept
=============================================================================
