------------------------ MODULE FrameCatalogs_proofs ------------------------
(***************************************************************************)
(* Proofs about FrameCatalogs.                                             *)
(*                                                                         *)
(* A user who registers no bands, deletes frames one by one and gives no   *)
(* deleted frame's number to a new one always sees the catalog last made   *)
(* for the current frame.  The invariant behind it speaks of the catalogs  *)
(* kept aside too: each is the one last made for its frame, and nothing is *)
(* kept under a number never given.                                        *)
(*                                                                         *)
(* What holds with bands is proved for users who do not delete all frames  *)
(* at once: Delete All is a fold over the frames.                          *)
(***************************************************************************)
EXTENDS FrameCatalogs, SequenceTheorems, TLAPS

(* No element twice. *)
Distinct(s) == \A i, j \in 1..Len(s) : s[i] = s[j] => i = j

LEMMA ConstantFacts == MaxFrames \in Nat /\ MaxWork \in Nat
BY BoundsAssumption

-----------------------------------------------------------------------------
(* Sequences *)

(* The place of an element is where it stands. *)
LEMMA PlaceHolds ==
  ASSUME NEW T, NEW s \in Seq(T), NEW f \in ToSet(s)
  PROVE  Place(s, f) \in 1..Len(s) /\ s[Place(s, f)] = f
BY DEF Place, ToSet

(* What is left when the element at place i is taken out. *)
LEMMA RemovedAt ==
  ASSUME NEW T, NEW s \in Seq(T), NEW i \in 1..Len(s)
  PROVE  /\ RemoveAt(s, i) \in Seq(T)
         /\ Len(RemoveAt(s, i)) = Len(s) - 1
         /\ \A k \in 1..(Len(s) - 1) : RemoveAt(s, i)[k] = IF k < i THEN s[k] ELSE s[k + 1]
<1> DEFINE a == SubSeq(s, 1, i - 1)
           b == SubSeq(s, i + 1, Len(s))
<1>1. a \in Seq(T) /\ Len(a) = i - 1 /\ \A k \in 1..(i - 1) : a[k] = s[k]
  OBVIOUS
<1>2. b \in Seq(T) /\ Len(b) = Len(s) - i /\ \A k \in 1..(Len(s) - i) : b[k] = s[i + k]
  OBVIOUS
<1> HIDE DEF a, b
<1>3. RemoveAt(s, i) = a \o b
  BY DEF RemoveAt, a, b
<1>4. a \o b \in Seq(T) /\ Len(a \o b) = Len(s) - 1
  <2>1. a \o b \in Seq(T) /\ Len(a \o b) = Len(a) + Len(b)
    BY <1>1, <1>2, ConcatProperties
  <2> QED BY <1>1, <1>2, <2>1
<1>5. ASSUME NEW k \in 1..(Len(s) - 1) PROVE (a \o b)[k] = IF k < i THEN s[k] ELSE s[k + 1]
  <2>1. CASE k < i
    BY <2>1, <1>1, <1>2
  <2>2. CASE ~(k < i)
    <3>1. k - (i - 1) \in 1..(Len(s) - i)
      BY <2>2
    <3>2. (a \o b)[k] = b[k - (i - 1)]
      BY <2>2, <1>1, <1>2
    <3>3. b[k - (i - 1)] = s[i + (k - (i - 1))]
      BY <3>1, <1>2
    <3>4. i + (k - (i - 1)) = k + 1
      OBVIOUS
    <3> QED BY <2>2, <3>2, <3>3, <3>4
  <2> QED BY <2>1, <2>2
<1> QED BY <1>3, <1>4, <1>5

(* Taking an element out of a list without duplicates. *)
LEMMA WithoutOne ==
  ASSUME NEW T, NEW s \in Seq(T), Distinct(s), NEW f \in ToSet(s)
  PROVE  /\ Without(s, f) \in Seq(T)
         /\ Len(Without(s, f)) = Len(s) - 1
         /\ Distinct(Without(s, f))
         /\ ToSet(Without(s, f)) = ToSet(s) \ {f}
<1> DEFINE i == Place(s, f)
           w == Without(s, f)
<1>1. i \in 1..Len(s) /\ s[i] = f
  BY PlaceHolds
<1>2. w = RemoveAt(s, i)
  BY DEF Without
<1> HIDE DEF i, w
<1>3. w \in Seq(T) /\ Len(w) = Len(s) - 1
      /\ \A k \in 1..(Len(s) - 1) : w[k] = IF k < i THEN s[k] ELSE s[k + 1]
  BY <1>1, <1>2, RemovedAt
<1>4. Distinct(w)
  BY <1>1, <1>3, SMTT(30) DEF Distinct
<1>5. ASSUME NEW k \in 1..Len(w) PROVE w[k] \in ToSet(s) \ {f}
  BY <1>1, <1>3, SMTT(30) DEF Distinct, ToSet
<1>6. ASSUME NEW k \in 1..Len(s), s[k] # f PROVE \E m \in 1..Len(w) : w[m] = s[k]
  <2>1. k # i
    BY <1>1, <1>6
  <2>2. CASE k < i
    BY <2>2, <1>1, <1>3
  <2>3. CASE k > i
    <3>1. k - 1 \in 1..Len(w) /\ ~(k - 1 < i) /\ (k - 1) + 1 = k
      BY <2>3, <1>1, <1>3
    <3> QED BY <3>1, <1>3
  <2> QED BY <2>1, <2>2, <2>3, <1>1
<1>7. ToSet(w) = ToSet(s) \ {f}
  <2>1. ASSUME NEW x \in ToSet(w) PROVE x \in ToSet(s) \ {f}
    BY <1>3, <1>5 DEF ToSet
  <2>2. ASSUME NEW x \in ToSet(s) \ {f} PROVE x \in ToSet(w)
    <3>1. PICK k \in 1..Len(s) : s[k] = x
      BY <2>2 DEF ToSet
    <3>2. PICK m \in 1..Len(w) : w[m] = x
      BY <2>2, <3>1, <1>6
    <3> QED BY <1>3, <3>2 DEF ToSet
  <2> QED BY <2>1, <2>2
<1> QED BY <1>3, <1>4, <1>7 DEF w

-----------------------------------------------------------------------------
(* The invariant of a user without bands *)

(* The frames: distinct, of numbers given below seq, and the current one is  *)
(* one.                                                                      *)
FramesOK ==
  /\ frames \in Seq(Numbers) /\ Distinct(frames)
  /\ ToSet(frames) \subseteq used /\ used \subseteq Numbers
  /\ seq \in Nat \ {0} /\ \A f \in used : f < seq
  /\ (frame = NoFrame /\ frames = <<>>) \/ frame \in ToSet(frames)

(* The catalogs and what is kept for the other frames.                       *)
CatalogsOK ==
  /\ made \in Catalogs /\ alldata \in Catalogs
  /\ latest \in [Numbers -> Catalogs]
  /\ saved \in [Numbers -> Catalogs \cup {NotSaved}]
  /\ \A f \in ToSet(frames) \ {frame} : Restore(saved, f) = latest[f]
  /\ \A f \in Numbers \ used : saved[f] = NotSaved
  /\ alldata = IF frame = NoFrame THEN 0 ELSE latest[frame]

PlainInv == plain => bands = {} /\ FramesOK /\ CatalogsOK

(* It holds at the start. *)
LEMMA PlainInit == Init => PlainInv
BY ConstantFacts DEF Init, PlainInv, FramesOK, CatalogsOK, Distinct, ToSet, Catalogs, NotSaved, NoFrame

(* Every step keeps it. *)
LEMMA PlainNext == PlainInv /\ [Next]_vars => PlainInv'
<1> SUFFICES ASSUME PlainInv, [Next]_vars, plain' PROVE (bands = {} /\ FramesOK /\ CatalogsOK)'
  BY DEF PlainInv
<1> USE ConstantFacts
<1>P. plain
  BY DEF Next, vars, NewFrame, CreateFrame, CreateGotoFrame, GotoFrame, DeleteSingleFrame, RemoveBand, DeleteAllFrames, Analyse, Clear,
         RegisterBand
<1>I. bands = {} /\ FramesOK /\ CatalogsOK
  BY <1>P DEF PlainInv
<1>N. NotSaved \notin Catalogs /\ 0 \in Catalogs /\ NoFrame \notin Numbers
  BY DEF NotSaved, Catalogs, NoFrame, Numbers
<1>S. \A a, b : ~ Share({}, a, b) /\ Group({}, a) = {a}
  BY DEF Share, Group
<1>F. \A f \in ToSet(frames) : f \in Numbers
  BY <1>I DEF FramesOK, ToSet
<1>E. \A x : x \notin ToSet(<<>>)
  BY DEF ToSet
<1>1. ASSUME NEW n \in Numbers, NewFrame(n), seq' \in Nat, seq' > n, seq' >= seq
      PROVE  (bands = {} /\ FramesOK /\ CatalogsOK)'
  <2>1. n \notin ToSet(frames) /\ frames' = Append(frames, n) /\ used' = used \cup {n} /\ n \notin used
        /\ frame' = n /\ bands' = bands /\ made' = made /\ latest' = [latest EXCEPT ![n] = 0]
    BY <1>1 DEF NewFrame, Swap
  <2>2. ToSet(frames') = ToSet(frames) \cup {n}
    BY <2>1, <1>I DEF FramesOK, ToSet
  <2>3. frames' \in Seq(Numbers) /\ Distinct(frames')
    BY <2>1, <1>I DEF FramesOK, Distinct, ToSet
  <2>4. FramesOK'
    <3>1. seq' \in Nat \ {0} /\ frame' \in ToSet(frames')
      BY <1>1, <2>1, <2>2, <1>I DEF FramesOK, Numbers
    <3>2. \A f \in used' : f < seq'
      BY <1>1, <2>1, <1>I DEF FramesOK, Numbers
    <3>3. ToSet(frames') \subseteq used' /\ used' \subseteq Numbers
      BY <2>1, <2>2, <1>I DEF FramesOK
    <3> QED BY <2>3, <3>1, <3>2, <3>3 DEF FramesOK
  <2>5. frame # n /\ (frame \notin {NoFrame, n} <=> frame # NoFrame)
    BY <2>1, <1>I, <1>N DEF FramesOK
  <2>6. saved' = (IF frame # NoFrame THEN [saved EXCEPT ![frame] = alldata] ELSE saved)
        /\ alldata' = Restore(saved', n)
    BY <1>1, <2>5, <1>S, <1>I DEF NewFrame, Swap, FrameChanged, Save
  <2>7. frame # NoFrame => frame \in Numbers /\ frame \in used
    BY <1>I, <1>F DEF FramesOK
  <2>8. saved' \in [Numbers -> Catalogs \cup {NotSaved}] /\ \A f \in Numbers : f # frame => saved'[f] = saved[f]
    BY <2>6, <2>7, <1>I DEF CatalogsOK
  <2>9. alldata' = 0
    BY <2>1, <2>5, <2>6, <2>8, <1>I DEF CatalogsOK, Restore
  <2>10. \A f \in Numbers \ used' : saved'[f] = NotSaved
    <3> SUFFICES ASSUME NEW f \in Numbers \ used' PROVE saved'[f] = NotSaved
      OBVIOUS
    <3>1. f \notin used /\ f # frame
      BY <2>1, <2>7, <1>N
    <3> QED BY <3>1, <2>8, <1>I DEF CatalogsOK
  <2>11. ASSUME NEW f \in ToSet(frames') \ {frame'} PROVE Restore(saved', f) = latest'[f]
    <3>1. f \in ToSet(frames) /\ f # n /\ f \in Numbers
      BY <2>1, <2>2, <2>11, <1>F
    <3>2. latest'[f] = latest[f]
      BY <2>1, <3>1, <1>I DEF CatalogsOK
    <3>3. CASE f = frame
      <4>1. saved'[f] = alldata /\ alldata = latest[f]
        BY <3>1, <3>3, <2>6, <2>7, <1>I, <1>N DEF CatalogsOK
      <4> QED BY <4>1, <3>2, <1>I, <1>N DEF CatalogsOK, Restore
    <3>4. CASE f # frame
      BY <3>1, <3>2, <3>4, <2>8, <1>I DEF CatalogsOK, Restore
    <3> QED BY <3>3, <3>4
  <2>12. latest' \in [Numbers -> Catalogs] /\ latest'[n] = 0
    BY <2>1, <1>I, <1>N DEF CatalogsOK
  <2>13. CatalogsOK'
    BY <2>1, <2>8, <2>9, <2>10, <2>11, <2>12, <1>I, <1>N DEF CatalogsOK
  <2> QED BY <2>1, <2>4, <2>13, <1>I
<1>8. CASE CreateFrame
  <2>1. seq \in Numbers /\ NewFrame(seq) /\ seq' = seq + 1
    BY <1>8 DEF CreateFrame, NewFrame
  <2> QED BY <2>1, <1>1 DEF Numbers
<1>9. ASSUME NEW n \in Numbers, CreateGotoFrame(n) PROVE (bands = {} /\ FramesOK /\ CatalogsOK)'
  <2>1. NewFrame(n) /\ seq' = IF n + 1 < seq THEN seq + 1 ELSE n + 1
    BY <1>9 DEF CreateGotoFrame
  <2>2. seq' \in Nat /\ seq' > n /\ seq' >= seq
    BY <2>1, <1>I DEF FramesOK, Numbers
  <2> QED BY <2>1, <2>2, <1>1
<1>2. ASSUME NEW f \in Numbers, GotoFrame(f) PROVE (bands = {} /\ FramesOK /\ CatalogsOK)'
  <2>1. f \in ToSet(frames) /\ f # frame /\ frames' = frames /\ seq' = seq /\ used' = used /\ frame' = f /\ bands' = bands
        /\ made' = made /\ latest' = latest
    BY <1>2 DEF GotoFrame, Swap
  <2>2. frame \in ToSet(frames) /\ frame \in Numbers /\ frame # NoFrame /\ frame \in used
    <3>1. frames # <<>>
      BY <2>1 DEF ToSet
    <3> QED BY <3>1, <1>I, <1>F, <1>N DEF FramesOK
  <2>3. FramesOK'
    BY <2>1, <1>I DEF FramesOK
  <2>4. saved' = [saved EXCEPT ![frame] = alldata] /\ alldata' = Restore(saved', f)
    BY <1>2, <2>1, <2>2, <1>S, <1>I DEF GotoFrame, Swap, FrameChanged, Save
  <2>5. saved' \in [Numbers -> Catalogs \cup {NotSaved}] /\ saved'[frame] = alldata
        /\ \A g \in Numbers : g # frame => saved'[g] = saved[g]
    BY <2>2, <2>4, <1>I DEF CatalogsOK
  <2>6. alldata' = latest[f]
    BY <2>1, <2>4, <2>5, <1>I DEF CatalogsOK, Restore
  <2>7. \A g \in Numbers \ used : saved'[g] = NotSaved
    BY <2>2, <2>5, <1>I DEF CatalogsOK
  <2>8. ASSUME NEW g \in ToSet(frames) \ {f} PROVE Restore(saved', g) = latest[g]
    <3>1. CASE g = frame
      BY <3>1, <2>2, <2>5, <1>I, <1>N DEF CatalogsOK, Restore
    <3>2. CASE g # frame
      BY <3>2, <2>8, <2>5, <1>F, <1>I DEF CatalogsOK, Restore
    <3> QED BY <3>1, <3>2
  <2>9. f # NoFrame /\ latest[f] \in Catalogs
    BY <1>2, <1>N, <1>I DEF CatalogsOK
  <2>10. CatalogsOK'
    BY <2>1, <2>5, <2>6, <2>7, <2>8, <2>9, <1>I DEF CatalogsOK
  <2> QED BY <2>1, <2>3, <2>10, <1>I
<1>3. ASSUME NEW f \in Numbers, DeleteSingleFrame(f) PROVE (bands = {} /\ FramesOK /\ CatalogsOK)'
  <2> DEFINE ii   == Place(frames, f)
             new  == IF ii > 1 THEN frames[ii - 1] ELSE frames[2]
             kept == [saved EXCEPT ![f] = NotSaved]
             w    == Without(frames, f)
  <2>1. f \in ToSet(frames) /\ Settled(Deleted(State, f)) /\ seq' = seq /\ used' = used /\ made' = made /\ latest' = latest
    BY <1>3 DEF DeleteSingleFrame
  <2>2. ii \in 1..Len(frames) /\ frames[ii] = f
    BY <2>1, <1>I, PlaceHolds DEF FramesOK
  <2>3. w \in Seq(Numbers) /\ Len(w) = Len(frames) - 1 /\ Distinct(w) /\ ToSet(w) = ToSet(frames) \ {f}
    BY <2>1, <1>I, WithoutOne DEF FramesOK
  <2>4. frames' = w /\ bands' = {}
    BY <2>1, <1>I DEF Settled, Deleted, State
  <2>5. frame \in ToSet(frames) /\ frame # NoFrame
    <3>1. frames # <<>>
      BY <2>1 DEF ToSet
    <3> QED BY <3>1, <1>I, <1>F, <1>N DEF FramesOK
  <2>6. kept \in [Numbers -> Catalogs \cup {NotSaved}] /\ \A g \in Numbers \ {f} : kept[g] = saved[g]
    BY <1>I DEF CatalogsOK
  <2>7. /\ (frame' = NoFrame /\ frames' = <<>>) \/ frame' \in ToSet(frames')
        /\ saved' \in [Numbers -> Catalogs \cup {NotSaved}] /\ \A g \in Numbers \ {f} : saved'[g] = saved[g]
        /\ alldata' = IF frame' = NoFrame THEN 0 ELSE latest[frame']
        /\ frame' = NoFrame \/ frame' = frame \/ frame = f
    <3>1. CASE frame # f
      <4>1. frame \in ToSet(w) /\ w # <<>>
        BY <3>1, <2>3, <2>5, <1>E
      <4>2. frame' = frame /\ saved' = kept /\ alldata' = alldata
        BY <3>1, <4>1, <2>1 DEF Settled, Deleted, State, Forget
      <4> QED BY <4>1, <4>2, <2>4, <2>5, <2>6, <1>I DEF CatalogsOK
    <3>2. CASE frame = f /\ Len(frames) > 1
      <4>1. new \in ToSet(frames) \ {f}
        BY <3>2, <2>2, <1>I DEF FramesOK, Distinct, ToSet
      <4>2. new \in ToSet(w) /\ w # <<>> /\ new \in Numbers
        BY <4>1, <2>3, <1>F, <1>E
      <4>3. FrameChanged(alldata, kept, f, new, FALSE) =
              [alldata |-> Restore([kept EXCEPT ![f] = alldata], new), saved |-> [kept EXCEPT ![f] = alldata]]
        BY <4>1, <1>N DEF FrameChanged, Save
      <4>4. frame' = new /\ saved' = [kept EXCEPT ![f] = alldata] /\ alldata' = Restore(saved', new)
        <5>1. bands \ {f} = {} /\ ~ Share(bands \ {f}, f, new)
          BY <1>I, <1>S
        <5>2. FrameChanged(alldata, kept, f, new, Share(bands \ {f}, f, new)) =
                FrameChanged(alldata, kept, f, new, FALSE)
          BY <5>1 DEF FrameChanged
        <5> DEFINE D == Deleted(State, f)
                   s == FrameChanged(alldata, kept, f, new, Share(bands \ {f}, f, new))
        <5>3. D.frames = w /\ D.frame = new /\ D.alldata = s.alldata /\ D.saved = s.saved
          BY <3>2 DEF Deleted, State, Forget
        <5>4. s = [alldata |-> Restore([kept EXCEPT ![f] = alldata], new), saved |-> [kept EXCEPT ![f] = alldata]]
          BY <4>3, <5>2
        <5> HIDE DEF D, s, kept, new
        <5> QED BY <4>2, <5>3, <5>4, <2>1 DEF Settled, D
      <4>5. saved' \in [Numbers -> Catalogs \cup {NotSaved}] /\ \A g \in Numbers \ {f} : saved'[g] = saved[g]
        BY <4>4, <2>6, <1>I DEF CatalogsOK
      <4>6. alldata' = latest[new]
        BY <4>1, <4>2, <4>4, <4>5, <3>2, <1>I DEF CatalogsOK, Restore
      <4> QED BY <3>2, <4>2, <4>4, <4>5, <4>6, <2>4, <1>N
    <3>3. CASE frame = f /\ ~(Len(frames) > 1)
      <4>1. w = <<>>
        BY <3>3, <2>2, <2>3, <1>I DEF FramesOK
      <4>2. frame' = NoFrame /\ saved' = kept /\ alldata' = 0
        <5>1. Len(frames) <= 1
          BY <3>3, <1>I DEF FramesOK
        <5> QED BY <3>3, <4>1, <5>1, <2>1 DEF Settled, Deleted, State, Forget
      <4> QED BY <4>1, <4>2, <2>4, <2>6
    <3> QED BY <3>1, <3>2, <3>3
  <2>8. FramesOK'
    BY <2>1, <2>3, <2>4, <2>7, <1>I DEF FramesOK
  <2>9. ASSUME NEW g \in ToSet(frames') \ {frame'} PROVE Restore(saved', g) = latest'[g]
    <3>1. g \in ToSet(frames) /\ g # f /\ g \in Numbers
      BY <2>3, <2>4, <2>9, <1>F
    <3>2. g # frame
      <4>1. frames' # <<>>
        BY <2>9 DEF ToSet
      <4>2. frame' # NoFrame
        BY <4>1, <2>8, <1>N DEF FramesOK, ToSet
      <4> QED BY <2>9, <3>1, <4>2, <2>7
    <3> QED BY <3>1, <3>2, <2>1, <2>7, <1>I DEF CatalogsOK, Restore
  <2>10. \A g \in Numbers \ used : saved'[g] = NotSaved
    <3>1. f \in used
      BY <2>1, <1>I DEF FramesOK
    <3> QED BY <3>1, <2>7, <1>I DEF CatalogsOK
  <2>11. alldata' \in Catalogs
    <3>1. CASE frame' = NoFrame
      BY <3>1, <2>7, <1>N
    <3>2. CASE frame' # NoFrame
      <4>1. frame' \in Numbers
        BY <3>2, <2>3, <2>4, <2>7, <1>F
      <4> QED BY <3>2, <4>1, <2>7, <1>I DEF CatalogsOK
    <3> QED BY <3>1, <3>2
  <2>12. CatalogsOK'
    BY <2>1, <2>7, <2>9, <2>10, <2>11, <1>I DEF CatalogsOK
  <2> QED BY <2>4, <2>8, <2>12
<1>4. ASSUME NEW f \in Numbers, RemoveBand(f) PROVE FALSE
  BY <1>4, <1>I DEF RemoveBand
<1>5. ASSUME DeleteAllFrames \/ RegisterBand PROVE FALSE
  BY <1>5 DEF DeleteAllFrames, RegisterBand
<1>6. CASE Analyse \/ Clear
  <2>1. /\ frames' = frames /\ seq' = seq /\ used' = used /\ frame' = frame /\ saved' = saved /\ bands' = bands
        /\ frame # NoFrame /\ alldata' \in Catalogs /\ made' \in Catalogs
        /\ latest' = Now({}, frame, alldata')
    <3>1. CASE Analyse
      <4>1. made + 1 \in Catalogs
        BY <3>1, <1>I DEF Analyse, CatalogsOK, Catalogs
      <4> QED BY <3>1, <4>1, <1>I DEF Analyse
    <3>2. CASE Clear
      BY <3>2, <1>I, <1>N DEF Clear, CatalogsOK
    <3> QED BY <1>6, <3>1, <3>2
  <2>2. frame \in Numbers
    BY <2>1, <1>I, <1>F DEF FramesOK
  <2>3. latest' \in [Numbers -> Catalogs] /\ latest'[frame] = alldata'
        /\ \A g \in Numbers \ {frame} : latest'[g] = latest[g]
    BY <2>1, <2>2, <1>S, <1>I DEF Now, CatalogsOK
  <2>4. FramesOK'
    BY <2>1, <1>I DEF FramesOK
  <2>5. CatalogsOK'
    BY <2>1, <2>2, <2>3, <1>I, <1>F DEF CatalogsOK
  <2> QED BY <2>1, <2>4, <2>5, <1>I
<1>7. CASE UNCHANGED vars
  BY <1>7, <1>I DEF vars, FramesOK, CatalogsOK
<1> QED BY <1>2, <1>3, <1>4, <1>5, <1>6, <1>7, <1>8, <1>9 DEF Next

(* A user who registers no bands, deletes frames one by one and gives no     *)
(* deleted frame's number to a new one sees the catalog last made for the    *)
(* current frame, and none without a frame, for any number of frames and     *)
(* catalogs.                                                                 *)
THEOREM OwnCatalogShown == Spec => []PlainShownIsLatest
<1>1. PlainInv => PlainShownIsLatest
  BY DEF PlainInv, CatalogsOK, PlainShownIsLatest
<1> QED BY <1>1, PlainInit, PlainNext, PTL DEF Spec

-----------------------------------------------------------------------------
(* With bands *)

(* Frames are never deleted all at once. *)
DeletesSingly == "deleteAll" \notin FrameOps

Kept == [Numbers -> Catalogs \cup {NotSaved}]

(* What holds with bands as well. *)
BandInv ==
  /\ frames \in Seq(Numbers) /\ Distinct(frames)
  /\ (frame = NoFrame /\ frames = <<>>) \/ frame \in ToSet(frames)
  /\ bands \subseteq Numbers
  /\ made \in Catalogs /\ alldata \in Catalogs /\ saved \in Kept

LEMMA BandInit == Init => BandInv
BY ConstantFacts DEF Init, BandInv, Distinct, ToSet, Catalogs, NotSaved, NoFrame, Kept

(* Going from one frame to another leaves catalogs where catalogs belong. *)
LEMMA ChangedTypes ==
  ASSUME NEW cat \in Catalogs, NEW kept \in Kept, NEW old \in Numbers \cup {NoFrame}, NEW new \in Numbers,
         NEW share \in BOOLEAN
  PROVE  /\ FrameChanged(cat, kept, old, new, share).alldata \in Catalogs
         /\ FrameChanged(cat, kept, old, new, share).saved \in Kept
<1> USE ConstantFacts
<1> DEFINE now == IF old \notin {NoFrame, new} THEN [kept EXCEPT ![old] = cat] ELSE kept
<1>1. now \in Kept
  BY DEF Kept
<1>2. Restore(now, new) \in Catalogs
  BY <1>1 DEF Restore, Kept, Catalogs
<1>3. FrameChanged(cat, kept, old, new, share) =
        IF old # NoFrame /\ share THEN [alldata |-> cat, saved |-> kept]
        ELSE [alldata |-> Restore(now, new), saved |-> now]
  BY DEF FrameChanged, Save
<1> HIDE DEF now
<1> QED BY <1>1, <1>2, <1>3

LEMMA BandNext ==
  ASSUME DeletesSingly, BandInv, [Next]_vars
  PROVE  BandInv'
<1> USE ConstantFacts
<1>N. 0 \in Catalogs /\ NoFrame \notin Numbers
  BY DEF Catalogs, NoFrame, Numbers
<1>F. \A f \in ToSet(frames) : f \in Numbers
  BY DEF BandInv, ToSet
<1>E. \A x : x \notin ToSet(<<>>)
  BY DEF ToSet
<1>C. frame \in Numbers \cup {NoFrame} /\ \A a, b : Share(bands, a, b) \in BOOLEAN
  BY <1>F DEF BandInv, Share
<1>1. ASSUME NEW n \in Numbers, NewFrame(n) PROVE BandInv'
  <2>1. n \notin ToSet(frames) /\ frames' = Append(frames, n) /\ frame' = n
        /\ bands' = bands /\ made' = made
    BY <1>1 DEF NewFrame, Swap
  <2>2. frames' \in Seq(Numbers) /\ Distinct(frames') /\ n \in ToSet(frames')
    BY <2>1 DEF BandInv, Distinct, ToSet
  <2>3. alldata' \in Catalogs /\ saved' \in Kept
    BY <1>1, <1>C, ChangedTypes DEF NewFrame, Swap, BandInv
  <2> QED BY <2>1, <2>2, <2>3 DEF BandInv
<1>7. CASE CreateFrame
  BY <1>1, <1>7 DEF CreateFrame, NewFrame
<1>8. ASSUME NEW n \in Numbers, CreateGotoFrame(n) PROVE BandInv'
  BY <1>1, <1>8 DEF CreateGotoFrame
<1>2. ASSUME NEW f \in Numbers, GotoFrame(f) PROVE BandInv'
  <2>1. f \in ToSet(frames) /\ frames' = frames /\ frame' = f /\ bands' = bands /\ made' = made
    BY <1>2 DEF GotoFrame, Swap
  <2>2. alldata' \in Catalogs /\ saved' \in Kept
    BY <1>2, <1>C, ChangedTypes DEF GotoFrame, Swap, BandInv
  <2> QED BY <2>1, <2>2 DEF BandInv
<1>3. ASSUME NEW f \in Numbers, DeleteSingleFrame(f) PROVE BandInv'
  <2> DEFINE ii   == Place(frames, f)
             new  == IF ii > 1 THEN frames[ii - 1] ELSE frames[2]
             kept == [saved EXCEPT ![f] = NotSaved]
             w    == Without(frames, f)
             D    == Deleted(State, f)
             s    == FrameChanged(alldata, kept, f, new, Share(bands \ {f}, f, new))
  <2>1. f \in ToSet(frames) /\ Settled(D) /\ made' = made
    BY <1>3 DEF DeleteSingleFrame
  <2>2. ii \in 1..Len(frames)
    BY <2>1, PlaceHolds DEF BandInv
  <2>3. w \in Seq(Numbers) /\ Distinct(w)
    BY <2>1, WithoutOne DEF BandInv
  <2>4. kept \in Kept
    BY DEF BandInv, Kept
  <2>5. D.frames = w /\ D.bands = bands \ {f}
    BY DEF Deleted, State
  <2>6. D.alldata \in Catalogs /\ D.saved \in Kept
    <3>1. CASE frame = f /\ Len(frames) > 1
      <4>1. new \in Numbers
        BY <3>1, <2>2 DEF BandInv
      <4>2. s.alldata \in Catalogs /\ s.saved \in Kept
        <5>1. Share(bands \ {f}, f, new) \in BOOLEAN
          BY DEF Share
        <5> HIDE DEF kept, new
        <5> QED BY <4>1, <5>1, <2>4, ChangedTypes DEF BandInv
      <4>3. D.alldata = s.alldata /\ D.saved = s.saved
        BY <3>1 DEF Deleted, State, Forget
      <4> QED BY <4>2, <4>3
    <3>2. CASE ~(frame = f /\ Len(frames) > 1)
      <4>1. D.alldata \in {0, alldata} /\ D.saved = kept
        BY <3>2 DEF Deleted, State, Forget
      <4> QED BY <4>1, <2>4, <1>N DEF BandInv
    <3> QED BY <3>1, <3>2
  <2> HIDE DEF D, w
  <2>7. frames' = w /\ bands' = bands \ {f} /\ alldata' \in Catalogs /\ saved' \in Kept
        /\ frame' = (IF w = <<>> THEN NoFrame ELSE IF D.frame \in ToSet(w) THEN D.frame ELSE w[1])
    BY <2>1, <2>5, <2>6 DEF Settled
  <2>8. w # <<>> => w[1] \in ToSet(w)
    BY <2>3 DEF ToSet
  <2> QED BY <2>1, <2>3, <2>7, <2>8 DEF BandInv
<1>4. CASE \/ \E f \in Numbers : RemoveBand(f)
           \/ Clear \/ RegisterBand
           \/ UNCHANGED vars
  <2>1. frames' = frames /\ frame' = frame /\ made' = made /\ saved' = saved /\ alldata' \in Catalogs
    BY <1>4, <1>N DEF RemoveBand, Clear, RegisterBand, vars, BandInv
  <2>2. bands' \subseteq Numbers
    BY <1>4, <1>C DEF RemoveBand, Clear, RegisterBand, vars, BandInv
  <2> QED BY <2>1, <2>2 DEF BandInv
<1>5. CASE Analyse
  <2>1. made + 1 \in Catalogs
    BY <1>5 DEF Analyse, BandInv, Catalogs
  <2> QED BY <1>5, <2>1 DEF Analyse, BandInv
<1>6. ~ DeleteAllFrames
  BY DEF DeleteAllFrames, DeletesSingly
<1> QED BY <1>2, <1>3, <1>4, <1>5, <1>6, <1>7, <1>8 DEF Next

(* The only step that changes the current frame and no other is GotoFrame. *)
LEMMA OnTheWay ==
  ASSUME DeletesSingly, BandInv, [Next]_vars, frames' = frames, frame' # frame
  PROVE  /\ frame \in ToSet(frames) /\ frame \in Numbers /\ frame # NoFrame /\ frame' \in Numbers
         /\ LET s == FrameChanged(alldata, saved, frame, frame', Share(bands, frame, frame'))
            IN  alldata' = s.alldata /\ saved' = s.saved
<1> USE ConstantFacts
<1>1. ASSUME NEW n, NewFrame(n) PROVE FALSE
  <2>1. frames' = Append(frames, n) /\ n \in Numbers
    BY <1>1 DEF NewFrame
  <2>2. Len(Append(frames, n)) = Len(frames) + 1 /\ Len(frames) \in Nat
    BY <2>1 DEF BandInv
  <2> QED BY <2>1, <2>2
<1>2. ASSUME NEW f \in Numbers, DeleteSingleFrame(f) PROVE FALSE
  <2>1. f \in ToSet(frames) /\ frames' = Without(frames, f)
    BY <1>2 DEF DeleteSingleFrame, Settled, Deleted, State
  <2>2. f \notin ToSet(Without(frames, f))
    <3>1. frames \in Seq(Numbers) /\ Distinct(frames)
      BY DEF BandInv
    <3>2. ToSet(Without(frames, f)) = ToSet(frames) \ {f}
      BY <2>1, <3>1, WithoutOne
    <3> QED BY <3>2
  <2> QED BY <2>1, <2>2
<1>3. PICK f \in Numbers : GotoFrame(f)
  BY <1>1, <1>2 DEF Next, vars, CreateFrame, CreateGotoFrame, RemoveBand, Clear, RegisterBand, Analyse, DeleteAllFrames, DeletesSingly
<1>4. f \in ToSet(frames) /\ frame' = f
  BY <1>3 DEF GotoFrame, Swap
<1>5. frame \in ToSet(frames) /\ frame \in Numbers /\ frame # NoFrame
  BY <1>4 DEF BandInv, ToSet, Numbers, NoFrame
<1> QED BY <1>3, <1>4, <1>5 DEF GotoFrame, Swap

(* For users who delete frames one by one: going to another frame never      *)
(* loses the catalog on display, bands or not.                               *)
THEOREM NothingLost ==
  ASSUME DeletesSingly
  PROVE  Spec => NothingLostOnTheWay
<1>1. ASSUME BandInv, [Next]_vars, frames' = frames, frame' # frame
      PROVE  alldata \in {alldata'} \cup {saved'[f] : f \in ToSet(frames)}
  <2>1. CASE Share(bands, frame, frame')
    BY <1>1, <2>1, OnTheWay DEF FrameChanged
  <2>2. CASE ~ Share(bands, frame, frame')
    <3>1. saved' = [saved EXCEPT ![frame] = alldata] /\ frame \in ToSet(frames)
      BY <1>1, <2>2, OnTheWay DEF FrameChanged, Save
    <3>2. saved'[frame] = alldata
      BY <1>1, <3>1, OnTheWay DEF BandInv, Kept
    <3> QED BY <3>1, <3>2
  <2> QED BY <2>1, <2>2
<1>2. BandInv /\ [Next]_vars =>
        [frames' = frames /\ frame' # frame =>
           alldata \in {alldata'} \cup {saved'[f] : f \in ToSet(frames)}]_vars
  BY <1>1
<1>3. BandInv /\ [Next]_vars => BandInv'
  BY BandNext
<1> QED BY <1>2, <1>3, BandInit, PTL DEF Spec, NothingLostOnTheWay
=============================================================================
