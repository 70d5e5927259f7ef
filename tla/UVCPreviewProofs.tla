--------------------------- MODULE UVCPreviewProofs ---------------------------
(***************************************************************************)
(* Proofs about UVCPreview for any number of buffers, capture threads,      *)
(* callbacks, windows and any MAX_FRAME.                                    *)
(***************************************************************************)
EXTENDS UVCPreview, SequenceTheorems, TLAPS

-------------------------------------------------------------------------------
(* Sequences without repetition, used as sets of buffers *)

LEMMA AppendMembers ==
    ASSUME NEW S, NEW s \in Seq(S), NEW e \in S
    PROVE  /\ Append(s, e) \in Seq(S)
           /\ Len(Append(s, e)) = Len(s) + 1
           /\ \A f : InSeq(f, Append(s, e)) <=> InSeq(f, s) \/ f = e
           /\ Distinct(s) /\ ~InSeq(e, s) => Distinct(Append(s, e))
  <1> DEFINE t == Append(s, e)
  <1>1. /\ t \in Seq(S) /\ Len(t) = Len(s) + 1
        /\ \A i \in 1..Len(s) : t[i] = s[i]
        /\ t[Len(s) + 1] = e
    BY AppendProperties
  <1>2. Len(s) \in Nat
    BY LenProperties
  <1>3. ASSUME NEW f
        PROVE  InSeq(f, t) <=> InSeq(f, s) \/ f = e
    BY <1>1, <1>2 DEF InSeq
  <1>4. ASSUME Distinct(s), ~InSeq(e, s)
        PROVE  Distinct(t)
    BY <1>1, <1>2, <1>4 DEF Distinct, InSeq
  <1> QED
    BY <1>1, <1>3, <1>4

LEMMA TailMembers ==
    ASSUME NEW S, NEW s \in Seq(S), s # <<>>, Distinct(s)
    PROVE  /\ Head(s) \in S /\ InSeq(Head(s), s)
           /\ Tail(s) \in Seq(S) /\ Len(Tail(s)) <= Len(s)
           /\ Distinct(Tail(s))
           /\ \A f : InSeq(f, Tail(s)) <=> InSeq(f, s) /\ f # Head(s)
  <1> DEFINE t == Tail(s)
  <1>1. /\ Len(s) \in Nat \ {0} /\ Head(s) = s[1] /\ Head(s) \in S
        /\ t \in Seq(S) /\ Len(t) = Len(s) - 1
        /\ \A i \in 1..Len(t) : t[i] = s[i + 1]
    BY HeadTailProperties, EmptySeq, LenProperties
  <1>2. InSeq(Head(s), s)
    BY <1>1 DEF InSeq
  <1>3. Distinct(t)
    <2> SUFFICES ASSUME NEW i \in 1..Len(t), NEW j \in 1..Len(t), t[i] = t[j]
                 PROVE  i = j
      BY DEF Distinct
    <2>1. s[i + 1] = s[j + 1] /\ i + 1 \in 1..Len(s) /\ j + 1 \in 1..Len(s)
      BY <1>1
    <2> HIDE DEF t
    <2> QED
      BY <2>1 DEF Distinct
  <1>4. ASSUME NEW f, InSeq(f, t)
        PROVE  InSeq(f, s) /\ f # Head(s)
    <2>1. PICK i \in 1..Len(t) : t[i] = f
      BY <1>4 DEF InSeq
    <2>2. s[i + 1] = f /\ i + 1 \in 1..Len(s) /\ 1 \in 1..Len(s) /\ i + 1 # 1
      BY <1>1, <2>1
    <2> QED
      BY <1>1, <2>2 DEF InSeq, Distinct
  <1>5. ASSUME NEW f, InSeq(f, s), f # Head(s)
        PROVE  InSeq(f, t)
    <2>1. PICK i \in 1..Len(s) : s[i] = f
      BY <1>5 DEF InSeq
    <2>2. i - 1 \in 1..Len(t) /\ t[i - 1] = f
      BY <1>1, <1>5, <2>1
    <2> QED
      BY <2>2 DEF InSeq
  <1> QED
    BY <1>1, <1>2, <1>3, <1>4, <1>5

LEMMA Prefix ==
    ASSUME NEW S, NEW s \in Seq(S), NEW n \in 0..Len(s)
    PROVE  /\ SubSeq(s, 1, n) \in Seq(S)
           /\ Len(SubSeq(s, 1, n)) = n
           /\ \A i \in 1..n : SubSeq(s, 1, n)[i] = s[i]
  <1>1. Len(s) \in Nat /\ \A i \in 1..Len(s) : s[i] \in S
    BY LenProperties, ElementOfSeq
  <1>2. n \in Nat /\ 1 \in Int /\ n \in Int /\ \A i \in 1..n : s[i] \in S
    BY <1>1
  <1>3. /\ SubSeq(s, 1, n) \in Seq(S)
        /\ Len(SubSeq(s, 1, n)) = IF 1 <= n THEN n - 1 + 1 ELSE 0
        /\ \A i \in 1..(n - 1 + 1) : SubSeq(s, 1, n)[i] = s[1 + i - 1]
    BY <1>2, SubSeqProperties
  <1> DEFINE t == SubSeq(s, 1, n)
  <1> HIDE DEF t
  <1>4. /\ Len(t) = IF 1 <= n THEN n - 1 + 1 ELSE 0
        /\ \A i \in 1..(n - 1 + 1) : t[i] = s[1 + i - 1]
    BY <1>3 DEF t
  <1>5. Len(t) = n
    BY <1>2, <1>4
  <1>6. ASSUME NEW i \in 1..n
        PROVE  t[i] = s[i]
    BY <1>2, <1>4
  <1> QED
    BY <1>3, <1>5, <1>6 DEF t

\* taking the last element of a sequence, as ObjectArray::last does
LEMMA PopMembers ==
    ASSUME NEW S, NEW s \in Seq(S), s # <<>>, Distinct(s)
    PROVE  LET t == SubSeq(s, 1, Len(s) - 1)
               e == s[Len(s)]
           IN /\ e \in S /\ InSeq(e, s)
              /\ t \in Seq(S) /\ Len(t) <= Len(s)
              /\ Distinct(t)
              /\ \A f : InSeq(f, t) <=> InSeq(f, s) /\ f # e
  <1> DEFINE t == SubSeq(s, 1, Len(s) - 1)
             e == s[Len(s)]
  <1>1. Len(s) \in Nat \ {0} /\ \A i \in 1..Len(s) : s[i] \in S
    BY EmptySeq, LenProperties, ElementOfSeq
  <1>2. /\ t \in Seq(S) /\ Len(t) = Len(s) - 1
        /\ \A i \in 1..Len(t) : t[i] = s[i]
    <2>1. Len(s) - 1 \in 0..Len(s)
      BY <1>1
    <2> QED
      BY <2>1, Prefix
  <1> HIDE DEF t
  <1>3. e \in S /\ InSeq(e, s) /\ Len(t) <= Len(s)
    BY <1>1, <1>2 DEF InSeq
  <1>4. Distinct(t)
    BY <1>1, <1>2 DEF Distinct
  <1>5. ASSUME NEW f
        PROVE  InSeq(f, t) <=> InSeq(f, s) /\ f # e
    BY <1>1, <1>2 DEF InSeq, Distinct
  <1> QED
    BY <1>2, <1>3, <1>4, <1>5 DEF t

\* what recycling as many frames as the pool can take leaves in the pool
LEMMA ConcatMembers ==
    ASSUME NEW S, NEW s \in Seq(S), NEW q \in Seq(S), Distinct(s), Distinct(q),
           \A f : ~(InSeq(f, s) /\ InSeq(f, q)), NEW n \in 0..Len(q)
    PROVE  LET t == s \o SubSeq(q, 1, n)
           IN /\ t \in Seq(S) /\ Len(t) = Len(s) + n
              /\ Distinct(t)
              /\ \A f : InSeq(f, t) <=> InSeq(f, s) \/ \E i \in 1..n : q[i] = f
  <1> DEFINE p == SubSeq(q, 1, n)
             t == s \o p
  <1>1. /\ p \in Seq(S) /\ Len(p) = n /\ \A i \in 1..n : p[i] = q[i]
        /\ Len(s) \in Nat /\ Len(q) \in Nat /\ n \in Nat /\ n <= Len(q)
    BY Prefix, LenProperties
  <1> HIDE DEF p
  <1>2. /\ t \in Seq(S) /\ Len(t) = Len(s) + n
        /\ \A i \in 1..Len(s) + n : t[i] = IF i <= Len(s) THEN s[i] ELSE p[i - Len(s)]
    BY <1>1, ConcatProperties
  <1> HIDE DEF t
  <1>3. /\ \A i \in 1..Len(s) : t[i] = s[i] /\ InSeq(t[i], s)
        /\ \A i \in 1..n : t[Len(s) + i] = q[i] /\ InSeq(q[i], q)
    <2>1. ASSUME NEW i \in 1..Len(s)
          PROVE  t[i] = s[i] /\ InSeq(t[i], s)
      BY <1>1, <1>2 DEF InSeq
    <2>2. ASSUME NEW i \in 1..n
          PROVE  t[Len(s) + i] = q[i]
      <3>1. Len(s) + i \in 1..Len(s) + n /\ ~(Len(s) + i <= Len(s)) /\ Len(s) + i - Len(s) = i
        BY <1>1
      <3> QED
        BY <1>1, <1>2, <3>1
    <2>3. ASSUME NEW i \in 1..n
          PROVE  InSeq(q[i], q)
      BY <1>1 DEF InSeq
    <2> QED
      BY <2>1, <2>2, <2>3
  <1>4. Distinct(t)
    <2> SUFFICES ASSUME NEW i \in 1..Len(t), NEW j \in 1..Len(t), t[i] = t[j]
                 PROVE  i = j
      BY DEF Distinct
    <2>1. CASE i <= Len(s) /\ j <= Len(s)
      BY <1>1, <1>3, <2>1 DEF Distinct
    <2>2. CASE i > Len(s) /\ j > Len(s)
      <3>1. i - Len(s) \in 1..n /\ j - Len(s) \in 1..n
        BY <1>1, <1>2, <2>2
      <3>2. q[i - Len(s)] = t[i] /\ q[j - Len(s)] = t[j]
        BY <1>1, <1>2, <2>2, <3>1
      <3>3. i - Len(s) \in 1..Len(q) /\ j - Len(s) \in 1..Len(q)
        BY <1>1, <3>1
      <3>4. i - Len(s) = j - Len(s)
        BY <3>2, <3>3 DEF Distinct
      <3> QED
        BY <1>1, <1>2, <3>4
    <2>3. ASSUME NEW k \in 1..Len(s), NEW l \in 1..Len(t), l > Len(s)
          PROVE  t[k] # t[l]
      <3>1. l - Len(s) \in 1..n /\ t[l] = q[l - Len(s)]
        BY <1>1, <1>2, <2>3
      <3> QED
        BY <1>3, <3>1
    <2> QED
      BY <1>1, <1>2, <2>1, <2>2, <2>3
  <1>5. ASSUME NEW f
        PROVE  InSeq(f, t) <=> InSeq(f, s) \/ \E i \in 1..n : q[i] = f
    <2>1. ASSUME InSeq(f, t)
          PROVE  InSeq(f, s) \/ \E i \in 1..n : q[i] = f
      <3>1. PICK k \in 1..Len(s) + n : t[k] = f
        BY <1>2, <2>1 DEF InSeq
      <3>2. CASE k <= Len(s)
        BY <1>1, <1>3, <3>1, <3>2
      <3>3. CASE k > Len(s)
        <4>1. k - Len(s) \in 1..n /\ q[k - Len(s)] = f
          BY <1>1, <1>2, <3>1, <3>3
        <4> QED
          BY <4>1
      <3> QED
        BY <1>1, <3>2, <3>3
    <2>2. ASSUME InSeq(f, s)
          PROVE  InSeq(f, t)
      BY <1>1, <1>2, <1>3, <2>2 DEF InSeq
    <2>3. ASSUME NEW k \in 1..n, q[k] = f
          PROVE  InSeq(f, t)
      <3>1. Len(s) + k \in 1..Len(t) /\ t[Len(s) + k] = f
        BY <1>1, <1>2, <1>3, <2>3
      <3> QED
        BY <3>1 DEF InSeq
    <2> QED
      BY <2>1, <2>2, <2>3
  <1> QED
    BY <1>2, <1>4, <1>5 DEF t, p

-------------------------------------------------------------------------------
(* Ownership of the buffers, operation by operation.  FrameInv is what every  *)
(* operation on buffers needs and keeps.                                     *)

FrameTypes ==
    /\ mFramePool \in Seq(Frames) /\ Len(mFramePool) <= PoolSize
    /\ previewFrames \in Seq(Frames) /\ Len(previewFrames) <= MaxFrame
    /\ captureQueu \in FrameOrNull
    /\ local \in [Slots -> FrameOrNull]
    /\ allocated \in SUBSET Frames
    /\ content \in [Frames -> 0..MaxSent]

FrameInv == FrameTypes /\ OneOwner /\ NoUseAfterFree

LEMMA Sizes == PoolSize \in Nat /\ MaxFrame \in Nat /\ 0 \in 0..MaxSent /\ NULL \notin Frames
  BY PreviewAssumption DEF PoolSize

LEMMA GetFrameInv ==
    ASSUME FrameInv, UNCHANGED queueVars, NEW s \in Slots, NEW n \in 0..MaxSent,
           GetFrame(s, n)
    PROVE  FrameInv' /\ local'[s] # NULL /\ \A x \in Slots \ {s} : local'[x] = local[x]
  <1> USE DEF FrameInv
  <1>1. /\ Fetched \in Frames
        /\ ~InSeq(Fetched, previewFrames) /\ Fetched # captureQueu
        /\ \A x \in Slots : local[x] # Fetched
        /\ mFramePool' \in Seq(Frames) /\ Len(mFramePool') <= PoolSize
        /\ Distinct(mFramePool')
        /\ \A f : InSeq(f, mFramePool') <=> InSeq(f, mFramePool) /\ f # Fetched
    <2>1. CASE mFramePool = <<>>
      <3>1. FreshFrame \in Frames /\ FreshFrame \notin allocated
        BY <2>1 DEF GetFrame, Exhausted, FreshFrame
      <3>2. Len(mFramePool) = 0 /\ Fetched = FreshFrame
        BY <2>1, EmptySeq DEF Fetched
      <3>3. mFramePool' = <<>>
        BY <3>2, SubSeqEmpty DEF GetFrame
      <3>4. ~Owned(FreshFrame)
        BY <3>1 DEF NoUseAfterFree
      <3>5. \A f : ~InSeq(f, <<>>)
        BY EmptySeq DEF InSeq
      <3> QED
        BY <2>1, <3>1, <3>2, <3>3, <3>4, <3>5, EmptySeq, Sizes
        DEF Owned, FrameTypes, Distinct
    <2>2. CASE mFramePool # <<>>
      <3>1. Fetched = mFramePool[Len(mFramePool)]
            /\ mFramePool' = SubSeq(mFramePool, 1, Len(mFramePool) - 1)
        BY <2>2 DEF Fetched, GetFrame
      <3>2. mFramePool \in Seq(Frames) /\ Distinct(mFramePool)
        BY DEF FrameTypes, OneOwner
      <3>3. /\ Fetched \in Frames /\ InSeq(Fetched, mFramePool)
            /\ mFramePool' \in Seq(Frames) /\ Len(mFramePool') <= Len(mFramePool)
            /\ Distinct(mFramePool')
            /\ \A f : InSeq(f, mFramePool') <=> InSeq(f, mFramePool) /\ f # Fetched
        BY <2>2, <3>1, <3>2, PopMembers
      <3>4. Len(mFramePool') <= PoolSize
        BY <3>2, <3>3, Sizes, LenProperties DEF FrameTypes
      <3> QED
        BY <3>3, <3>4 DEF OneOwner
    <2> QED
      BY <2>1, <2>2
  <1>2. local' = [local EXCEPT ![s] = Fetched] /\ allocated' = allocated \cup {Fetched}
        /\ content' = [content EXCEPT ![Fetched] = n]
        /\ previewFrames' = previewFrames /\ captureQueu' = captureQueu
    BY DEF GetFrame, queueVars
  <1>3. FrameTypes'
    BY <1>1, <1>2 DEF FrameTypes, FrameOrNull
  <1>4. OneOwner'
    BY <1>1, <1>2, Sizes DEF OneOwner, FrameTypes
  <1>5. NoUseAfterFree'
    BY <1>1, <1>2 DEF NoUseAfterFree, Owned, FrameTypes
  <1>6. local'[s] # NULL /\ \A x \in Slots \ {s} : local'[x] = local[x]
    BY <1>1, <1>2, Sizes DEF FrameTypes
  <1> QED
    BY <1>3, <1>4, <1>5, <1>6

\* a recycled frame is in the pool or freed, and nothing else changes
LEMMA PoolOrFreeMembers ==
    ASSUME FrameInv, NEW f \in Frames, ~InSeq(f, mFramePool), f \in allocated, PoolOrFree(f)
    PROVE  /\ mFramePool' \in Seq(Frames) /\ Len(mFramePool') <= PoolSize
           /\ Distinct(mFramePool')
           /\ \A g : InSeq(g, mFramePool') => InSeq(g, mFramePool) \/ g = f
           /\ allocated' \subseteq allocated /\ allocated \ {f} \subseteq allocated'
           /\ InSeq(f, mFramePool') => f \in allocated'
           /\ content' \in [Frames -> 0..MaxSent]
  <1> USE DEF FrameInv
  <1>1. mFramePool \in Seq(Frames) /\ Distinct(mFramePool) /\ Len(mFramePool) <= PoolSize
        /\ allocated \in SUBSET Frames
    BY DEF FrameTypes, OneOwner
  <1>2. content' \in [Frames -> 0..MaxSent]
    BY Sizes DEF PoolOrFree, FrameTypes
  <1>3. CASE Len(mFramePool) < PoolSize
    <2>1. mFramePool' = Append(mFramePool, f) /\ allocated' = allocated
      BY <1>3 DEF PoolOrFree
    <2>2. /\ mFramePool' \in Seq(Frames) /\ Len(mFramePool') = Len(mFramePool) + 1
          /\ \A g : InSeq(g, mFramePool') <=> InSeq(g, mFramePool) \/ g = f
          /\ Distinct(mFramePool')
      BY <1>1, <2>1, AppendMembers
    <2>3. Len(mFramePool') <= PoolSize
      BY <1>1, <1>3, <2>2, Sizes, LenProperties
    <2> QED
      BY <1>2, <2>1, <2>2, <2>3
  <1>4. CASE ~(Len(mFramePool) < PoolSize)
    <2>1. mFramePool' = mFramePool /\ allocated' = allocated \ {f}
      BY <1>4 DEF PoolOrFree
    <2> QED
      BY <1>1, <1>2, <2>1
  <1> QED
    BY <1>3, <1>4

LEMMA RecycleInv ==
    ASSUME FrameInv, UNCHANGED queueVars, NEW s \in Slots, local[s] # NULL, Recycle(s)
    PROVE  FrameInv' /\ \A x \in Slots \ {s} : local'[x] = local[x]
  <1> USE DEF FrameInv
  <1>1. /\ local[s] \in Frames /\ ~InSeq(local[s], mFramePool) /\ local[s] \in allocated
        /\ ~InSeq(local[s], previewFrames) /\ captureQueu # local[s]
    BY DEF FrameTypes, FrameOrNull, OneOwner, NoUseAfterFree, Owned
  <1>2. PoolOrFree(local[s]) /\ local' = [local EXCEPT ![s] = NULL]
        /\ previewFrames' = previewFrames /\ captureQueu' = captureQueu
    BY DEF Recycle, queueVars
  <1>3. /\ mFramePool' \in Seq(Frames) /\ Len(mFramePool') <= PoolSize
        /\ Distinct(mFramePool')
        /\ \A g : InSeq(g, mFramePool') => InSeq(g, mFramePool) \/ g = local[s]
        /\ allocated' \subseteq allocated /\ allocated \ {local[s]} \subseteq allocated'
        /\ InSeq(local[s], mFramePool') => local[s] \in allocated'
        /\ content' \in [Frames -> 0..MaxSent]
    BY <1>1, <1>2, PoolOrFreeMembers
  <1>4. FrameTypes'
    BY <1>2, <1>3 DEF FrameTypes, FrameOrNull
  <1>5. OneOwner'
    BY <1>1, <1>2, <1>3, Sizes DEF OneOwner, FrameTypes
  <1>6. NoUseAfterFree'
    BY <1>1, <1>2, <1>3, Sizes DEF NoUseAfterFree, Owned, FrameTypes, OneOwner
  <1> QED
    BY <1>2, <1>4, <1>5, <1>6 DEF FrameTypes

LEMMA ClearCaptureFrameInv ==
    ASSUME FrameInv, ClearCaptureFrame
    PROVE  FrameInv' /\ local' = local
  <1> USE DEF FrameInv
  <1>1. CASE captureQueu = NULL
    BY <1>1 DEF ClearCaptureFrame, FrameTypes, FrameOrNull, OneOwner, NoUseAfterFree, Owned
  <1>2. CASE captureQueu # NULL
    <2>1. PoolOrFree(captureQueu) /\ captureQueu' = NULL
          /\ previewFrames' = previewFrames /\ local' = local
      BY <1>2 DEF ClearCaptureFrame
    <2>2. /\ captureQueu \in Frames /\ ~InSeq(captureQueu, mFramePool)
          /\ captureQueu \in allocated /\ ~InSeq(captureQueu, previewFrames)
          /\ \A x \in Slots : local[x] # captureQueu
      BY <1>2 DEF FrameTypes, FrameOrNull, OneOwner, NoUseAfterFree, Owned
    <2>3. /\ mFramePool' \in Seq(Frames) /\ Len(mFramePool') <= PoolSize
          /\ Distinct(mFramePool')
          /\ \A g : InSeq(g, mFramePool') => InSeq(g, mFramePool) \/ g = captureQueu
          /\ allocated' \subseteq allocated /\ allocated \ {captureQueu} \subseteq allocated'
          /\ InSeq(captureQueu, mFramePool') => captureQueu \in allocated'
          /\ content' \in [Frames -> 0..MaxSent]
      BY <2>1, <2>2, PoolOrFreeMembers
    <2>4. FrameTypes'
      BY <2>1, <2>3 DEF FrameTypes, FrameOrNull
    <2>5. OneOwner'
      BY <2>1, <2>2, <2>3, Sizes DEF OneOwner
    <2>6. NoUseAfterFree'
      BY <2>1, <2>2, <2>3, Sizes DEF NoUseAfterFree, Owned
    <2> QED
      BY <2>1, <2>4, <2>5, <2>6
  <1> QED
    BY <1>1, <1>2

LEMMA ClearPreviewFrameInv ==
    ASSUME FrameInv, ClearPreviewFrame
    PROVE  FrameInv' /\ local' = local
  <1> USE DEF FrameInv
  <1> DEFINE n == Len(previewFrames)
             free == PoolSize - Len(mFramePool)
             room == IF free < n THEN free ELSE n
  <1>1. /\ mFramePool' = mFramePool \o SubSeq(previewFrames, 1, room)
        /\ allocated' = allocated \ {previewFrames[i] : i \in room + 1 .. n}
        /\ content' = [f \in Frames |->
                         IF \E i \in 1..n : previewFrames[i] = f THEN 0 ELSE content[f]]
        /\ previewFrames' = <<>> /\ local' = local /\ captureQueu' = captureQueu
    BY DEF ClearPreviewFrame
  <1>2. /\ mFramePool \in Seq(Frames) /\ previewFrames \in Seq(Frames)
        /\ Distinct(mFramePool) /\ Distinct(previewFrames)
        /\ \A i \in 1..n : previewFrames[i] \in Frames
    BY ElementOfSeq DEF FrameTypes, OneOwner
  <1>3. \A f : ~(InSeq(f, mFramePool) /\ InSeq(f, previewFrames))
    <2>1. ASSUME NEW f, InSeq(f, previewFrames)
          PROVE  f \in Frames
      BY <1>2, <2>1 DEF InSeq
    <2> QED
      BY <2>1 DEF OneOwner
  <1>4. n \in Nat /\ Len(mFramePool) \in Nat /\ Len(mFramePool) <= PoolSize /\ room \in 0..n
        /\ Len(mFramePool) + room <= PoolSize
    BY <1>2, Sizes, LenProperties DEF FrameTypes
  <1>5. /\ mFramePool' \in Seq(Frames) /\ Len(mFramePool') = Len(mFramePool) + room
        /\ Distinct(mFramePool')
        /\ \A f : InSeq(f, mFramePool') <=>
                    InSeq(f, mFramePool) \/ \E i \in 1..room : previewFrames[i] = f
    BY <1>1, <1>2, <1>3, <1>4, ConcatMembers
  <1>6. previewFrames' \in Seq(Frames) /\ Len(previewFrames') = 0 /\ Distinct(previewFrames')
        /\ \A f : ~InSeq(f, previewFrames')
    BY <1>1, EmptySeq DEF Distinct, InSeq
  <1>7. \A i \in 1..room : InSeq(previewFrames[i], previewFrames) /\ previewFrames[i] \in Frames
    BY <1>2, <1>4 DEF InSeq
  <1>8. FrameTypes'
    <2>1. content' \in [Frames -> 0..MaxSent]
      BY <1>1, Sizes DEF FrameTypes
    <2>2. Len(mFramePool') <= PoolSize /\ Len(previewFrames') <= MaxFrame
      BY <1>4, <1>5, <1>6, Sizes
    <2> HIDE DEF n, room
    <2> QED
      BY <1>1, <1>5, <1>6, <2>1, <2>2 DEF FrameTypes
  <1>9. OneOwner'
    <2> HIDE DEF n, room
    <2> QED
      BY <1>1, <1>5, <1>6, <1>7 DEF OneOwner
  <1>10. NoUseAfterFree'
    <2> SUFFICES ASSUME NEW f \in Frames, Owned(f)'
                 PROVE  f \in allocated'
      BY DEF NoUseAfterFree
    <2>1. f \in allocated
      BY <1>1, <1>5, <1>6, <1>7 DEF Owned, NoUseAfterFree
    <2>2. ASSUME NEW i \in room + 1 .. n
          PROVE  f # previewFrames[i]
      <3>1. i \in 1..n /\ i \notin 1..room
        BY <1>4
      <3>2. InSeq(previewFrames[i], previewFrames)
        BY <3>1 DEF InSeq
      <3>3. \A j \in 1..room : previewFrames[j] # previewFrames[i]
        BY <1>2, <1>4, <3>1 DEF Distinct
      <3> QED
        BY <1>1, <1>3, <1>5, <1>6, <1>2, <3>1, <3>2, <3>3 DEF Owned, OneOwner
    <2> QED
      BY <1>1, <2>1, <2>2
  <1> QED
    BY <1>1, <1>8, <1>9, <1>10

\* addPreviewFrame: from the thread's variable to the end of the queue
LEMMA QueueFrameInv ==
    ASSUME FrameInv, NEW s \in Slots, local[s] # NULL, HasRoom,
           previewFrames' = Queued(local[s]), local' = [local EXCEPT ![s] = NULL],
           UNCHANGED <<mFramePool, allocated, content, captureQueu>>
    PROVE  FrameInv' /\ \A x \in Slots \ {s} : local'[x] = local[x]
  <1> USE DEF FrameInv
  <1>1. /\ local[s] \in Frames /\ ~InSeq(local[s], mFramePool) /\ local[s] \in allocated
        /\ ~InSeq(local[s], previewFrames) /\ captureQueu # local[s]
        /\ previewFrames \in Seq(Frames) /\ Distinct(previewFrames)
    BY DEF FrameTypes, FrameOrNull, OneOwner, NoUseAfterFree, Owned
  <1>2. /\ previewFrames' \in Seq(Frames) /\ Len(previewFrames') = Len(previewFrames) + 1
        /\ \A f : InSeq(f, previewFrames') <=> InSeq(f, previewFrames) \/ f = local[s]
        /\ Distinct(previewFrames')
    BY <1>1, AppendMembers DEF Queued
  <1>3. Len(previewFrames') <= MaxFrame
    BY <1>1, <1>2, Sizes, LenProperties DEF HasRoom
  <1>4. FrameTypes'
    BY <1>2, <1>3 DEF FrameTypes, FrameOrNull
  <1>5. OneOwner'
    BY <1>1, <1>2, Sizes DEF OneOwner, FrameTypes
  <1>6. NoUseAfterFree'
    BY <1>1, <1>2, Sizes DEF NoUseAfterFree, Owned, FrameTypes
  <1> QED
    BY <1>4, <1>5, <1>6 DEF FrameTypes

\* waitPreviewFrame: from the head of the queue to the thread's variable
LEMMA DequeueFrameInv ==
    ASSUME FrameInv, NEW s \in Slots, previewFrames # <<>>,
           previewFrames' = Tail(previewFrames),
           local' = [local EXCEPT ![s] = Head(previewFrames)],
           UNCHANGED <<mFramePool, allocated, content, captureQueu>>
    PROVE  /\ FrameInv' /\ local'[s] # NULL
           /\ \A x \in Slots \ {s} : local'[x] = local[x]
  <1> USE DEF FrameInv
  <1> DEFINE h == Head(previewFrames)
  <1>1. previewFrames \in Seq(Frames) /\ Distinct(previewFrames)
    BY DEF FrameTypes, OneOwner
  <1>2. /\ h \in Frames /\ InSeq(h, previewFrames)
        /\ previewFrames' \in Seq(Frames) /\ Len(previewFrames') <= Len(previewFrames)
        /\ Distinct(previewFrames')
        /\ \A f : InSeq(f, previewFrames') <=> InSeq(f, previewFrames) /\ f # h
    BY <1>1, TailMembers
  <1>3. Len(previewFrames') <= MaxFrame
    BY <1>1, <1>2, Sizes, LenProperties DEF FrameTypes
  <1>4. local' = [local EXCEPT ![s] = h]
    OBVIOUS
  <1> HIDE DEF h
  <1>5. FrameTypes'
    BY <1>2, <1>3, <1>4 DEF FrameTypes, FrameOrNull
  <1>6. OneOwner'
    BY <1>2, <1>4, Sizes DEF OneOwner, FrameTypes
  <1>7. NoUseAfterFree'
    BY <1>2, <1>4, Sizes DEF NoUseAfterFree, Owned, FrameTypes
  <1> QED
    BY <1>2, <1>4, <1>5, <1>6, <1>7, Sizes DEF FrameTypes

\* waitCaptureFrame: from captureQueu to the thread's variable
LEMMA TakeCapturedInv ==
    ASSUME FrameInv, NEW s \in Slots, captureQueu # NULL, captureQueu' = NULL,
           local' = [local EXCEPT ![s] = captureQueu],
           UNCHANGED <<mFramePool, allocated, content, previewFrames>>
    PROVE  /\ FrameInv' /\ local'[s] # NULL
           /\ \A x \in Slots \ {s} : local'[x] = local[x]
  <1> USE DEF FrameInv
  <1>1. captureQueu \in Frames
    BY DEF FrameTypes, FrameOrNull
  <1>2. FrameTypes'
    BY <1>1 DEF FrameTypes, FrameOrNull
  <1>3. OneOwner'
    BY <1>1, Sizes DEF OneOwner, FrameTypes
  <1>4. NoUseAfterFree'
    BY <1>1, Sizes DEF NoUseAfterFree, Owned, FrameTypes
  <1> QED
    BY <1>1, <1>2, <1>3, <1>4, Sizes DEF FrameTypes

\* addCaptureFrame: the frame replaces the one in captureQueu, which is recycled;
\* of a preview that has been stopped it is dropped
LEMMA AddCaptureFrameInv ==
    ASSUME FrameInv, local[Frame] # NULL, AddCaptureFrame
    PROVE  FrameInv' /\ \A x \in Slots \ {Frame} : local'[x] = local[x]
  <1> USE DEF FrameInv
  <1>1. Frame \in Slots /\ local' = [local EXCEPT ![Frame] = NULL]
        /\ previewFrames' = previewFrames
    BY DEF AddCaptureFrame, Slots
  <1>2. /\ local[Frame] \in Frames /\ ~InSeq(local[Frame], mFramePool)
        /\ ~InSeq(local[Frame], previewFrames) /\ captureQueu # local[Frame]
        /\ local[Frame] \in allocated
    BY <1>1 DEF FrameTypes, FrameOrNull, OneOwner, NoUseAfterFree, Owned
  <1>3. \A x \in Slots \ {Frame} : local'[x] = local[x] /\ local[x] # local[Frame]
    BY <1>1, <1>2, Sizes DEF FrameTypes, OneOwner
  <1>4. CASE ~mIsRunning
    <2>1. UNCHANGED <<mFramePool, allocated, content, captureQueu>>
      BY <1>4 DEF AddCaptureFrame
    <2>2. FrameTypes'
      BY <1>1, <2>1 DEF FrameTypes, FrameOrNull
    <2>3. OneOwner'
      BY <1>1, <2>1, Sizes DEF OneOwner, FrameTypes
    <2>4. NoUseAfterFree'
      BY <1>1, <2>1, Sizes DEF NoUseAfterFree, Owned, FrameTypes
    <2> QED
      BY <1>3, <2>2, <2>3, <2>4
  <1>5. CASE mIsRunning /\ captureQueu = NULL
    <2>1. UNCHANGED <<mFramePool, allocated, content>> /\ captureQueu' = local[Frame]
      BY <1>5 DEF AddCaptureFrame
    <2>2. FrameTypes'
      BY <1>1, <1>2, <2>1 DEF FrameTypes, FrameOrNull
    <2>3. OneOwner'
      BY <1>1, <1>2, <1>3, <2>1, Sizes DEF OneOwner, FrameTypes
    <2>4. NoUseAfterFree'
      BY <1>1, <1>2, <2>1, Sizes DEF NoUseAfterFree, Owned, FrameTypes
    <2> QED
      BY <1>3, <2>2, <2>3, <2>4
  <1>6. CASE mIsRunning /\ captureQueu # NULL
    <2>1. PoolOrFree(captureQueu) /\ captureQueu' = local[Frame]
      BY <1>6 DEF AddCaptureFrame
    <2>2. /\ captureQueu \in Frames /\ ~InSeq(captureQueu, mFramePool)
          /\ captureQueu \in allocated /\ ~InSeq(captureQueu, previewFrames)
          /\ \A x \in Slots : local[x] # captureQueu
      BY <1>6 DEF FrameTypes, FrameOrNull, OneOwner, NoUseAfterFree, Owned
    <2>3. /\ mFramePool' \in Seq(Frames) /\ Len(mFramePool') <= PoolSize
          /\ Distinct(mFramePool')
          /\ \A g : InSeq(g, mFramePool') => InSeq(g, mFramePool) \/ g = captureQueu
          /\ allocated' \subseteq allocated /\ allocated \ {captureQueu} \subseteq allocated'
          /\ InSeq(captureQueu, mFramePool') => captureQueu \in allocated'
          /\ content' \in [Frames -> 0..MaxSent]
      BY <2>1, <2>2, PoolOrFreeMembers
    <2>4. FrameTypes'
      BY <1>1, <1>2, <2>1, <2>3 DEF FrameTypes, FrameOrNull
    <2>5. OneOwner'
      BY <1>1, <1>2, <1>3, <2>1, <2>2, <2>3, Sizes DEF OneOwner, FrameTypes
    <2>6. NoUseAfterFree'
      BY <1>1, <1>2, <1>3, <2>1, <2>2, <2>3, Sizes DEF NoUseAfterFree, Owned, FrameTypes
    <2> QED
      BY <1>3, <2>4, <2>5, <2>6
  <1> QED
    BY <1>4, <1>5, <1>6

LEMMA DeletePreviewInv ==
    ASSUME FrameInv, DeletePreview
    PROVE  FrameInv' /\ local' = local
  <1> USE DEF FrameInv
  <1>1. /\ mFramePool' = <<>> /\ previewFrames' = <<>> /\ captureQueu' = NULL
        /\ local' = local /\ content' = content /\ allocated' \subseteq allocated
        /\ \A f \in allocated :
              ~InSeq(f, mFramePool) /\ ~InSeq(f, previewFrames) /\ f # captureQueu
                => f \in allocated'
    BY DEF DeletePreview, InSeq
  <1>2. <<>> \in Seq(Frames) /\ Len(<<>>) = 0 /\ Distinct(<<>>) /\ \A f : ~InSeq(f, <<>>)
    BY EmptySeq DEF Distinct, InSeq
  <1>3. FrameTypes'
    BY <1>1, <1>2, Sizes DEF FrameTypes, FrameOrNull
  <1>4. OneOwner'
    BY <1>1, <1>2, Sizes DEF OneOwner
  <1>5. NoUseAfterFree'
    BY <1>1, <1>2, Sizes DEF NoUseAfterFree, Owned, OneOwner
  <1> QED
    BY <1>1, <1>3, <1>4, <1>5

-------------------------------------------------------------------------------
(* The inductive invariant.  An operation on buffers keeps FrameInv only if   *)
(* the thread holds the frame it hands over, hence NoNullFrame; a setter that *)
(* slept installs what it was called with, hence RequestTyped.               *)

PcTypes ==
    /\ pc \in [Threads -> ControlPC \cup UsbPC \cup PreviewPC \cup CapturePC]
    /\ pc["control"] \in ControlPC /\ pc["usb"] \in UsbPC /\ pc["preview"] \in PreviewPC
    /\ \A c \in CaptureThreads : pc[c] \in CapturePC

RestTypes ==
    /\ mIsRunning \in BOOLEAN /\ mIsCapturing \in BOOLEAN
    /\ mPreviewWindow \in Windows \cup {NULL} /\ mCaptureWindow \in CaptureWindows \cup {NULL}
    /\ mFrameCallbackObj \in Callbacks \cup {NULL}
    /\ mPixelFormat \in PixelFormats \cup {NULL}
    /\ preview_sync \in SUBSET {"preview"}
    /\ capture_sync \in SUBSET ({"control"} \cup CaptureThreads)
    /\ capture_thread \in CaptureThreads \cup {NULL}
    /\ surface \in [CaptureThreads -> BOOLEAN]
    /\ request \in (Callbacks \cup CaptureWindows \cup {NULL}) \X (PixelFormats \cup {NULL})
    /\ closing \in BOOLEAN /\ streaming \in BOOLEAN
    /\ sent \in 0..MaxSent /\ delivered \in 0..MaxSent /\ starts \in 0..MaxStarts

RequestTyped ==
    /\ pc["control"] \in {"setFrameCallback", "stop.setFrameCallback"}
         => request[1] \in Callbacks \cup {NULL}
    /\ pc["control"] = "setCaptureDisplay" => request[1] \in CaptureWindows \cup {NULL}

IInv == FrameInv /\ PcTypes /\ RestTypes /\ NoNullFrame /\ RequestTyped

LEMMA SlotFacts ==
    /\ {Copy, MjpegIn, Frame, Converted} \subseteq Slots
    /\ Copy # MjpegIn /\ Copy # Frame /\ Copy # Converted
    /\ MjpegIn # Frame /\ MjpegIn # Converted /\ Frame # Converted
    /\ \A c \in CaptureThreads :
          /\ {CapFrame(c), CapConverted(c), CapCallback(c)} \subseteq Slots
          /\ CapFrame(c) # CapConverted(c) /\ CapFrame(c) # CapCallback(c)
          /\ CapConverted(c) # CapCallback(c)
          /\ {CapFrame(c), CapConverted(c), CapCallback(c)}
                \cap {Copy, MjpegIn, Frame, Converted} = {}
    /\ \A c, d \in CaptureThreads : c # d =>
          {CapFrame(c), CapConverted(c), CapCallback(c)}
             \cap {CapFrame(d), CapConverted(d), CapCallback(d)} = {}
  BY PreviewAssumption
  DEF Slots, Copy, MjpegIn, Frame, Converted, CapFrame, CapConverted, CapCallback, Fixed

LEMMA ThreadFacts ==
    /\ {"control", "usb", "preview"} \subseteq Threads /\ CaptureThreads \subseteq Threads
    /\ \A c \in CaptureThreads : c # "control" /\ c # "usb" /\ c # "preview" /\ c # NULL
  BY PreviewAssumption DEF Threads, Fixed

LEMMA FramesUnchanged ==
    ASSUME FrameInv, UNCHANGED <<frameVars, queueVars>>
    PROVE  FrameInv' /\ local' = local
  <1>1. /\ mFramePool' = mFramePool /\ previewFrames' = previewFrames
        /\ captureQueu' = captureQueu /\ local' = local
        /\ allocated' = allocated /\ content' = content
    BY DEF frameVars, queueVars
  <1> QED
    BY <1>1 DEF FrameInv, FrameTypes, OneOwner, NoUseAfterFree, Owned

\* the USB thread touches only its own variable Copy
LEMMA UsbStep ==
    ASSUME IInv, Usb
    PROVE  IInv'
  <1> USE DEF IInv
  <1>1. CASE DeliverFrame
    <2>1. FrameInv' /\ local' = local
      BY <1>1, FramesUnchanged DEF DeliverFrame
    <2>2. PcTypes' /\ RestTypes'
      BY <1>1, ThreadFacts, PreviewAssumption
      DEF DeliverFrame, usbFrame, flagVars, targetVars, requestVars, captureVars, syncVars,
          PcTypes, RestTypes, UsbPC
    <2>3. NoNullFrame' /\ RequestTyped'
      BY <1>1, <2>1, ThreadFacts
      DEF DeliverFrame, usbFrame, requestVars, PcTypes, NoNullFrame, UsbHolds, PreviewHolds,
          CaptureHolds, CallbackSlot, RequestTyped
    <2> QED
      BY <2>1, <2>2, <2>3
  <1>2. CASE CopyFrame
    <2>1. PcTypes' /\ RestTypes' /\ RequestTyped'
      BY <1>2, ThreadFacts
      DEF CopyFrame, Goto, usbFrame, flagVars, targetVars, requestVars, captureVars, syncVars,
          PcTypes, RestTypes, UsbPC, RequestTyped
    <2>2. CASE UNCHANGED frameVars /\ pc'["usb"] = "idle"
      <3>1. FrameInv' /\ local' = local
        BY <1>2, <2>2, FramesUnchanged DEF CopyFrame
      <3>2. NoNullFrame'
        BY <1>2, <2>2, <3>1, ThreadFacts
        DEF CopyFrame, Goto, PcTypes, NoNullFrame, UsbHolds, PreviewHolds, CaptureHolds,
            CallbackSlot
      <3> QED
        BY <2>1, <3>1, <3>2
    <2>3. CASE GetFrame(Copy, sent)
      <3>1. FrameInv' /\ local'[Copy] # NULL /\ \A x \in Slots \ {Copy} : local'[x] = local[x]
        BY <1>2, <2>3, GetFrameInv, SlotFacts DEF CopyFrame, RestTypes
      <3>2. NoNullFrame'
        BY <1>2, <3>1, ThreadFacts, SlotFacts
        DEF CopyFrame, Goto, PcTypes, NoNullFrame, UsbHolds, PreviewHolds, CaptureHolds,
            CallbackSlot
      <3> QED
        BY <2>1, <3>1, <3>2
    <2> QED
      BY <1>2, <2>2, <2>3, ThreadFacts DEF CopyFrame, Goto, PcTypes
  <1>3. CASE AddPreviewFrame
    <2>1. PcTypes' /\ RestTypes' /\ RequestTyped'
      <3>1. PcTypes'
        BY <1>3, ThreadFacts DEF AddPreviewFrame, Goto, PcTypes, UsbPC
      <3>2. RestTypes'
        <4>1. UNCHANGED <<usbFrame, sent, capture_sync>> /\ preview_sync' \in SUBSET {"preview"}
          BY <1>3 DEF AddPreviewFrame, SignalPreview, RestTypes
        <4> QED
          BY <4>1 DEF usbFrame, flagVars, targetVars, requestVars, captureVars, RestTypes
      <3>3. RequestTyped'
        BY <1>3, ThreadFacts DEF AddPreviewFrame, Goto, usbFrame, requestVars, PcTypes,
                                 RequestTyped
      <3> QED
        BY <3>1, <3>2, <3>3
    <2>2. CASE mIsRunning /\ HasRoom
      <3>1. FrameInv' /\ \A x \in Slots \ {Copy} : local'[x] = local[x]
        BY <1>3, <2>2, QueueFrameInv, SlotFacts
        DEF AddPreviewFrame, Goto, NoNullFrame, UsbHolds
      <3>2. NoNullFrame'
        BY <1>3, <2>2, <3>1, ThreadFacts, SlotFacts
        DEF AddPreviewFrame, Goto, PcTypes, NoNullFrame, UsbHolds, PreviewHolds,
            CaptureHolds, CallbackSlot
      <3> QED
        BY <2>1, <3>1, <3>2
    <2>3. CASE ~(mIsRunning /\ HasRoom)
      <3>1. FrameInv' /\ local' = local
        BY <1>3, <2>3, FramesUnchanged DEF AddPreviewFrame, frameVars, queueVars
      <3>2. NoNullFrame'
        BY <1>3, <2>3, <3>1, ThreadFacts
        DEF AddPreviewFrame, Goto, PcTypes, NoNullFrame, UsbHolds, PreviewHolds,
            CaptureHolds, CallbackSlot
      <3> QED
        BY <2>1, <3>1, <3>2
    <2> QED
      BY <2>2, <2>3
  <1>4. CASE RecycleCopy
    <2>1. FrameInv' /\ \A x \in Slots \ {Copy} : local'[x] = local[x]
      BY <1>4, RecycleInv, SlotFacts
      DEF RecycleCopy, Goto, NoNullFrame, UsbHolds
    <2>2. PcTypes' /\ RestTypes' /\ RequestTyped'
      BY <1>4, ThreadFacts
      DEF RecycleCopy, Goto, usbFrame, flagVars, targetVars, requestVars, captureVars,
          syncVars, PcTypes, RestTypes, UsbPC, RequestTyped
    <2>3. NoNullFrame'
      BY <1>4, <2>1, ThreadFacts, SlotFacts
      DEF RecycleCopy, Goto, PcTypes, NoNullFrame, UsbHolds, PreviewHolds, CaptureHolds,
          CallbackSlot
    <2> QED
      BY <2>1, <2>2, <2>3
  <1> QED
    BY <1>1, <1>2, <1>3, <1>4 DEF Usb

LEMMA TakePreviewFrameInv ==
    ASSUME IInv, NEW from, TakePreviewFrame(from)
    PROVE  FrameInv' /\ NoNullFrame'
  <1> USE DEF IInv
  <1>1. CASE mIsRunning /\ previewFrames # <<>>
    <2> DEFINE s == IF Mjpeg THEN MjpegIn ELSE Frame
    <2>1. s \in Slots
      BY SlotFacts
    <2>2. previewFrames' = Tail(previewFrames) /\ local' = [local EXCEPT ![s] = Head(previewFrames)]
          /\ UNCHANGED <<mFramePool, allocated, content, captureQueu>>
      BY <1>1 DEF TakePreviewFrame
    <2> HIDE DEF s
    <2>3. FrameInv' /\ local'[s] # NULL /\ \A x \in Slots \ {s} : local'[x] = local[x]
      BY <1>1, <2>1, <2>2, DequeueFrameInv
    <2>4. pc' = [pc EXCEPT !["preview"] = IF Mjpeg THEN "decode" ELSE "draw"]
      BY <1>1 DEF TakePreviewFrame, Goto
    <2>5. NoNullFrame'
      BY <2>3, <2>4, ThreadFacts, SlotFacts
      DEF s, PcTypes, NoNullFrame, UsbHolds, PreviewHolds, CaptureHolds, CallbackSlot
    <2> QED
      BY <2>3, <2>5
  <1>2. CASE ~(mIsRunning /\ previewFrames # <<>>)
    <2>1. FrameInv' /\ local' = local
      BY <1>2, FramesUnchanged DEF TakePreviewFrame, frameVars, queueVars
    <2>2. NoNullFrame'
      BY <1>2, <2>1, ThreadFacts
      DEF TakePreviewFrame, Goto, PcTypes, NoNullFrame, UsbHolds, PreviewHolds,
          CaptureHolds, CallbackSlot
    <2> QED
      BY <2>1, <2>2
  <1> QED
    BY <1>1, <1>2

\* the preview thread touches only MjpegIn, Frame and Converted
LEMMA PreviewStep ==
    ASSUME IInv, Preview
    PROVE  IInv'
  <1> USE DEF IInv
  <1>1. CASE PreparePreview
    <2>1. FrameInv' /\ local' = local
      BY <1>1, FramesUnchanged DEF PreparePreview
    <2>2. PcTypes'
      BY <1>1, ThreadFacts DEF PreparePreview, Goto, PreviewPC, PcTypes
    <2>3. RestTypes'
      BY <1>1, ThreadFacts
      DEF PreparePreview, previewLocal, previewFrame, flagVars, targetVars,
          requestVars, syncVars, RestTypes
    <2>4. NoNullFrame' /\ RequestTyped'
      BY <1>1, <2>1, ThreadFacts
      DEF PreparePreview, Goto, PreviewPC, previewLocal, previewFrame, flagVars,
          targetVars, requestVars, syncVars, PcTypes, NoNullFrame, UsbHolds,
          PreviewHolds, CaptureHolds, CallbackSlot, RequestTyped
    <2> QED
      BY <2>1, <2>2, <2>3, <2>4
  <1>2. CASE StartStreaming
    <2>1. FrameInv' /\ local' = local
      BY <1>2, FramesUnchanged DEF StartStreaming
    <2>2. PcTypes'
      BY <1>2, ThreadFacts DEF StartStreaming, Goto, PreviewPC, PcTypes
    <2>3. RestTypes'
      BY <1>2, ThreadFacts
      DEF StartStreaming, previewLocal, previewFrame, flagVars, targetVars,
          requestVars, syncVars, RestTypes
    <2>4. NoNullFrame' /\ RequestTyped'
      BY <1>2, <2>1, ThreadFacts
      DEF StartStreaming, Goto, PreviewPC, previewLocal, previewFrame, flagVars,
          targetVars, requestVars, syncVars, PcTypes, NoNullFrame, UsbHolds,
          PreviewHolds, CaptureHolds, CallbackSlot, RequestTyped
    <2> QED
      BY <2>1, <2>2, <2>3, <2>4
  <1>3. CASE ClearStalePreview
    <2>1. FrameInv' /\ local' = local
      BY <1>3, ClearPreviewFrameInv DEF ClearStalePreview
    <2>2. PcTypes'
      BY <1>3, ThreadFacts DEF ClearStalePreview, Goto, PreviewPC, PcTypes
    <2>3. RestTypes'
      BY <1>3, ThreadFacts
      DEF ClearStalePreview, previewLocal, previewFrame, flagVars, targetVars,
          requestVars, syncVars, RestTypes
    <2>4. NoNullFrame' /\ RequestTyped'
      BY <1>3, <2>1, ThreadFacts
      DEF ClearStalePreview, Goto, PreviewPC, previewLocal, previewFrame,
          requestVars, PcTypes, NoNullFrame, UsbHolds, PreviewHolds, CaptureHolds,
          CallbackSlot, RequestTyped
    <2> QED
      BY <2>1, <2>2, <2>3, <2>4
  <1>4. CASE CreateCaptureThread
    <2>1. FrameInv' /\ local' = local
      BY <1>4, FramesUnchanged DEF CreateCaptureThread
    <2>2. PcTypes'
      BY <1>4, ThreadFacts DEF CreateCaptureThread, PreviewPC, CapturePC, PcTypes
    <2>3. RestTypes'
      BY <1>4, ThreadFacts
      DEF CreateCaptureThread, previewLocal, previewFrame, flagVars, targetVars,
          requestVars, syncVars, RestTypes
    <2>4. NoNullFrame' /\ RequestTyped'
      BY <1>4, <2>1, ThreadFacts
      DEF CreateCaptureThread, PreviewPC, CapturePC, previewLocal, previewFrame,
          flagVars, targetVars, requestVars, syncVars, PcTypes, NoNullFrame, UsbHolds,
          PreviewHolds, CaptureHolds, CallbackSlot, RequestTyped
    <2> QED
      BY <2>1, <2>2, <2>3, <2>4
  <1>5. CASE PreviewLoop
    <2>1. FrameInv' /\ local' = local
      BY <1>5, FramesUnchanged DEF PreviewLoop
    <2>2. PcTypes'
      BY <1>5, ThreadFacts DEF PreviewLoop, Goto, PreviewPC, PcTypes
    <2>3. RestTypes'
      BY <1>5, ThreadFacts
      DEF PreviewLoop, previewLocal, previewFrame, flagVars, targetVars,
          requestVars, syncVars, RestTypes
    <2>4. NoNullFrame' /\ RequestTyped'
      BY <1>5, <2>1, ThreadFacts
      DEF PreviewLoop, Goto, PreviewPC, previewLocal, previewFrame, flagVars,
          targetVars, requestVars, syncVars, PcTypes, NoNullFrame, UsbHolds,
          PreviewHolds, CaptureHolds, CallbackSlot, RequestTyped
    <2> QED
      BY <2>1, <2>2, <2>3, <2>4
  <1>6. CASE WaitPreviewFrame
    <2>2. PcTypes'
      BY <1>6, ThreadFacts
      DEF WaitPreviewFrame, TakePreviewFrame, Goto, PreviewPC, PcTypes
    <2>3. RestTypes'
      BY <1>6, ThreadFacts
      DEF WaitPreviewFrame, previewLocal, previewFrame, flagVars, targetVars,
          requestVars, syncVars, RestTypes
    <2>4. RequestTyped'
      BY <1>6, ThreadFacts
      DEF WaitPreviewFrame, TakePreviewFrame, Goto, PreviewPC, previewLocal,
          previewFrame, requestVars, PcTypes, RequestTyped
    <2>5. CASE previewFrames = <<>>
      <3>1. FrameInv' /\ local' = local
        BY <1>6, <2>5, FramesUnchanged DEF WaitPreviewFrame
      <3>2. NoNullFrame'
        BY <1>6, <2>5, <3>1, ThreadFacts
        DEF WaitPreviewFrame, Goto, PcTypes, NoNullFrame, UsbHolds, PreviewHolds,
            CaptureHolds, CallbackSlot
      <3> QED
        BY <2>2, <2>3, <2>4, <3>1, <3>2
    <2>6. CASE previewFrames # <<>>
      <3>1. TakePreviewFrame("wait")
        BY <1>6, <2>6 DEF WaitPreviewFrame
      <3>2. FrameInv' /\ NoNullFrame'
        BY <3>1, TakePreviewFrameInv
      <3> QED
        BY <2>2, <2>3, <2>4, <3>2
    <2> QED
      BY <2>5, <2>6
  <1>7. CASE WakePreviewFrame
    <2>2. PcTypes'
      BY <1>7, ThreadFacts
      DEF WakePreviewFrame, TakePreviewFrame, Goto, PreviewPC, PcTypes
    <2>3. RestTypes'
      BY <1>7, ThreadFacts
      DEF WakePreviewFrame, previewLocal, previewFrame, flagVars, targetVars,
          requestVars, syncVars, RestTypes
    <2>4. RequestTyped'
      BY <1>7, ThreadFacts
      DEF WakePreviewFrame, TakePreviewFrame, Goto, PreviewPC, previewLocal,
          previewFrame, requestVars, PcTypes, RequestTyped
    <2>5. FrameInv' /\ NoNullFrame'
      BY <1>7, TakePreviewFrameInv DEF WakePreviewFrame
    <2> QED
      BY <2>2, <2>3, <2>4, <2>5
  <1>8. CASE DecodeFrame
    <2>1. PcTypes'
      BY <1>8, ThreadFacts DEF DecodeFrame, Goto, PreviewPC, PcTypes
    <2>2. RestTypes'
      BY <1>8, ThreadFacts
      DEF DecodeFrame, previewLocal, previewFrame, flagVars, targetVars,
          requestVars, syncVars, RestTypes
    <2>3. RequestTyped'
      BY <1>8, ThreadFacts
      DEF DecodeFrame, Goto, previewLocal, previewFrame, requestVars, PcTypes,
          RequestTyped
    <2>4. CASE /\ Goto("preview", "decode", "decoded") \/ Goto("preview", "decode", "undecoded")
               /\ GetFrame(Frame, content[local[MjpegIn]])
      <3>1. local[MjpegIn] \in Frames
        BY <2>4, SlotFacts
        DEF Goto, NoNullFrame, PreviewHolds, FrameInv, FrameTypes, FrameOrNull
      <3>2. content[local[MjpegIn]] \in 0..MaxSent
        BY <3>1 DEF FrameInv, FrameTypes
      <3>3. FrameInv' /\ local'[Frame] # NULL
            /\ \A x \in Slots \ {Frame} : local'[x] = local[x]
        BY <1>8, <2>4, <3>2, GetFrameInv, SlotFacts DEF DecodeFrame
      <3>4. NoNullFrame'
        BY <2>4, <3>3, ThreadFacts, SlotFacts
        DEF Goto, PcTypes, NoNullFrame, UsbHolds, PreviewHolds, CaptureHolds,
            CallbackSlot
      <3> QED
        BY <2>1, <2>2, <2>3, <3>3, <3>4
    <2>5. CASE Goto("preview", "decode", "crashed") /\ UNCHANGED frameVars
      <3>1. FrameInv' /\ local' = local
        BY <1>8, <2>5, FramesUnchanged DEF DecodeFrame
      <3>2. NoNullFrame'
        BY <2>5, <3>1, ThreadFacts
        DEF Goto, PcTypes, NoNullFrame, UsbHolds, PreviewHolds, CaptureHolds,
            CallbackSlot
      <3> QED
        BY <2>1, <2>2, <2>3, <3>1, <3>2
    <2> QED
      BY <1>8, <2>4, <2>5 DEF DecodeFrame
  <1>9. CASE RecycleMjpeg
    <2>1. FrameInv' /\ \A x \in Slots \ {MjpegIn} : local'[x] = local[x]
      BY <1>9, RecycleInv, SlotFacts DEF RecycleMjpeg, Goto, NoNullFrame, PreviewHolds
    <2>2. PcTypes'
      BY <1>9, ThreadFacts DEF RecycleMjpeg, Goto, PreviewPC, PcTypes
    <2>3. RestTypes'
      BY <1>9, ThreadFacts
      DEF RecycleMjpeg, previewLocal, previewFrame, flagVars, targetVars,
          requestVars, syncVars, RestTypes
    <2>4. NoNullFrame' /\ RequestTyped'
      BY <1>9, <2>1, ThreadFacts, SlotFacts
      DEF RecycleMjpeg, Goto, previewLocal, previewFrame, requestVars, PcTypes,
          NoNullFrame, UsbHolds, PreviewHolds, CaptureHolds, CallbackSlot, RequestTyped
    <2> QED
      BY <2>1, <2>2, <2>3, <2>4
  <1>10. CASE DropFrame
    <2>1. FrameInv' /\ \A x \in Slots \ {Frame} : local'[x] = local[x]
      BY <1>10, RecycleInv, SlotFacts DEF DropFrame, Goto, NoNullFrame, PreviewHolds
    <2>2. PcTypes'
      BY <1>10, ThreadFacts DEF DropFrame, Goto, PreviewPC, PcTypes
    <2>3. RestTypes'
      BY <1>10, ThreadFacts
      DEF DropFrame, previewLocal, previewFrame, flagVars, targetVars, requestVars,
          syncVars, RestTypes
    <2>4. NoNullFrame' /\ RequestTyped'
      BY <1>10, <2>1, ThreadFacts, SlotFacts
      DEF DropFrame, Goto, previewLocal, previewFrame, requestVars, PcTypes,
          NoNullFrame, UsbHolds, PreviewHolds, CaptureHolds, CallbackSlot, RequestTyped
    <2> QED
      BY <2>1, <2>2, <2>3, <2>4
  <1>11. CASE DrawIfWindow
    <2>1. FrameInv' /\ local' = local
      BY <1>11, FramesUnchanged DEF DrawIfWindow
    <2>2. PcTypes'
      BY <1>11, ThreadFacts DEF DrawIfWindow, Goto, PreviewPC, PcTypes
    <2>3. RestTypes'
      BY <1>11, ThreadFacts
      DEF DrawIfWindow, previewLocal, previewFrame, flagVars, targetVars,
          requestVars, syncVars, RestTypes
    <2>4. NoNullFrame' /\ RequestTyped'
      BY <1>11, <2>1, ThreadFacts
      DEF DrawIfWindow, Goto, PreviewPC, previewLocal, previewFrame, flagVars,
          targetVars, requestVars, syncVars, PcTypes, NoNullFrame, UsbHolds,
          PreviewHolds, CaptureHolds, CallbackSlot, RequestTyped
    <2> QED
      BY <2>1, <2>2, <2>3, <2>4
  <1>12. CASE ConvertPreview
    <2>2. PcTypes'
      BY <1>12, ThreadFacts DEF ConvertPreview, Goto, PreviewPC, PcTypes
    <2>3. RestTypes'
      BY <1>12, ThreadFacts
      DEF ConvertPreview, previewLocal, previewFrame, flagVars, targetVars,
          requestVars, syncVars, RestTypes
    <2>4. RequestTyped'
      BY <1>12, ThreadFacts
      DEF ConvertPreview, Goto, previewLocal, previewFrame, requestVars, PcTypes,
          RequestTyped
    <2>5. CASE Goto("preview", "convert", "show") /\ GetFrame(Converted, content[local[Frame]])
      <3>1. local[Frame] \in Frames
        BY <2>5, SlotFacts
        DEF Goto, NoNullFrame, PreviewHolds, FrameInv, FrameTypes, FrameOrNull
      <3>2. content[local[Frame]] \in 0..MaxSent
        BY <3>1 DEF FrameInv, FrameTypes
      <3>3. FrameInv' /\ local'[Converted] # NULL
            /\ \A x \in Slots \ {Converted} : local'[x] = local[x]
        BY <1>12, <2>5, <3>2, GetFrameInv, SlotFacts DEF ConvertPreview
      <3>4. NoNullFrame'
        BY <2>5, <3>3, ThreadFacts, SlotFacts
        DEF Goto, PcTypes, NoNullFrame, UsbHolds, PreviewHolds, CaptureHolds,
            CallbackSlot
      <3> QED
        BY <2>2, <2>3, <2>4, <3>3, <3>4
    <2>6. CASE Goto("preview", "convert", "addCapture") /\ UNCHANGED frameVars
      <3>1. FrameInv' /\ local' = local
        BY <1>12, <2>6, FramesUnchanged DEF ConvertPreview
      <3>2. NoNullFrame'
        BY <2>6, <3>1, ThreadFacts
        DEF Goto, PcTypes, NoNullFrame, UsbHolds, PreviewHolds, CaptureHolds,
            CallbackSlot
      <3> QED
        BY <2>2, <2>3, <2>4, <3>1, <3>2
    <2> QED
      BY <1>12, <2>5, <2>6 DEF ConvertPreview
  <1>13. CASE ShowPreview
    <2>1. FrameInv' /\ \A x \in Slots \ {Converted} : local'[x] = local[x]
      BY <1>13, RecycleInv, SlotFacts DEF ShowPreview, Goto, NoNullFrame, PreviewHolds
    <2>2. PcTypes'
      BY <1>13, ThreadFacts DEF ShowPreview, Goto, PreviewPC, PcTypes
    <2>3. RestTypes'
      BY <1>13, ThreadFacts
      DEF ShowPreview, previewLocal, previewFrame, flagVars, targetVars,
          requestVars, syncVars, RestTypes
    <2>4. NoNullFrame' /\ RequestTyped'
      BY <1>13, <2>1, ThreadFacts, SlotFacts
      DEF ShowPreview, Goto, previewLocal, previewFrame, requestVars, PcTypes,
          NoNullFrame, UsbHolds, PreviewHolds, CaptureHolds, CallbackSlot, RequestTyped
    <2> QED
      BY <2>1, <2>2, <2>3, <2>4
  <1>14. CASE AddCaptureFrame
    <2>1. FrameInv' /\ \A x \in Slots \ {Frame} : local'[x] = local[x]
      BY <1>14, AddCaptureFrameInv, SlotFacts
      DEF AddCaptureFrame, Goto, NoNullFrame, PreviewHolds
    <2>2. PcTypes'
      BY <1>14, ThreadFacts DEF AddCaptureFrame, Goto, PreviewPC, PcTypes
    <2>3. RestTypes'
      BY <1>14, ThreadFacts
      DEF AddCaptureFrame, previewLocal, previewFrame, flagVars, targetVars,
          requestVars, syncVars, BroadcastCapture, RestTypes
    <2>4. NoNullFrame' /\ RequestTyped'
      BY <1>14, <2>1, ThreadFacts, SlotFacts
      DEF AddCaptureFrame, Goto, previewLocal, previewFrame, requestVars, PcTypes,
          NoNullFrame, UsbHolds, PreviewHolds, CaptureHolds, CallbackSlot, RequestTyped
    <2> QED
      BY <2>1, <2>2, <2>3, <2>4
  <1>15. CASE PreviewSignal
    <2>1. FrameInv' /\ local' = local
      BY <1>15, FramesUnchanged DEF PreviewSignal
    <2>2. PcTypes'
      BY <1>15, ThreadFacts DEF PreviewSignal, Goto, PreviewPC, PcTypes
    <2>3. RestTypes'
      BY <1>15, ThreadFacts
      DEF PreviewSignal, previewLocal, previewFrame, flagVars, targetVars,
          requestVars, syncVars, SignalCapture, RestTypes
    <2>4. NoNullFrame' /\ RequestTyped'
      BY <1>15, <2>1, ThreadFacts
      DEF PreviewSignal, Goto, PreviewPC, previewLocal, previewFrame, flagVars,
          targetVars, requestVars, syncVars, SignalCapture, PcTypes, NoNullFrame,
          UsbHolds, PreviewHolds, CaptureHolds, CallbackSlot, RequestTyped
    <2> QED
      BY <2>1, <2>2, <2>3, <2>4
  <1>16. CASE StopStreaming
    <2>1. FrameInv' /\ local' = local
      BY <1>16, FramesUnchanged DEF StopStreaming
    <2>2. PcTypes'
      BY <1>16, ThreadFacts DEF StopStreaming, Goto, PreviewPC, PcTypes
    <2>3. RestTypes'
      BY <1>16, ThreadFacts
      DEF StopStreaming, previewLocal, previewFrame, flagVars, targetVars,
          requestVars, syncVars, RestTypes
    <2>4. NoNullFrame' /\ RequestTyped'
      BY <1>16, <2>1, ThreadFacts
      DEF StopStreaming, Goto, PreviewPC, previewLocal, previewFrame, flagVars,
          targetVars, requestVars, syncVars, PcTypes, NoNullFrame, UsbHolds,
          PreviewHolds, CaptureHolds, CallbackSlot, RequestTyped
    <2> QED
      BY <2>1, <2>2, <2>3, <2>4
  <1> QED
    BY <1>1, <1>2, <1>3, <1>4, <1>5, <1>6, <1>7, <1>8, <1>9, <1>10, <1>11, <1>12, <1>13, <1>14, <1>15, <1>16 DEF Preview

LEMMA TakeCaptureFrameInv ==
    ASSUME IInv, NEW c \in CaptureThreads, NEW from, TakeCaptureFrame(c, from),
           UNCHANGED previewFrames
    PROVE  FrameInv' /\ NoNullFrame'
  <1> USE DEF IInv
  <1>1. CASE mIsRunning /\ captureQueu # NULL
    <2>1. captureQueu' = NULL /\ local' = [local EXCEPT ![CapFrame(c)] = captureQueu]
          /\ UNCHANGED <<mFramePool, allocated, content, previewFrames>>
      BY <1>1 DEF TakeCaptureFrame
    <2>2. FrameInv' /\ local'[CapFrame(c)] # NULL
          /\ \A x \in Slots \ {CapFrame(c)} : local'[x] = local[x]
      BY <1>1, <2>1, TakeCapturedInv, SlotFacts
    <2>3. pc' = [pc EXCEPT ![c] = "taken"]
      BY <1>1 DEF TakeCaptureFrame, Goto
    <2>4. NoNullFrame'
      BY <2>2, <2>3, ThreadFacts, SlotFacts
      DEF PcTypes, NoNullFrame, UsbHolds, PreviewHolds, CaptureHolds, CallbackSlot
    <2> QED
      BY <2>2, <2>4
  <1>2. CASE ~(mIsRunning /\ captureQueu # NULL)
    <2>1. FrameInv' /\ local' = local
      BY <1>2, FramesUnchanged DEF TakeCaptureFrame, frameVars, queueVars
    <2>2. NoNullFrame'
      BY <1>2, <2>1, ThreadFacts
      DEF TakeCaptureFrame, Goto, PcTypes, NoNullFrame, UsbHolds, PreviewHolds,
          CaptureHolds, CallbackSlot
    <2> QED
      BY <2>1, <2>2
  <1> QED
    BY <1>1, <1>2

\* a capture thread touches only its own three variables
LEMMA CaptureStep ==
    ASSUME IInv, NEW c \in CaptureThreads, Capture(c)
    PROVE  IInv'
  <1> USE DEF IInv
  <1>1. CASE CaptureBegin(c)
    <2>1. FrameInv' /\ local' = local
      BY <1>1, ClearCaptureFrameInv DEF CaptureBegin
    <2>2. PcTypes'
      BY <1>1, ThreadFacts DEF CaptureBegin, Goto, CapturePC, PcTypes
    <2>3. RestTypes'
      BY <1>1, ThreadFacts
      DEF CaptureBegin, captureBuffers, captureFrame, flagVars, targetVars,
          requestVars, streamVars, captureVars, syncVars, RestTypes
    <2>4. NoNullFrame' /\ RequestTyped'
      BY <1>1, <2>1, ThreadFacts
      DEF CaptureBegin, Goto, captureBuffers, captureFrame, requestVars, PcTypes,
          NoNullFrame, UsbHolds, PreviewHolds, CaptureHolds, CallbackSlot, RequestTyped
    <2> QED
      BY <2>1, <2>2, <2>3, <2>4
  <1>2. CASE CaptureOuter(c)
    <2>1. FrameInv' /\ local' = local
      BY <1>2, FramesUnchanged
      DEF CaptureOuter, frameVars, queueVars, captureBuffers, captureFrame
    <2>2. PcTypes'
      BY <1>2, ThreadFacts DEF CaptureOuter, Goto, CapturePC, PcTypes
    <2>3. RestTypes'
      BY <1>2, ThreadFacts
      DEF CaptureOuter, captureBuffers, captureFrame, flagVars, targetVars,
          requestVars, streamVars, captureVars, syncVars, RestTypes
    <2>4. NoNullFrame' /\ RequestTyped'
      BY <1>2, <2>1, ThreadFacts
      DEF CaptureOuter, Goto, captureBuffers, captureFrame, requestVars, PcTypes,
          NoNullFrame, UsbHolds, PreviewHolds, CaptureHolds, CallbackSlot, RequestTyped
    <2> QED
      BY <2>1, <2>2, <2>3, <2>4
  <1>3. CASE CaptureArm(c)
    <2>1. FrameInv' /\ local' = local
      BY <1>3, FramesUnchanged DEF CaptureArm, frameVars, queueVars
    <2>2. PcTypes'
      BY <1>3, ThreadFacts DEF CaptureArm, Goto, CapturePC, PcTypes
    <2>3. RestTypes'
      BY <1>3, ThreadFacts
      DEF CaptureArm, captureBuffers, captureFrame, flagVars, targetVars,
          requestVars, streamVars, captureVars, syncVars, RestTypes
    <2>4. NoNullFrame' /\ RequestTyped'
      BY <1>3, <2>1, ThreadFacts
      DEF CaptureArm, Goto, captureBuffers, captureFrame, requestVars, PcTypes,
          NoNullFrame, UsbHolds, PreviewHolds, CaptureHolds, CallbackSlot, RequestTyped
    <2> QED
      BY <2>1, <2>2, <2>3, <2>4
  <1>4. CASE CaptureChoose(c)
    <2>1. FrameInv' /\ local' = local
      BY <1>4, FramesUnchanged DEF CaptureChoose, frameVars, queueVars, captureFrame
    <2>2. PcTypes'
      BY <1>4, ThreadFacts DEF CaptureChoose, Goto, CapturePC, PcTypes
    <2>3. RestTypes'
      BY <1>4, ThreadFacts
      DEF CaptureChoose, captureBuffers, captureFrame, flagVars, targetVars,
          requestVars, streamVars, captureVars, syncVars, RestTypes
    <2>4. NoNullFrame' /\ RequestTyped'
      BY <1>4, <2>1, ThreadFacts
      DEF CaptureChoose, Goto, captureBuffers, captureFrame, requestVars, PcTypes,
          NoNullFrame, UsbHolds, PreviewHolds, CaptureHolds, CallbackSlot, RequestTyped
    <2> QED
      BY <2>1, <2>2, <2>3, <2>4
  <1>5. CASE CaptureLoop(c)
    <2>1. FrameInv' /\ local' = local
      BY <1>5, FramesUnchanged
      DEF CaptureLoop, frameVars, queueVars, captureBuffers, captureFrame
    <2>2. PcTypes'
      BY <1>5, ThreadFacts DEF CaptureLoop, Goto, CapturePC, PcTypes
    <2>3. RestTypes'
      BY <1>5, ThreadFacts
      DEF CaptureLoop, captureBuffers, captureFrame, flagVars, targetVars,
          requestVars, streamVars, captureVars, syncVars, RestTypes
    <2>4. NoNullFrame' /\ RequestTyped'
      BY <1>5, <2>1, ThreadFacts
      DEF CaptureLoop, Goto, captureBuffers, captureFrame, requestVars, PcTypes,
          NoNullFrame, UsbHolds, PreviewHolds, CaptureHolds, CallbackSlot, RequestTyped
    <2> QED
      BY <2>1, <2>2, <2>3, <2>4
  <1>6. CASE WaitCaptureFrame(c)
    <2>2. PcTypes'
      BY <1>6, ThreadFacts
      DEF WaitCaptureFrame, TakeCaptureFrame, Goto, CapturePC, PcTypes
    <2>3. RestTypes'
      BY <1>6, ThreadFacts
      DEF WaitCaptureFrame, captureBuffers, captureFrame, flagVars, targetVars,
          requestVars, streamVars, captureVars, syncVars, RestTypes
    <2>4. RequestTyped'
      BY <1>6, ThreadFacts
      DEF WaitCaptureFrame, TakeCaptureFrame, Goto, captureBuffers, captureFrame,
          requestVars, PcTypes, RequestTyped
    <2> previewFrames' = previewFrames
      BY <1>6 DEF WaitCaptureFrame, captureFrame
    <2>5. CASE captureQueu = NULL
      <3>1. FrameInv' /\ local' = local
        BY <1>6, <2>5, FramesUnchanged DEF WaitCaptureFrame, captureFrame, queueVars
      <3>2. NoNullFrame'
        BY <1>6, <2>5, <3>1, ThreadFacts
        DEF WaitCaptureFrame, Goto, PcTypes, NoNullFrame, UsbHolds, PreviewHolds,
            CaptureHolds, CallbackSlot
      <3> QED
        BY <2>2, <2>3, <2>4, <3>1, <3>2
    <2>6. CASE captureQueu # NULL
      <3>1. FrameInv' /\ NoNullFrame'
        BY <1>6, <2>6, TakeCaptureFrameInv DEF WaitCaptureFrame
      <3> QED
        BY <2>2, <2>3, <2>4, <3>1
    <2> QED
      BY <2>5, <2>6
  <1>7. CASE WakeCaptureFrame(c)
    <2>2. PcTypes'
      BY <1>7, ThreadFacts
      DEF WakeCaptureFrame, TakeCaptureFrame, Goto, CapturePC, PcTypes
    <2>3. RestTypes'
      BY <1>7, ThreadFacts
      DEF WakeCaptureFrame, captureBuffers, captureFrame, flagVars, targetVars,
          requestVars, streamVars, captureVars, syncVars, RestTypes
    <2>4. RequestTyped'
      BY <1>7, ThreadFacts
      DEF WakeCaptureFrame, TakeCaptureFrame, Goto, captureBuffers, captureFrame,
          requestVars, PcTypes, RequestTyped
    <2> previewFrames' = previewFrames
      BY <1>7 DEF WakeCaptureFrame, captureFrame
    <2>5. FrameInv' /\ NoNullFrame'
      BY <1>7, TakeCaptureFrameInv DEF WakeCaptureFrame
    <2> QED
      BY <2>2, <2>3, <2>4, <2>5
  <1>8. CASE CaptureTaken(c)
    <2>1. FrameInv' /\ local' = local
      BY <1>8, FramesUnchanged
      DEF CaptureTaken, frameVars, queueVars, captureBuffers, captureFrame
    <2>2. PcTypes'
      BY <1>8, ThreadFacts DEF CaptureTaken, Goto, CapturePC, PcTypes
    <2>3. RestTypes'
      BY <1>8, ThreadFacts
      DEF CaptureTaken, captureBuffers, captureFrame, flagVars, targetVars,
          requestVars, streamVars, captureVars, syncVars, RestTypes
    <2>4. NoNullFrame' /\ RequestTyped'
      BY <1>8, <2>1, ThreadFacts
      DEF CaptureTaken, Goto, captureBuffers, captureFrame, requestVars, PcTypes,
          NoNullFrame, UsbHolds, PreviewHolds, CaptureHolds, CallbackSlot, RequestTyped
    <2> QED
      BY <2>1, <2>2, <2>3, <2>4
  <1>9. CASE RenderCapture(c)
    <2>2. PcTypes'
      BY <1>9, ThreadFacts DEF RenderCapture, Goto, CapturePC, PcTypes
    <2>3. RestTypes'
      BY <1>9, ThreadFacts
      DEF RenderCapture, captureBuffers, captureFrame, flagVars, targetVars,
          requestVars, streamVars, captureVars, syncVars, RestTypes
    <2>4. RequestTyped'
      BY <1>9, ThreadFacts
      DEF RenderCapture, Goto, captureBuffers, captureFrame, requestVars, PcTypes,
          RequestTyped
    <2>5. UNCHANGED queueVars
      BY <1>9 DEF RenderCapture, captureBuffers, captureFrame, queueVars
    <2>6. pc' = [pc EXCEPT ![c] = "copyToSurface"] \/ pc' = [pc EXCEPT ![c] = "callback"]
      BY <1>9 DEF RenderCapture, Goto
    <2>7. CASE UNCHANGED frameVars
      <3>1. FrameInv' /\ local' = local
        BY <2>5, <2>7, FramesUnchanged
      <3>2. NoNullFrame'
        BY <1>9, <2>6, <3>1, ThreadFacts
        DEF RenderCapture, PcTypes, NoNullFrame, UsbHolds, PreviewHolds,
            CaptureHolds, CallbackSlot
      <3> QED
        BY <2>2, <2>3, <2>4, <3>1, <3>2
    <2>8. CASE GetFrame(CapConverted(c), content[local[CapFrame(c)]])
      <3>1. local[CapFrame(c)] \in Frames
        BY <1>9, SlotFacts
        DEF RenderCapture, NoNullFrame, CaptureHolds, FrameInv, FrameTypes,
            FrameOrNull
      <3>2. content[local[CapFrame(c)]] \in 0..MaxSent
        BY <3>1 DEF FrameInv, FrameTypes
      <3>3. FrameInv' /\ \A x \in Slots \ {CapConverted(c)} : local'[x] = local[x]
        BY <2>5, <2>8, <3>2, GetFrameInv, SlotFacts
      <3>4. NoNullFrame'
        BY <1>9, <2>6, <3>3, ThreadFacts, SlotFacts
        DEF RenderCapture, PcTypes, NoNullFrame, UsbHolds, PreviewHolds,
            CaptureHolds, CallbackSlot
      <3> QED
        BY <2>2, <2>3, <2>4, <3>3, <3>4
    <2> QED
      BY <1>9, <2>7, <2>8 DEF RenderCapture
  <1>10. CASE CopyToSurface(c)
    <2>1. FrameInv' /\ local' = local
      BY <1>10, FramesUnchanged
      DEF CopyToSurface, frameVars, queueVars, captureBuffers, captureFrame
    <2>2. PcTypes'
      BY <1>10, ThreadFacts DEF CopyToSurface, Goto, CapturePC, PcTypes
    <2>3. RestTypes'
      BY <1>10, ThreadFacts
      DEF CopyToSurface, captureBuffers, captureFrame, flagVars, targetVars,
          requestVars, streamVars, captureVars, syncVars, RestTypes
    <2>4. NoNullFrame' /\ RequestTyped'
      BY <1>10, <2>1, ThreadFacts
      DEF CopyToSurface, Goto, captureBuffers, captureFrame, requestVars, PcTypes,
          NoNullFrame, UsbHolds, PreviewHolds, CaptureHolds, CallbackSlot, RequestTyped
    <2> QED
      BY <2>1, <2>2, <2>3, <2>4
  <1>11. CASE Posted(c)
    <2>1. FrameInv' /\ local' = local
      BY <1>11, FramesUnchanged
      DEF Posted, frameVars, queueVars, captureBuffers, captureFrame
    <2>2. PcTypes'
      BY <1>11, ThreadFacts DEF Posted, Goto, CapturePC, PcTypes
    <2>3. RestTypes'
      BY <1>11, ThreadFacts
      DEF Posted, captureBuffers, captureFrame, flagVars, targetVars, requestVars,
          streamVars, captureVars, syncVars, RestTypes
    <2>4. NoNullFrame' /\ RequestTyped'
      BY <1>11, <2>1, ThreadFacts
      DEF Posted, Goto, captureBuffers, captureFrame, requestVars, PcTypes,
          NoNullFrame, UsbHolds, PreviewHolds, CaptureHolds, CallbackSlot, RequestTyped
    <2> QED
      BY <2>1, <2>2, <2>3, <2>4
  <1>12. CASE CaptureCallback(c)
    <2>1. FrameInv' /\ local' = local
      BY <1>12, FramesUnchanged
      DEF CaptureCallback, frameVars, queueVars, captureBuffers, captureFrame
    <2>2. PcTypes'
      BY <1>12, ThreadFacts DEF CaptureCallback, Goto, CapturePC, PcTypes
    <2>3. RestTypes'
      BY <1>12, ThreadFacts
      DEF CaptureCallback, captureBuffers, captureFrame, flagVars, targetVars,
          requestVars, streamVars, captureVars, syncVars, RestTypes
    <2>4. NoNullFrame' /\ RequestTyped'
      BY <1>12, <2>1, ThreadFacts
      DEF CaptureCallback, Goto, captureBuffers, captureFrame, requestVars, PcTypes,
          NoNullFrame, UsbHolds, PreviewHolds, CaptureHolds, CallbackSlot, RequestTyped
    <2> QED
      BY <2>1, <2>2, <2>3, <2>4
  <1>13. CASE ConvertCallback(c)
    <2>2. PcTypes'
      BY <1>13, ThreadFacts DEF ConvertCallback, Goto, CapturePC, PcTypes
    <2>3. RestTypes'
      BY <1>13, ThreadFacts
      DEF ConvertCallback, captureBuffers, captureFrame, flagVars, targetVars,
          requestVars, streamVars, captureVars, syncVars, RestTypes
    <2>4. RequestTyped'
      BY <1>13, ThreadFacts
      DEF ConvertCallback, Goto, captureBuffers, captureFrame, requestVars, PcTypes,
          RequestTyped
    <2>5. UNCHANGED queueVars
      BY <1>13 DEF ConvertCallback, captureBuffers, captureFrame, queueVars
    <2>6. CASE /\ pc' = [pc EXCEPT ![c] = "recycle"]
               /\ UNCHANGED frameVars
      <3>1. FrameInv' /\ local' = local
        BY <2>5, <2>6, FramesUnchanged
      <3>2. NoNullFrame'
        BY <1>13, <2>6, <3>1, ThreadFacts
        DEF ConvertCallback, Goto, PcTypes, NoNullFrame, UsbHolds, PreviewHolds,
            CaptureHolds, CallbackSlot
      <3> QED
        BY <2>2, <2>3, <2>4, <3>1, <3>2
    <2>7. CASE /\ GetFrame(CapCallback(c), content[local[CapFrame(c)]])
               /\ \E l \in {"converted", "unconverted"} : pc' = [pc EXCEPT ![c] = l]
      <3>1. local[CapFrame(c)] \in Frames
        BY <1>13, SlotFacts
        DEF ConvertCallback, Goto, NoNullFrame, CaptureHolds, FrameInv, FrameTypes,
            FrameOrNull
      <3>2. content[local[CapFrame(c)]] \in 0..MaxSent
        BY <3>1 DEF FrameInv, FrameTypes
      <3>3. FrameInv' /\ local'[CapCallback(c)] # NULL
            /\ \A x \in Slots \ {CapCallback(c)} : local'[x] = local[x]
        BY <2>5, <2>7, <3>2, GetFrameInv, SlotFacts
      <3>4. NoNullFrame'
        BY <1>13, <2>7, <3>1, <3>3, ThreadFacts, SlotFacts, Sizes
        DEF ConvertCallback, Goto, PcTypes, NoNullFrame, UsbHolds, PreviewHolds,
            CaptureHolds, CallbackSlot
      <3> QED
        BY <2>2, <2>3, <2>4, <3>3, <3>4
    <2> QED
      BY <1>13, <2>6, <2>7 DEF ConvertCallback, Goto
  <1>14. CASE RecycleConverted(c)
    <2>0. UNCHANGED queueVars
      BY <1>14 DEF RecycleConverted, captureBuffers, captureFrame, queueVars
    <2>1. FrameInv' /\ \A x \in Slots \ {CapFrame(c)} : local'[x] = local[x]
      BY <1>14, <2>0, RecycleInv, SlotFacts
      DEF RecycleConverted, Goto, NoNullFrame, CaptureHolds
    <2>2. PcTypes'
      BY <1>14, ThreadFacts DEF RecycleConverted, Goto, CapturePC, PcTypes
    <2>3. RestTypes'
      BY <1>14, ThreadFacts
      DEF RecycleConverted, captureBuffers, captureFrame, flagVars, targetVars,
          requestVars, streamVars, captureVars, syncVars, RestTypes
    <2>4. RequestTyped'
      BY <1>14, ThreadFacts
      DEF RecycleConverted, Goto, captureBuffers, captureFrame, requestVars, PcTypes,
          RequestTyped
    <2>5. NoNullFrame'
      <3>1. local[CapCallback(c)] # NULL /\ local'[CapCallback(c)] = local[CapCallback(c)]
        BY <1>14, <2>1, SlotFacts DEF RecycleConverted, Goto, NoNullFrame, CaptureHolds
      <3>2. CaptureHolds(c)'
        BY <1>14, <3>1, ThreadFacts
        DEF RecycleConverted, Goto, PcTypes, CaptureHolds, CallbackSlot
      <3>3. UsbHolds' /\ PreviewHolds'
        BY <1>14, <2>1, ThreadFacts, SlotFacts
        DEF RecycleConverted, Goto, PcTypes, NoNullFrame, UsbHolds, PreviewHolds
      <3>4. ASSUME NEW d \in CaptureThreads \ {c}
            PROVE  CaptureHolds(d)'
        <4>1. local'[CapFrame(d)] = local[CapFrame(d)]
              /\ local'[CapCallback(d)] = local[CapCallback(d)] /\ pc'[d] = pc[d]
          BY <1>14, <2>1, ThreadFacts, SlotFacts DEF RecycleConverted, Goto, PcTypes
        <4> QED
          BY <4>1 DEF NoNullFrame, CaptureHolds, CallbackSlot
      <3> QED
        BY <3>2, <3>3, <3>4 DEF NoNullFrame
    <2> QED
      BY <2>1, <2>2, <2>3, <2>4, <2>5
  <1>15. CASE CallOnFrame(c)
    <2>1. FrameInv' /\ local' = local
      BY <1>15, FramesUnchanged DEF CallOnFrame, frameVars, queueVars, captureFrame
    <2>2. PcTypes'
      BY <1>15, ThreadFacts DEF CallOnFrame, Goto, CapturePC, PcTypes
    <2>3. RestTypes'
      <3>1. local[CallbackSlot(c)] \in Frames
        BY <1>15, SlotFacts
        DEF CallOnFrame, Goto, NoNullFrame, CaptureHolds, CallbackSlot, FrameInv,
            FrameTypes, FrameOrNull
      <3>2. delivered' \in 0..MaxSent
        BY <1>15, <3>1 DEF CallOnFrame, FrameInv, FrameTypes
      <3> QED
        BY <1>15, <3>2 DEF CallOnFrame, captureFrame, flagVars, requestVars, RestTypes
    <2>4. NoNullFrame' /\ RequestTyped'
      BY <1>15, <2>1, ThreadFacts
      DEF CallOnFrame, Goto, captureBuffers, captureFrame, requestVars, PcTypes,
          NoNullFrame, UsbHolds, PreviewHolds, CaptureHolds, CallbackSlot, RequestTyped
    <2> QED
      BY <2>1, <2>2, <2>3, <2>4
  <1>16. CASE ReturnOnFrame(c)
    <2>1. FrameInv' /\ local' = local
      BY <1>16, FramesUnchanged DEF ReturnOnFrame, frameVars, queueVars, captureFrame
    <2>2. PcTypes'
      BY <1>16, ThreadFacts DEF ReturnOnFrame, Goto, CapturePC, PcTypes
    <2>3. RestTypes'
      BY <1>16, ThreadFacts
      DEF ReturnOnFrame, captureBuffers, captureFrame, flagVars, targetVars,
          requestVars, streamVars, captureVars, syncVars, RestTypes
    <2>4. NoNullFrame' /\ RequestTyped'
      BY <1>16, <2>1, ThreadFacts
      DEF ReturnOnFrame, Goto, captureBuffers, captureFrame, requestVars, PcTypes,
          NoNullFrame, UsbHolds, PreviewHolds, CaptureHolds, CallbackSlot, RequestTyped
    <2> QED
      BY <2>1, <2>2, <2>3, <2>4
  <1>17. CASE RecycleCallback(c)
    <2>0. UNCHANGED queueVars
      BY <1>17 DEF RecycleCallback, captureBuffers, captureFrame, queueVars
    <2>1. FrameInv' /\ \A x \in Slots \ {CallbackSlot(c)} : local'[x] = local[x]
      BY <1>17, <2>0, RecycleInv, SlotFacts
      DEF RecycleCallback, Goto, NoNullFrame, CaptureHolds, CallbackSlot
    <2>2. PcTypes'
      BY <1>17, ThreadFacts DEF RecycleCallback, Goto, CapturePC, PcTypes
    <2>3. RestTypes'
      BY <1>17, ThreadFacts
      DEF RecycleCallback, captureBuffers, captureFrame, flagVars, targetVars,
          requestVars, streamVars, captureVars, syncVars, RestTypes
    <2>4. NoNullFrame' /\ RequestTyped'
      BY <1>17, <2>1, ThreadFacts, SlotFacts
      DEF RecycleCallback, Goto, captureBuffers, captureFrame, requestVars, PcTypes,
          NoNullFrame, UsbHolds, PreviewHolds, CaptureHolds, CallbackSlot, RequestTyped
    <2> QED
      BY <2>1, <2>2, <2>3, <2>4
  <1>18. CASE SurfaceEnd(c)
    <2>0. UNCHANGED queueVars
      BY <1>18 DEF SurfaceEnd, captureBuffers, captureFrame, queueVars
    <2>1. FrameInv' /\ \A x \in Slots \ {CapConverted(c)} : local'[x] = local[x]
      <3>1. CASE local[CapConverted(c)] # NULL
        BY <1>18, <2>0, <3>1, RecycleInv, SlotFacts DEF SurfaceEnd
      <3>2. CASE ~(local[CapConverted(c)] # NULL)
        BY <1>18, <2>0, <3>2, FramesUnchanged DEF SurfaceEnd
      <3> QED
        BY <3>1, <3>2
    <2>2. PcTypes'
      BY <1>18, ThreadFacts DEF SurfaceEnd, Goto, CapturePC, PcTypes
    <2>3. RestTypes'
      BY <1>18, ThreadFacts
      DEF SurfaceEnd, captureBuffers, captureFrame, flagVars, targetVars,
          requestVars, streamVars, captureVars, syncVars, RestTypes
    <2>4. NoNullFrame' /\ RequestTyped'
      BY <1>18, <2>1, ThreadFacts, SlotFacts
      DEF SurfaceEnd, Goto, captureBuffers, captureFrame, requestVars, PcTypes,
          NoNullFrame, UsbHolds, PreviewHolds, CaptureHolds, CallbackSlot, RequestTyped
    <2> QED
      BY <2>1, <2>2, <2>3, <2>4
  <1>19. CASE SurfaceRelease(c)
    <2>1. FrameInv' /\ local' = local
      BY <1>19, FramesUnchanged DEF SurfaceRelease, frameVars, queueVars, captureFrame
    <2>2. PcTypes'
      BY <1>19, ThreadFacts DEF SurfaceRelease, Goto, CapturePC, PcTypes
    <2>3. RestTypes'
      BY <1>19, ThreadFacts
      DEF SurfaceRelease, captureBuffers, captureFrame, flagVars, targetVars,
          requestVars, streamVars, captureVars, syncVars, RestTypes
    <2>4. NoNullFrame' /\ RequestTyped'
      BY <1>19, <2>1, ThreadFacts
      DEF SurfaceRelease, Goto, captureBuffers, captureFrame, requestVars, PcTypes,
          NoNullFrame, UsbHolds, PreviewHolds, CaptureHolds, CallbackSlot, RequestTyped
    <2> QED
      BY <2>1, <2>2, <2>3, <2>4
  <1>20. CASE CaptureBroadcast(c)
    <2>1. FrameInv' /\ local' = local
      BY <1>20, FramesUnchanged DEF CaptureBroadcast, frameVars, queueVars, captureFrame
    <2>2. PcTypes'
      BY <1>20, ThreadFacts DEF CaptureBroadcast, Goto, CapturePC, PcTypes
    <2>3. RestTypes'
      BY <1>20, ThreadFacts
      DEF CaptureBroadcast, captureBuffers, captureFrame, flagVars, targetVars,
          requestVars, streamVars, captureVars, syncVars, BroadcastCapture, RestTypes
    <2>4. NoNullFrame' /\ RequestTyped'
      BY <1>20, <2>1, ThreadFacts
      DEF CaptureBroadcast, Goto, captureBuffers, captureFrame, requestVars,
          BroadcastCapture, PcTypes, NoNullFrame, UsbHolds, PreviewHolds, CaptureHolds,
          CallbackSlot, RequestTyped
    <2> QED
      BY <2>1, <2>2, <2>3, <2>4
  <1> QED
    BY <1>1, <1>2, <1>3, <1>4, <1>5, <1>6, <1>7, <1>8, <1>9, <1>10, <1>11, <1>12, <1>13, <1>14, <1>15, <1>16, <1>17, <1>18, <1>19, <1>20
    DEF Capture

\* setFrameCallback, with and without the sleep
LEMMA FrameCallbackStep ==
    ASSUME IInv, NEW cb \in Callbacks \cup {NULL}, NEW fmt \in PixelFormats \cup {NULL},
           NEW label \in {"setFrameCallback", "stop.setFrameCallback"},
           NEW next \in {"idle", "stop"}, FrameCallback(cb, fmt, label, next),
           closing' \in BOOLEAN
    PROVE  IInv'
  <1> USE DEF IInv
  <1>1. /\ FrameInv' /\ local' = local
        /\ UNCHANGED <<captureVars, streamVars, mIsRunning, preview_sync, starts>>
    BY FramesUnchanged DEF FrameCallback, controlFrame, frameVars, queueVars
  <1>2. mIsCapturing' \in BOOLEAN
    BY DEF FrameCallback, StopCapturing, RestTypes
  <1>3. CASE MustWait(mFrameCallbackObj)
    <2>1. pc' = [pc EXCEPT !["control"] = label] /\ request' = <<cb, fmt>>
          /\ capture_sync' \in SUBSET ({"control"} \cup CaptureThreads)
          /\ UNCHANGED targetVars
      BY <1>3 DEF FrameCallback, Sleep, RestTypes
    <2>2. PcTypes'
      BY <2>1, ThreadFacts DEF PcTypes, ControlPC
    <2>3. RestTypes'
      BY <1>1, <1>2, <2>1 DEF RestTypes, targetVars, captureVars, streamVars
    <2>4. NoNullFrame' /\ RequestTyped'
      BY <1>1, <2>1, ThreadFacts
      DEF PcTypes, NoNullFrame, UsbHolds, PreviewHolds, CaptureHolds, CallbackSlot, RequestTyped
    <2> QED
      BY <1>1, <2>2, <2>3, <2>4
  <1>4. CASE ~MustWait(mFrameCallbackObj)
    <2>1. pc' = [pc EXCEPT !["control"] = next] /\ request' = request
          /\ capture_sync' = capture_sync /\ NewCallback(cb, fmt)
      BY <1>4 DEF FrameCallback
    <2>2. PcTypes'
      BY <2>1, ThreadFacts DEF PcTypes, ControlPC
    <2>3. RestTypes'
      BY <1>1, <1>2, <2>1 DEF RestTypes, NewCallback, captureVars, streamVars
    <2>4. NoNullFrame' /\ RequestTyped'
      BY <1>1, <2>1, ThreadFacts
      DEF PcTypes, NoNullFrame, UsbHolds, PreviewHolds, CaptureHolds, CallbackSlot, RequestTyped
    <2> QED
      BY <1>1, <2>2, <2>3, <2>4
  <1> QED
    BY <1>3, <1>4

\* the control thread has no frame pointers of its own
LEMMA ControlStep ==
    ASSUME IInv, Control
    PROVE  IInv'
  <1> USE DEF IInv
  <1>1. ASSUME NEW w \in Windows, SetPreviewDisplay(w)
       PROVE  IInv'
    <2>1. FrameInv' /\ local' = local
      BY <1>1, FramesUnchanged DEF SetPreviewDisplay, controlTargets, controlFrame
    <2>2. PcTypes'
      BY <1>1, ThreadFacts DEF SetPreviewDisplay, Goto, ControlPC, PcTypes
    <2>3. RestTypes'
      BY <1>1, ThreadFacts
      DEF SetPreviewDisplay, controlTargets, controlFrame, flagVars, targetVars,
          syncVars, requestVars, captureVars, streamVars, RestTypes
    <2>4. NoNullFrame' /\ RequestTyped'
      BY <1>1, <2>1, ThreadFacts
      DEF SetPreviewDisplay, Goto, ControlPC, controlTargets, controlFrame,
          requestVars, PcTypes, NoNullFrame, UsbHolds, PreviewHolds, CaptureHolds,
          CallbackSlot, RequestTyped
    <2> QED
      BY <2>1, <2>2, <2>3, <2>4
  <1>2. ASSUME NEW w \in CaptureWindows, SetCaptureDisplay(w)
       PROVE  IInv'
    <2>1. FrameInv' /\ local' = local
      BY <1>2, FramesUnchanged DEF SetCaptureDisplay, controlFrame
    <2>2. mIsCapturing' \in BOOLEAN
      BY <1>2 DEF SetCaptureDisplay, StopCapturing, RestTypes
    <2>3. PcTypes'
      BY <1>2, ThreadFacts DEF SetCaptureDisplay, Sleep, PcTypes, ControlPC
    <2>4. RestTypes'
      <3>1. UNCHANGED <<captureVars, streamVars, mIsRunning, preview_sync, closing, starts>>
        BY <1>2 DEF SetCaptureDisplay, controlFrame
      <3>2. /\ request' \in (Callbacks \cup CaptureWindows \cup {NULL})
                              \X (PixelFormats \cup {NULL})
            /\ capture_sync' \in SUBSET ({"control"} \cup CaptureThreads)
        <4>1. CASE MustWait(mCaptureWindow)
          <5>1. request' = <<w, NULL>>
            BY <1>2, <4>1 DEF SetCaptureDisplay, Sleep
          <5>2. capture_sync' \in SUBSET ({"control"} \cup CaptureThreads)
            BY <1>2, <4>1 DEF SetCaptureDisplay, Sleep, RestTypes
          <5> QED
            BY <5>1, <5>2
        <4>2. CASE ~MustWait(mCaptureWindow)
          BY <1>2, <4>2 DEF SetCaptureDisplay, RestTypes
        <4> QED
          BY <4>1, <4>2
      <3>3. /\ mPreviewWindow' = mPreviewWindow /\ mFrameCallbackObj' = mFrameCallbackObj
            /\ mPixelFormat' = mPixelFormat
            /\ mCaptureWindow' \in CaptureWindows \cup {NULL}
        <4>1. CASE MustWait(mCaptureWindow)
          BY <1>2, <4>1 DEF SetCaptureDisplay, Sleep, targetVars, RestTypes
        <4>2. CASE ~MustWait(mCaptureWindow)
          BY <1>2, <4>2 DEF SetCaptureDisplay, NewCaptureWindow
        <4> QED
          BY <4>1, <4>2
      <3> QED
        BY <2>2, <3>1, <3>2, <3>3 DEF RestTypes, captureVars, streamVars
    <2>5. NoNullFrame' /\ RequestTyped'
      BY <1>2, <2>1, ThreadFacts
      DEF SetCaptureDisplay, Idle, Sleep, PcTypes, NoNullFrame, UsbHolds, PreviewHolds,
          CaptureHolds, CallbackSlot, RequestTyped
    <2> QED
      BY <2>1, <2>3, <2>4, <2>5
  <1>3. ASSUME NEW cb \in Callbacks, NEW fmt \in PixelFormats, SetFrameCallback(cb, fmt)
       PROVE  IInv'
    BY <1>3, FrameCallbackStep DEF SetFrameCallback, RestTypes
  <1>4. ASSUME NEW close \in BOOLEAN, StopPreview(close)
       PROVE  IInv'
    BY <1>4, FrameCallbackStep DEF StopPreview
  <1>5. CASE SwapFrameCallback
    <2>1. FrameInv' /\ local' = local
      BY <1>5, FramesUnchanged
      DEF SwapFrameCallback, controlTargets, controlFrame, frameVars, queueVars,
          Wake
    <2>2. PcTypes'
      BY <1>5, ThreadFacts DEF SwapFrameCallback, Goto, ControlPC, Wake, PcTypes
    <2>3. RestTypes'
      <3>1. /\ UNCHANGED <<captureVars, streamVars, flagVars, syncVars, closing, starts>>
            /\ request' = NoRequest
        BY <1>5 DEF SwapFrameCallback, Wake, controlFrame
      <3>2. RequestTyped /\ request[2] \in PixelFormats \cup {NULL}
        BY DEF RestTypes
      <3>3. /\ mPreviewWindow' \in Windows \cup {NULL}
            /\ mCaptureWindow' \in CaptureWindows \cup {NULL}
            /\ mFrameCallbackObj' \in Callbacks \cup {NULL}
            /\ mPixelFormat' \in PixelFormats \cup {NULL}
        BY <1>5, <3>2 DEF SwapFrameCallback, Wake, Goto, NewCallback, RequestTyped, RestTypes
      <3> QED
        BY <3>1, <3>3
        DEF NoRequest, captureVars, streamVars, flagVars, syncVars, RestTypes
    <2>4. NoNullFrame' /\ RequestTyped'
      BY <1>5, <2>1, ThreadFacts
      DEF SwapFrameCallback, Goto, ControlPC, controlTargets, controlFrame,
          requestVars, Wake, PcTypes, NoNullFrame, UsbHolds, PreviewHolds, CaptureHolds,
          CallbackSlot, RequestTyped
    <2> QED
      BY <2>1, <2>2, <2>3, <2>4
  <1>6. CASE SwapCaptureDisplay
    <2>1. FrameInv' /\ local' = local
      BY <1>6, FramesUnchanged
      DEF SwapCaptureDisplay, controlTargets, controlFrame, frameVars, queueVars,
          Wake
    <2>2. PcTypes'
      BY <1>6, ThreadFacts DEF SwapCaptureDisplay, Goto, ControlPC, Wake, PcTypes
    <2>3. RestTypes'
      <3>1. /\ UNCHANGED <<captureVars, streamVars, flagVars, syncVars, closing, starts>>
            /\ request' = NoRequest
        BY <1>6 DEF SwapCaptureDisplay, Wake, controlFrame
      <3>2. RequestTyped /\ request[2] \in PixelFormats \cup {NULL}
        BY DEF RestTypes
      <3>3. /\ mPreviewWindow' \in Windows \cup {NULL}
            /\ mCaptureWindow' \in CaptureWindows \cup {NULL}
            /\ mFrameCallbackObj' \in Callbacks \cup {NULL}
            /\ mPixelFormat' \in PixelFormats \cup {NULL}
        BY <1>6, <3>2 DEF SwapCaptureDisplay, Wake, Goto, NewCaptureWindow, RequestTyped, RestTypes
      <3> QED
        BY <3>1, <3>3
        DEF NoRequest, captureVars, streamVars, flagVars, syncVars, RestTypes
    <2>4. NoNullFrame' /\ RequestTyped'
      BY <1>6, <2>1, ThreadFacts
      DEF SwapCaptureDisplay, Goto, ControlPC, controlTargets, controlFrame,
          requestVars, Wake, PcTypes, NoNullFrame, UsbHolds, PreviewHolds, CaptureHolds,
          CallbackSlot, RequestTyped
    <2> QED
      BY <2>1, <2>2, <2>3, <2>4
  <1>7. CASE StartPreview
    <2>1. FrameInv' /\ local' = local
      BY <1>7, FramesUnchanged
      DEF StartPreview, controlTargets, controlFrame, frameVars, queueVars
    <2>2. PcTypes'
      BY <1>7, ThreadFacts DEF StartPreview, Goto, ControlPC, PcTypes
    <2>3. RestTypes'
      <3>1. /\ UNCHANGED <<captureVars, streamVars, targetVars, syncVars, request, closing>>
            /\ mIsCapturing' = mIsCapturing /\ mIsRunning' = TRUE
        BY <1>7 DEF StartPreview, controlTargets, controlFrame
      <3>2. starts' \in 0..MaxStarts
        BY <1>7, PreviewAssumption DEF StartPreview, RestTypes
      <3> QED
        BY <3>1, <3>2 DEF captureVars, streamVars, targetVars, syncVars, RestTypes
    <2>4. NoNullFrame' /\ RequestTyped'
      BY <1>7, <2>1, ThreadFacts
      DEF StartPreview, Goto, ControlPC, controlTargets, controlFrame, requestVars,
          PcTypes, NoNullFrame, UsbHolds, PreviewHolds, CaptureHolds, CallbackSlot,
          RequestTyped
    <2> QED
      BY <2>1, <2>2, <2>3, <2>4
  <1>8. CASE CreatePreviewThread
    <2>1. FrameInv' /\ local' = local
      BY <1>8, FramesUnchanged
      DEF CreatePreviewThread, controlTargets, controlFrame, frameVars, queueVars
    <2>2. PcTypes'
      BY <1>8, ThreadFacts DEF CreatePreviewThread, Goto, ControlPC, PreviewPC, PcTypes
    <2>3. RestTypes'
      BY <1>8, ThreadFacts
      DEF CreatePreviewThread, controlTargets, controlFrame, flagVars, targetVars,
          syncVars, requestVars, captureVars, streamVars, RestTypes
    <2>4. NoNullFrame' /\ RequestTyped'
      BY <1>8, <2>1, ThreadFacts
      DEF CreatePreviewThread, Goto, ControlPC, controlTargets, controlFrame,
          requestVars, PcTypes, NoNullFrame, UsbHolds, PreviewHolds, CaptureHolds,
          CallbackSlot, RequestTyped
    <2> QED
      BY <2>1, <2>2, <2>3, <2>4
  <1>9. CASE StartPreviewFailed
    <2>1. FrameInv' /\ local' = local
      BY <1>9, FramesUnchanged DEF StartPreviewFailed, controlTargets, controlFrame
    <2>2. PcTypes'
      BY <1>9, ThreadFacts DEF StartPreviewFailed, Goto, ControlPC, PcTypes
    <2>3. RestTypes'
      BY <1>9, ThreadFacts
      DEF StartPreviewFailed, controlTargets, controlFrame, flagVars, targetVars,
          syncVars, requestVars, captureVars, streamVars, SignalPreview, RestTypes
    <2>4. NoNullFrame' /\ RequestTyped'
      BY <1>9, <2>1, ThreadFacts
      DEF StartPreviewFailed, Goto, ControlPC, controlTargets, controlFrame,
          requestVars, PcTypes, NoNullFrame, UsbHolds, PreviewHolds, CaptureHolds,
          CallbackSlot, RequestTyped
    <2> QED
      BY <2>1, <2>2, <2>3, <2>4
  <1>10. CASE ClearRunning
    <2>1. FrameInv' /\ local' = local
      BY <1>10, FramesUnchanged DEF ClearRunning, controlTargets, controlFrame
    <2>2. PcTypes'
      BY <1>10, ThreadFacts DEF ClearRunning, Goto, ControlPC, PcTypes
    <2>3. RestTypes'
      BY <1>10, ThreadFacts
      DEF ClearRunning, controlTargets, controlFrame, flagVars, targetVars,
          syncVars, requestVars, captureVars, streamVars, RestTypes
    <2>4. NoNullFrame' /\ RequestTyped'
      BY <1>10, <2>1, ThreadFacts
      DEF ClearRunning, Goto, ControlPC, controlTargets, controlFrame, requestVars,
          PcTypes, NoNullFrame, UsbHolds, PreviewHolds, CaptureHolds, CallbackSlot,
          RequestTyped
    <2> QED
      BY <2>1, <2>2, <2>3, <2>4
  <1>11. CASE StopSignalPreview
    <2>1. FrameInv' /\ local' = local
      BY <1>11, FramesUnchanged DEF StopSignalPreview, controlTargets, controlFrame
    <2>2. PcTypes'
      BY <1>11, ThreadFacts DEF StopSignalPreview, Goto, ControlPC, PcTypes
    <2>3. RestTypes'
      BY <1>11, ThreadFacts
      DEF StopSignalPreview, controlTargets, controlFrame, flagVars, targetVars,
          syncVars, requestVars, captureVars, streamVars, SignalPreview, RestTypes
    <2>4. NoNullFrame' /\ RequestTyped'
      BY <1>11, <2>1, ThreadFacts
      DEF StopSignalPreview, Goto, ControlPC, controlTargets, controlFrame,
          requestVars, PcTypes, NoNullFrame, UsbHolds, PreviewHolds, CaptureHolds,
          CallbackSlot, RequestTyped
    <2> QED
      BY <2>1, <2>2, <2>3, <2>4
  <1>12. CASE StopSignalCapture
    <2>1. FrameInv' /\ local' = local
      BY <1>12, FramesUnchanged DEF StopSignalCapture, controlTargets, controlFrame
    <2>2. PcTypes'
      BY <1>12, ThreadFacts DEF StopSignalCapture, Goto, ControlPC, PcTypes
    <2>3. RestTypes'
      BY <1>12, ThreadFacts
      DEF StopSignalCapture, controlTargets, controlFrame, flagVars, targetVars,
          syncVars, requestVars, captureVars, streamVars, SignalCapture, RestTypes
    <2>4. NoNullFrame' /\ RequestTyped'
      BY <1>12, <2>1, ThreadFacts
      DEF StopSignalCapture, Goto, ControlPC, controlTargets, controlFrame,
          requestVars, PcTypes, NoNullFrame, UsbHolds, PreviewHolds, CaptureHolds,
          CallbackSlot, RequestTyped
    <2> QED
      BY <2>1, <2>2, <2>3, <2>4
  <1>13. CASE JoinCaptureThread
    <2>1. FrameInv' /\ local' = local
      BY <1>13, FramesUnchanged
      DEF JoinCaptureThread, controlTargets, controlFrame, frameVars, queueVars
    <2>2. PcTypes'
      <3>1. CASE capture_thread = NULL
        BY <1>13, <3>1, ThreadFacts DEF JoinCaptureThread, ControlPC, PcTypes
      <3>2. CASE capture_thread # NULL
        <4>1. capture_thread \in CaptureThreads
          BY <3>2 DEF RestTypes
        <4>2. pc' = [pc EXCEPT !["control"] = "stop.joinPreview", ![capture_thread] = "none"]
          BY <1>13, <3>2 DEF JoinCaptureThread
        <4> QED
          BY <4>1, <4>2, ThreadFacts DEF ControlPC, CapturePC, PcTypes
      <3> QED
        BY <3>1, <3>2
    <2>3. RestTypes'
      BY <1>13, ThreadFacts
      DEF JoinCaptureThread, controlTargets, controlFrame, flagVars, targetVars,
          syncVars, requestVars, captureVars, streamVars, RestTypes
    <2>4. NoNullFrame' /\ RequestTyped'
      BY <1>13, <2>1, ThreadFacts
      DEF JoinCaptureThread, Goto, ControlPC, controlTargets, controlFrame,
          requestVars, PcTypes, NoNullFrame, UsbHolds, PreviewHolds, CaptureHolds,
          CallbackSlot, RequestTyped
    <2> QED
      BY <2>1, <2>2, <2>3, <2>4
  <1>14. CASE JoinPreviewThread
    <2>1. FrameInv' /\ local' = local
      BY <1>14, FramesUnchanged
      DEF JoinPreviewThread, controlTargets, controlFrame, frameVars, queueVars
    <2>2. PcTypes'
      BY <1>14, ThreadFacts DEF JoinPreviewThread, Goto, ControlPC, PreviewPC, PcTypes
    <2>3. RestTypes'
      BY <1>14, ThreadFacts
      DEF JoinPreviewThread, controlTargets, controlFrame, flagVars, targetVars,
          syncVars, requestVars, captureVars, streamVars, RestTypes
    <2>4. NoNullFrame' /\ RequestTyped'
      BY <1>14, <2>1, ThreadFacts
      DEF JoinPreviewThread, Goto, ControlPC, controlTargets, controlFrame,
          requestVars, PcTypes, NoNullFrame, UsbHolds, PreviewHolds, CaptureHolds,
          CallbackSlot, RequestTyped
    <2> QED
      BY <2>1, <2>2, <2>3, <2>4
  <1>15. CASE StopClearPreview
    <2>1. FrameInv' /\ local' = local
      BY <1>15, ClearPreviewFrameInv DEF StopClearPreview
    <2>2. PcTypes'
      BY <1>15, ThreadFacts DEF StopClearPreview, Goto, ControlPC, PcTypes
    <2>3. RestTypes'
      BY <1>15, ThreadFacts
      DEF StopClearPreview, controlTargets, controlFrame, flagVars, targetVars,
          syncVars, requestVars, captureVars, streamVars, RestTypes
    <2>4. NoNullFrame' /\ RequestTyped'
      BY <1>15, <2>1, ThreadFacts
      DEF StopClearPreview, Goto, ControlPC, controlTargets, controlFrame,
          requestVars, PcTypes, NoNullFrame, UsbHolds, PreviewHolds, CaptureHolds,
          CallbackSlot, RequestTyped
    <2> QED
      BY <2>1, <2>2, <2>3, <2>4
  <1>16. CASE StopClearCapture
    <2>1. FrameInv' /\ local' = local
      BY <1>16, ClearCaptureFrameInv DEF StopClearCapture
    <2>2. PcTypes'
      BY <1>16, ThreadFacts DEF StopClearCapture, Goto, ControlPC, PcTypes
    <2>3. RestTypes'
      BY <1>16, ThreadFacts
      DEF StopClearCapture, controlTargets, controlFrame, flagVars, targetVars,
          syncVars, requestVars, captureVars, streamVars, RestTypes
    <2>4. NoNullFrame' /\ RequestTyped'
      BY <1>16, <2>1, ThreadFacts
      DEF StopClearCapture, Goto, ControlPC, controlTargets, controlFrame,
          requestVars, PcTypes, NoNullFrame, UsbHolds, PreviewHolds, CaptureHolds,
          CallbackSlot, RequestTyped
    <2> QED
      BY <2>1, <2>2, <2>3, <2>4
  <1>17. CASE ReleasePreviewWindow
    <2>1. FrameInv' /\ local' = local
      BY <1>17, FramesUnchanged DEF ReleasePreviewWindow, controlTargets, controlFrame
    <2>2. PcTypes'
      BY <1>17, ThreadFacts DEF ReleasePreviewWindow, Goto, ControlPC, PcTypes
    <2>3. RestTypes'
      BY <1>17, ThreadFacts
      DEF ReleasePreviewWindow, controlTargets, controlFrame, flagVars, targetVars,
          syncVars, requestVars, captureVars, streamVars, RestTypes
    <2>4. NoNullFrame' /\ RequestTyped'
      BY <1>17, <2>1, ThreadFacts
      DEF ReleasePreviewWindow, Goto, ControlPC, controlTargets, controlFrame,
          requestVars, PcTypes, NoNullFrame, UsbHolds, PreviewHolds, CaptureHolds,
          CallbackSlot, RequestTyped
    <2> QED
      BY <2>1, <2>2, <2>3, <2>4
  <1>18. CASE ReleaseCaptureWindow
    <2>1. FrameInv' /\ local' = local
      BY <1>18, FramesUnchanged DEF ReleaseCaptureWindow, controlTargets, controlFrame
    <2>2. PcTypes'
      BY <1>18, ThreadFacts DEF ReleaseCaptureWindow, Goto, ControlPC, PcTypes
    <2>3. RestTypes'
      BY <1>18, ThreadFacts
      DEF ReleaseCaptureWindow, controlTargets, controlFrame, flagVars, targetVars,
          syncVars, requestVars, captureVars, streamVars, RestTypes
    <2>4. NoNullFrame' /\ RequestTyped'
      BY <1>18, <2>1, ThreadFacts
      DEF ReleaseCaptureWindow, Goto, ControlPC, controlTargets, controlFrame,
          requestVars, PcTypes, NoNullFrame, UsbHolds, PreviewHolds, CaptureHolds,
          CallbackSlot, RequestTyped
    <2> QED
      BY <2>1, <2>2, <2>3, <2>4
  <1>19. CASE DeletePreview
    <2>1. FrameInv' /\ local' = local
      BY <1>19, DeletePreviewInv DEF DeletePreview
    <2>2. PcTypes'
      BY <1>19, ThreadFacts DEF DeletePreview, Goto, ControlPC, PcTypes
    <2>3. RestTypes'
      BY <1>19, ThreadFacts
      DEF DeletePreview, controlTargets, controlFrame, flagVars, targetVars,
          syncVars, requestVars, captureVars, streamVars, RestTypes
    <2>4. NoNullFrame' /\ RequestTyped'
      BY <1>19, <2>1, ThreadFacts
      DEF DeletePreview, Goto, ControlPC, controlTargets, controlFrame, requestVars,
          PcTypes, NoNullFrame, UsbHolds, PreviewHolds, CaptureHolds, CallbackSlot,
          RequestTyped
    <2> QED
      BY <2>1, <2>2, <2>3, <2>4
  <1> QED
    BY <1>1, <1>2, <1>3, <1>4, <1>5, <1>6, <1>7, <1>8, <1>9, <1>10, <1>11, <1>12, <1>13, <1>14, <1>15, <1>16, <1>17, <1>18, <1>19
    DEF Control

-------------------------------------------------------------------------------
(* Initial states, steps, theorems *)

LEMMA IInvInit == Init => IInv
  <1> SUFFICES ASSUME Init
               PROVE  IInv
    OBVIOUS
  <1>1. <<>> \in Seq(Frames) /\ Len(<<>>) = 0 /\ Distinct(<<>>) /\ \A f : ~InSeq(f, <<>>)
    BY EmptySeq DEF Distinct, InSeq
  <1>2. FrameTypes
    BY <1>1, Sizes DEF Init, FrameTypes, FrameOrNull
  <1>3. OneOwner /\ NoUseAfterFree
    BY <1>1, Sizes DEF Init, OneOwner, NoUseAfterFree, Owned
  <1>4. /\ pc["control"] = "idle" /\ pc["usb"] = "idle" /\ pc["preview"] = "none"
        /\ \A c \in CaptureThreads : pc[c] = "none"
        /\ pc \in [Threads -> {"idle", "none"}]
    BY ThreadFacts DEF Init
  <1>5. PcTypes
    BY <1>4 DEF PcTypes, ControlPC, UsbPC, PreviewPC, CapturePC
  <1>6. RestTypes
    <2>1. 0 \in 0..MaxSent /\ 0 \in 0..MaxStarts
      BY PreviewAssumption
    <2>2. request \in (Callbacks \cup CaptureWindows \cup {NULL}) \X (PixelFormats \cup {NULL})
      BY DEF Init, NoRequest
    <2>3. /\ surface \in [CaptureThreads -> BOOLEAN]
      BY DEF Init
    <2> QED
      BY <2>1, <2>2, <2>3 DEF Init, RestTypes
  <1>7. NoNullFrame /\ RequestTyped
    BY <1>4
    DEF NoNullFrame, UsbHolds, PreviewHolds, CaptureHolds, RequestTyped
  <1> QED
    BY <1>2, <1>3, <1>5, <1>6, <1>7 DEF IInv, FrameInv

LEMMA IInvStep == IInv /\ [Next]_vars => IInv'
  <1> SUFFICES ASSUME IInv, [Next]_vars
               PROVE  IInv'
    OBVIOUS
  <1>1. CASE Control
    BY <1>1, ControlStep
  <1>2. CASE Usb
    BY <1>2, UsbStep
  <1>3. CASE Preview
    BY <1>3, PreviewStep
  <1>4. ASSUME NEW c \in CaptureThreads, Capture(c)
        PROVE  IInv'
    BY <1>4, CaptureStep
  <1>5. CASE SpuriousWakeup
    <2> USE DEF IInv
    <2>1. FrameInv' /\ local' = local
      BY <1>5, FramesUnchanged DEF SpuriousWakeup
    <2>2. pc' = pc /\ UNCHANGED requestVars
      BY <1>5 DEF SpuriousWakeup
    <2>3. RestTypes'
      <3>1. UNCHANGED <<flagVars, targetVars, captureVars, requestVars, streamVars>>
            /\ preview_sync' \subseteq preview_sync /\ capture_sync' \subseteq capture_sync
        BY <1>5 DEF SpuriousWakeup
      <3> QED
        BY <3>1
        DEF flagVars, targetVars, captureVars, requestVars, streamVars, RestTypes
    <2>4. PcTypes' /\ NoNullFrame' /\ RequestTyped'
      BY <2>1, <2>2
      DEF requestVars, PcTypes, NoNullFrame, UsbHolds, PreviewHolds, CaptureHolds,
          CallbackSlot, RequestTyped
    <2> QED
      BY <2>1, <2>3, <2>4
  <1>6. CASE UNCHANGED vars
    <2> USE DEF IInv
    <2>1. FrameInv' /\ local' = local
      BY <1>6, FramesUnchanged DEF vars
    <2>2. RestTypes' /\ PcTypes' /\ NoNullFrame' /\ RequestTyped'
      BY <1>6, <2>1
      DEF vars, flagVars, targetVars, syncVars, captureVars, requestVars, streamVars,
          RestTypes, PcTypes, NoNullFrame, UsbHolds, PreviewHolds, CaptureHolds,
          CallbackSlot, RequestTyped
    <2> QED
      BY <2>1, <2>2
  <1> QED
    BY <1>1, <1>2, <1>3, <1>4, <1>5, <1>6 DEF Next

LEMMA Inductive == Spec => []IInv
  BY IInvInit, IInvStep, PTL DEF Spec

\* Every variable keeps its type, the pool FRAME_POOL_SZ and the queue MAX_FRAME
\* (112-122, 415-427), for every pool size and number of threads.
THEOREM TypeCorrect == Spec => []TypeOK
  <1>1. IInv => TypeOK
    BY DEF IInv, FrameInv, FrameTypes, PcTypes, RestTypes, TypeOK
  <1> QED
    BY Inductive, <1>1, PTL

\* A buffer is in one place only, through every hand-over of get_frame,
\* recycle_frame, addPreviewFrame, addCaptureFrame and their takers (96-122,
\* 415-442, 696-739), for any number of buffers and of capture threads left over.
THEOREM BufferOwnership == Spec => []OneOwner
  <1>1. IInv => OneOwner
    BY DEF IInv, FrameInv
  <1> QED
    BY Inductive, <1>1, PTL

\* No buffer the pool, a queue or a thread still reaches has been freed (112-122).
THEOREM NoFreedBuffer == Spec => []NoUseAfterFree
  <1>1. IInv => NoUseAfterFree
    BY DEF IInv, FrameInv
  <1> QED
    BY Inductive, <1>1, PTL

\* A thread that is about to use a frame holds one, also when get_frame may find no memory,
\* everywhere but in the MJPEG loop's call of uvc_mjpeg2yuyv (384-427, 529-546, 787-871).
THEOREM NoNullPointer == Spec => []NoNullFrame
  <1>1. IInv => NoNullFrame
    BY DEF IInv
  <1> QED
    BY Inductive, <1>1, PTL

===============================================================================
