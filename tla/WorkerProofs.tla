---------------------------- MODULE WorkerProofs ----------------------------
(***************************************************************************)
(* The guest and the worker around it.                                     *)
(*                                                                         *)
(* One run of the guest, for every alphabet, marker, set of payloads,      *)
(* requests and prints: whatever the app prints and wherever it dies, the  *)
(* worker decodes exactly the frame the bridge wrote, the warm-up stays    *)
(* out of the app, and the worker's buffer is never too small.  A run of   *)
(* an app that forges no answer implements Exchange.                       *)
(* AnswerIsTheFrame speaks of finished runs only and is not inductive.  It *)
(* follows at the last step from Framed: since the frame was written, the  *)
(* worker's buffer is something, then the frame, then `late`.              *)
(* FrameIsFound does the rest.                                             *)
(*                                                                         *)
(* The worker around the guest, for every set of fetches, every limit and  *)
(* every message: a run is for one fetch, on its own request and within    *)
(* the limit, however fetches interleave at their await.  From this, and   *)
(* from what Exchange promises of a run of the guest, the worker keeps the *)
(* promise of Service to its clients.  The guest's own invariant holds     *)
(* under the worker, since every run starts afresh; so an app that forges  *)
(* no answer has that promise kept.                                        *)
(***************************************************************************)
EXTENDS Worker, NatProofs, SequenceTheorems

-----------------------------------------------------------------------------
(* The frame is found, whatever surrounds it: for every payload shorter    *)
(* than Base^4 bytes, everything the guest wrote before it (copies of the  *)
(* marker included) and everything after it that holds no marker, the      *)
(* worker cuts all exactly the payload the bridge framed.  A later marker  *)
(* would have to begin inside the frame's own, at a byte equal to the      *)
(* marker's first, which SentinelAssumption excludes.                      *)

\* The quotient and the remainder by Base put a number together again.
LEMMA DivMod ==
  ASSUME NEW n \in Nat
  PROVE  /\ n \div Base \in Nat /\ n % Base \in 0 .. Base - 1
         /\ (n \div Base) * Base + (n % Base) = n
<1>1. Base \in Nat /\ Base > 0
  BY BaseAssumption
<1>2. QED
  BY <1>1

LEMMA DivSmaller ==
  ASSUME NEW n \in Nat, NEW m \in Nat, n < m * Base
  PROVE  n \div Base < m
<1>1. Base \in Nat /\ Base > 0
  BY BaseAssumption
<1> DEFINE q == n \div Base
<1>2. PICK r \in Nat : q \in Nat /\ q * Base + r = n
  BY <1>1, DivMod
<1> HIDE DEF q
<1>3. SUFFICES ASSUME q >= m PROVE FALSE
  BY <1>2 DEF q
<1>4. q * Base >= m * Base /\ q * Base \in Nat /\ m * Base \in Nat
  BY <1>1, <1>2, <1>3
<1>5. QED
  BY <1>2, <1>4

LEMMA ModSmall ==
  ASSUME NEW n \in Nat, n < Base
  PROVE  n % Base = n
BY BaseAssumption

\* getUint32 reads back what <<Size:32>> wrote.
LEMMA U32RoundTrip ==
  ASSUME NEW n \in Nat, n < Limit
  PROVE  /\ U32(n) \in Bytes /\ Len(U32(n)) = 4
         /\ GetU32(U32(n), 0) = n
<1> DEFINE q1 == n \div Base
           q2 == q1 \div Base
           q3 == q2 \div Base
<1>0. Base \in Nat
  BY BaseAssumption
<1>1. q1 \in Nat /\ n % Base \in Byte /\ q1 * Base + (n % Base) = n
  BY DivMod DEF Byte
<1>2. q2 \in Nat /\ q1 % Base \in Byte /\ q2 * Base + (q1 % Base) = q1
  BY <1>1, DivMod DEF Byte
<1>3. q3 \in Nat /\ q2 % Base \in Byte /\ q3 * Base + (q2 % Base) = q2
  BY <1>2, DivMod DEF Byte
<1>4. q3 < Base
  <2> HIDE DEF q1, q2, q3
  <2>1. q1 < Base * Base * Base
    BY <1>0, DivSmaller DEF q1, Limit
  <2>2. q2 < Base * Base
    BY <1>0, <1>1, <2>1, DivSmaller DEF q2
  <2>3. QED
    BY <1>0, <1>2, <2>2, DivSmaller DEF q3
<1>5. q3 % Base = q3 /\ q3 \in Byte
  BY <1>0, <1>3, <1>4, ModSmall DEF Byte
<1>6. U32(n) = <<q3, q2 % Base, q1 % Base, n % Base>>
  <2>1. U32(n) = <<q3 % Base, q2 % Base, q1 % Base, n % Base>>
    BY DEF U32, q1, q2, q3
  <2>2. QED
    BY <1>5, <2>1
<1> HIDE DEF q1, q2, q3
<1>7. U32(n) \in Bytes /\ Len(U32(n)) = 4
  BY <1>1, <1>2, <1>3, <1>5, <1>6 DEF Bytes
<1>8. GetU32(U32(n), 0) = ((q3 * Base + (q2 % Base)) * Base + (q1 % Base)) * Base + (n % Base)
  BY <1>6 DEF GetU32
<1>9. QED
  BY <1>1, <1>2, <1>3, <1>7, <1>8

-----------------------------------------------------------------------------
LEMMA BytesConcat ==
  ASSUME NEW s \in Bytes, NEW t \in Bytes
  PROVE  /\ s \o t \in Bytes /\ Len(s \o t) = Len(s) + Len(t)
         /\ \A k \in 1 .. Len(s) : (s \o t)[k] = s[k]
         /\ \A k \in 1 .. Len(t) : (s \o t)[Len(s) + k] = t[k]
<1>1. Len(s) \in Nat /\ Len(t) \in Nat
  BY LenProperties DEF Bytes
<1>2. /\ s \o t \in Seq(Byte) /\ Len(s \o t) = Len(s) + Len(t)
      /\ \A k \in 1 .. Len(s) + Len(t) :
           (s \o t)[k] = IF k <= Len(s) THEN s[k] ELSE t[k - Len(s)]
  <2>1. s \in Seq(Byte) /\ t \in Seq(Byte)
    BY DEF Bytes
  <2>2. QED
    BY <2>1, ConcatProperties
<1>3. \A k \in 1 .. Len(s) : (s \o t)[k] = s[k]
  BY <1>1, <1>2
<1>4. \A k \in 1 .. Len(t) : (s \o t)[Len(s) + k] = t[k]
  <2> TAKE k \in 1 .. Len(t)
  <2>1. /\ Len(s) + k \in 1 .. Len(s) + Len(t) /\ ~(Len(s) + k <= Len(s))
        /\ Len(s) + k - Len(s) = k
    BY <1>1
  <2>2. QED
    BY <1>2, <2>1
<1>5. QED
  BY <1>2, <1>3, <1>4 DEF Bytes

\* Where the parts of a framed output are.
LaidOut(all, pre, payload, u, mark, post) ==
  LET end == Len(pre) + Len(payload) + 4
  IN  /\ all \in Bytes /\ Len(all) = end + Len(mark) + Len(post)
      /\ \A j \in 1 .. Len(payload) : all[Len(pre) + j] = payload[j]
      /\ \A j \in 1 .. 4 : all[Len(pre) + Len(payload) + j] = u[j]
      /\ \A j \in 1 .. Len(mark) : all[end + j] = mark[j]
      /\ \A j \in 1 .. Len(post) : all[end + Len(mark) + j] = post[j]

LEMMA Layout ==
  ASSUME NEW pre \in Bytes, NEW payload \in Bytes, NEW u \in Bytes, NEW mark \in Bytes,
         NEW post \in Bytes, Len(u) = 4
  PROVE  LaidOut(pre \o (payload \o u \o mark) \o post, pre, payload, u, mark, post)
<1> DEFINE a == payload \o u
           b == a \o mark
           c == pre \o b
           all == c \o post
           end == Len(pre) + Len(payload) + 4
<1>0. /\ Len(pre) \in Nat /\ Len(payload) \in Nat /\ Len(mark) \in Nat
      /\ Len(post) \in Nat
  BY LenProperties DEF Bytes
<1>1. /\ a \in Bytes /\ Len(a) = Len(payload) + 4
      /\ \A k \in 1 .. Len(payload) : a[k] = payload[k]
      /\ \A k \in 1 .. 4 : a[Len(payload) + k] = u[k]
  <2>1. /\ a \in Bytes /\ Len(a) = Len(payload) + Len(u)
        /\ \A k \in 1 .. Len(payload) : a[k] = payload[k]
        /\ \A k \in 1 .. Len(u) : a[Len(payload) + k] = u[k]
    BY BytesConcat, Zenon
  <2> HIDE DEF a
  <2>2. QED
    BY <2>1
<1> HIDE DEF a
<1>2. /\ b \in Bytes /\ Len(b) = Len(payload) + 4 + Len(mark)
      /\ \A k \in 1 .. Len(payload) + 4 : b[k] = a[k]
      /\ \A k \in 1 .. Len(mark) : b[Len(payload) + 4 + k] = mark[k]
  <2>1. /\ b \in Bytes /\ Len(b) = Len(a) + Len(mark)
        /\ \A k \in 1 .. Len(a) : b[k] = a[k]
        /\ \A k \in 1 .. Len(mark) : b[Len(a) + k] = mark[k]
    BY <1>1, BytesConcat, Zenon
  <2> HIDE DEF b
  <2>2. QED
    BY <1>1, <2>1
<1> HIDE DEF b
<1>3. /\ c \in Bytes /\ Len(c) = Len(pre) + (Len(payload) + 4 + Len(mark))
      /\ \A k \in 1 .. Len(b) : c[Len(pre) + k] = b[k]
  <2>1. /\ c \in Bytes /\ Len(c) = Len(pre) + Len(b)
        /\ \A k \in 1 .. Len(b) : c[Len(pre) + k] = b[k]
    BY <1>2, BytesConcat, Zenon
  <2> HIDE DEF c
  <2>2. QED
    BY <1>2, <2>1
<1> HIDE DEF c
<1>4. /\ all \in Bytes /\ Len(all) = Len(c) + Len(post)
      /\ \A k \in 1 .. Len(c) : all[k] = c[k]
      /\ \A k \in 1 .. Len(post) : all[Len(c) + k] = post[k]
  BY <1>3, BytesConcat
<1> HIDE DEF all
<1>5. \A k \in 1 .. Len(b) : all[Len(pre) + k] = b[k]
  <2> TAKE k \in 1 .. Len(b)
  <2>1. Len(pre) + k \in 1 .. Len(c)
    BY <1>0, <1>2, <1>3
  <2>2. QED
    BY <1>3, <1>4, <2>1
<1>6. \A j \in 1 .. Len(payload) : all[Len(pre) + j] = payload[j]
  <2> TAKE j \in 1 .. Len(payload)
  <2>1. j \in 1 .. Len(b) /\ j \in 1 .. Len(payload) + 4
    BY <1>0, <1>2
  <2>2. QED
    BY <1>1, <1>2, <1>5, <2>1
<1>7. \A j \in 1 .. 4 : all[Len(pre) + Len(payload) + j] = u[j]
  <2> TAKE j \in 1 .. 4
  <2>1. /\ Len(payload) + j \in 1 .. Len(b) /\ Len(payload) + j \in 1 .. Len(payload) + 4
        /\ Len(pre) + Len(payload) + j = Len(pre) + (Len(payload) + j)
    BY <1>0, <1>2
  <2>2. QED
    BY <1>1, <1>2, <1>5, <2>1
<1>8. \A j \in 1 .. Len(mark) : all[end + j] = mark[j]
  <2> TAKE j \in 1 .. Len(mark)
  <2>1. /\ Len(payload) + 4 + j \in 1 .. Len(b)
        /\ end + j = Len(pre) + (Len(payload) + 4 + j)
    BY <1>0, <1>2
  <2>2. QED
    BY <1>2, <1>5, <2>1
<1>9. \A j \in 1 .. Len(post) : all[end + Len(mark) + j] = post[j]
  <2> TAKE j \in 1 .. Len(post)
  <2>1. end + Len(mark) + j = Len(c) + j
    BY <1>0, <1>3
  <2>2. QED
    BY <1>4, <2>1
<1>10. all \in Bytes /\ Len(all) = end + Len(mark) + Len(post)
  BY <1>0, <1>3, <1>4
<1>11. QED
  <2>1. LaidOut(all, pre, payload, u, mark, post)
    BY <1>6, <1>7, <1>8, <1>9, <1>10 DEF LaidOut
  <2>2. QED
    BY <2>1 DEF all, c, b, a

\* lastIndexOf finds the frame's own marker: nothing after it can complete another one.
LEMMA LastMarker ==
  ASSUME NEW all \in Bytes, NEW end \in Nat, NEW post \in Bytes, NoMarker(post),
         Len(all) = end + Len(Sentinel) + Len(post),
         \A j \in 1 .. Len(Sentinel) : all[end + j] = Sentinel[j],
         \A j \in 1 .. Len(post) : all[end + Len(Sentinel) + j] = post[j]
  PROVE  LastIndexOf(all, Sentinel) = end
<1> DEFINE at == Occurrences(all, Sentinel)
<1>0. Len(Sentinel) \in Nat \ {0} /\ Len(post) \in Nat
  BY SentinelAssumption, LenProperties DEF Bytes
<1>1. end \in at
  BY <1>0 DEF Occurrences, OccursAt
<1>3. \A k \in at : k \in Nat
  BY <1>0 DEF Occurrences
<1>2. \A k \in at : k <= end
  <2> SUFFICES ASSUME NEW k \in at, k > end PROVE FALSE
    <3> HIDE DEF at
    <3>1. QED
      BY <1>3
  <2>1. /\ k \in Nat /\ k + Len(Sentinel) <= Len(all)
        /\ \A j \in 1 .. Len(Sentinel) : all[k + j] = Sentinel[j]
    BY <1>0 DEF Occurrences, OccursAt
  <2>2. CASE k < end + Len(Sentinel)
    <3>1. k + 1 - end \in 2 .. Len(Sentinel)
      BY <1>0, <2>1, <2>2
    <3>2. all[k + 1] = Sentinel[k + 1 - end]
      <4>1. PICK i \in 2 .. Len(Sentinel) : i = k + 1 - end
        BY <3>1
      <4>2. i \in 1 .. Len(Sentinel) /\ end + i = k + 1
        BY <1>0, <2>1, <4>1
      <4>3. all[end + i] = Sentinel[i]
        BY <4>2
      <4>4. QED
        BY <4>1, <4>2, <4>3
    <3>3. all[k + 1] = Sentinel[1]
      BY <1>0, <2>1
    <3>4. QED
      BY <3>1, <3>2, <3>3, SentinelAssumption
  <2>3. CASE k >= end + Len(Sentinel)
    <3> DEFINE d == k - (end + Len(Sentinel))
    <3>1. d \in 0 .. Len(post) - Len(Sentinel) /\ k = end + Len(Sentinel) + d
      BY <1>0, <2>1, <2>3
    <3> HIDE DEF d
    <3>2. \A j \in 1 .. Len(Sentinel) : post[d + j] = Sentinel[j]
      <4> TAKE j \in 1 .. Len(Sentinel)
      <4>1. d + j \in 1 .. Len(post) /\ k + j = end + Len(Sentinel) + (d + j)
        BY <1>0, <3>1
      <4>2. QED
        BY <2>1, <4>1
    <3>3. d \in Occurrences(post, Sentinel)
      BY <1>0, <3>1, <3>2 DEF Occurrences, OccursAt
    <3>4. QED
      BY <3>3 DEF NoMarker
  <2>4. QED
    BY <1>0, <2>1, <2>2, <2>3
<1> HIDE DEF at
<1>4. (CHOOSE k \in at : \A m \in at : m <= k) = end
  <2> DEFINE e == CHOOSE k \in at : \A m \in at : m <= k
  <2>1. e \in at /\ \A m \in at : m <= e
    BY <1>1, <1>2
  <2> HIDE DEF e
  <2>2. e = end
    BY <1>1, <1>2, <1>3, <2>1
  <2>3. QED
    BY <2>2 DEF e
<1>5. LastIndexOf(all, Sentinel) = CHOOSE k \in at : \A m \in at : m <= k
  BY <1>1 DEF LastIndexOf, at
<1>6. QED
  BY <1>4, <1>5

\* Whatever the guest printed before the frame, and whatever markerless output follows it,
\* the worker answers with the payload the bridge framed (index.js:271-276, 306-324,
\* bridge.gleam:30-41).
THEOREM FrameIsFound ==
  ASSUME NEW pre \in Bytes, NEW payload \in Payloads, NEW post \in Bytes,
         Len(payload) < Limit, NoMarker(post)
  PROVE  ParseOutput(pre \o MakeFrame(payload) \o post) = Response(payload)
<1> DEFINE all == pre \o MakeFrame(payload) \o post
           end == Len(pre) + Len(payload) + 4
           u   == U32(Len(payload))
<1>0. /\ payload \in Bytes /\ Sentinel \in Bytes
      /\ Len(pre) \in Nat /\ Len(payload) \in Nat /\ Len(Sentinel) \in Nat
      /\ Len(post) \in Nat
  BY PayloadsAssumption, SentinelAssumption, LenProperties DEF Bytes
<1>1. u \in Bytes /\ Len(u) = 4 /\ GetU32(u, 0) = Len(payload)
  BY <1>0, U32RoundTrip
<1>2. all = pre \o (payload \o u \o Sentinel) \o post
  BY DEF MakeFrame
<1>3. end = Len(pre) + Len(payload) + 4 /\ end \in Nat
  BY <1>0
<1> HIDE DEF u
<1>4. /\ all \in Bytes /\ Len(all) = end + Len(Sentinel) + Len(post)
      /\ \A j \in 1 .. Len(payload) : all[Len(pre) + j] = payload[j]
      /\ \A j \in 1 .. 4 : all[Len(pre) + Len(payload) + j] = u[j]
      /\ \A j \in 1 .. Len(Sentinel) : all[end + j] = Sentinel[j]
      /\ \A j \in 1 .. Len(post) : all[end + Len(Sentinel) + j] = post[j]
  <2> HIDE DEF all
  <2>1. LaidOut(all, pre, payload, u, Sentinel, post)
    BY <1>0, <1>1, <1>2, Layout, Zenon
  <2>2. QED
    BY <2>1 DEF LaidOut
<1> HIDE DEF all, end
<1>5. LastIndexOf(all, Sentinel) = end
  BY <1>3, <1>4, LastMarker
<1>6. GetU32(all, end - 4) = Len(payload)
  <2>1. \A j \in 1 .. 4 : all[end - 4 + j] = u[j]
    <3> TAKE j \in 1 .. 4
    <3>1. end - 4 + j = Len(pre) + Len(payload) + j
      BY <1>0, <1>3
    <3>2. QED
      BY <1>4, <3>1
  <2>2. /\ all[end - 4 + 1] = u[0 + 1] /\ all[end - 4 + 2] = u[0 + 2]
        /\ all[end - 4 + 3] = u[0 + 3] /\ all[end - 4 + 4] = u[0 + 4]
    BY <2>1
  <2>3. GetU32(all, end - 4) = GetU32(u, 0)
    BY <2>2 DEF GetU32
  <2>4. QED
    BY <1>1, <2>3
<1>7. SubSeq(all, Len(pre) + 1, end - 4) = payload
  <2> DEFINE cut == SubSeq(all, Len(pre) + 1, end - 4)
  <2>1. \A k \in Len(pre) + 1 .. end - 4 : all[k] \in Byte
    <3>1. \A k \in 1 .. Len(all) : all[k] \in Byte
      BY <1>4, ElementOfSeq DEF Bytes
    <3>2. QED
      BY <1>0, <1>3, <1>4, <3>1
  <2>2. /\ cut \in Bytes
        /\ Len(cut) = IF Len(pre) + 1 <= end - 4 THEN end - 4 - (Len(pre) + 1) + 1 ELSE 0
        /\ \A k \in 1 .. end - 4 - (Len(pre) + 1) + 1 : cut[k] = all[Len(pre) + 1 + k - 1]
    BY <1>0, <1>3, <2>1, SubSeqProperties DEF Bytes
  <2> HIDE DEF cut
  <2>3. Len(cut) = Len(payload)
    BY <1>0, <1>3, <2>2
  <2>4. \A k \in 1 .. Len(payload) : cut[k] = payload[k]
    <3> TAKE k \in 1 .. Len(payload)
    <3>1. k \in 1 .. end - 4 - (Len(pre) + 1) + 1 /\ Len(pre) + 1 + k - 1 = Len(pre) + k
      BY <1>0, <1>3
    <3>2. QED
      BY <1>4, <2>2, <3>1
  <2>5. cut = payload
    BY <1>0, <2>2, <2>3, <2>4, SeqEqual DEF Bytes
  <2>6. QED
    BY <2>5 DEF cut
<1>8. end >= 4 /\ end - 4 - GetU32(all, end - 4) = Len(pre)
  BY <1>0, <1>3, <1>6
<1>9. ParseOutput(all) = Decode(SubSeq(all, Len(pre) + 1, end - 4))
  BY <1>0, <1>5, <1>8 DEF ParseOutput
<1>10. ParseOutput(all) = Response(payload)
  BY <1>7, <1>9 DEF Decode
<1>11. QED
  BY <1>10 DEF all

-----------------------------------------------------------------------------
(* The inductive invariant *)

\* TypeOK but for the counters.
Types ==
  /\ req \in Requests
  /\ pc \in {"boot", "start", "decode", "secret", "handler", "write", "after", "return",
             "exited"}
  /\ pending \in Bytes /\ out.data \in Bytes /\ late \in Bytes
  /\ encoded \in Payloads \union {<<>>} /\ framed \in BOOLEAN
  /\ drew \in Nat /\ called \in Nat

\* The rest of TypeOK: what was written fits the worker's buffer, however often it grew.
Room ==
  /\ out.size \in Nat \ {0} /\ Len(out.data) <= out.size
  /\ prints \in 0 .. MaxPrints

\* What each program point knows of the request, the handler and the frame.
Control ==
  /\ pc \in {"boot", "start", "decode", "secret"} => drew = 0 /\ called = 0
  /\ pc \in {"secret", "handler"} => req.form = "ok"
  /\ pc = "handler" => req.purpose = "serve" /\ drew = 1 /\ called = 1
  /\ pc = "write" => encoded \in Payloads
  /\ framed => encoded \in Payloads /\ pc \in {"after", "return", "exited"}
  /\ ~framed => late = <<>>
  /\ pc # "exited" => outcome = Pending

\* Where the frame is in what the worker has.
Framed ==
  framed => \E pre \in Bytes : out.data = pre \o MakeFrame(encoded) \o late

\* What is framed answers this request.
Answering == pc = "write" \/ framed => encoded \in AnswersTo(req)

\* AnswerIsTheFrame, and that a run that is over has an outcome.
Answered ==
  pc = "exited" /\ outcome # Throws =>
    IF framed THEN NoMarker(late) => outcome = Response(encoded)
              ELSE NoMarker(Written(out)) => outcome = NoOutput

IInv ==
  /\ Types /\ Room /\ Control /\ WarmupIsInert /\ HandledOnce
  /\ Answering /\ Framed /\ Answered

-----------------------------------------------------------------------------
LEMMA ConcatBytes ==
  ASSUME NEW s \in Bytes, NEW t \in Bytes
  PROVE  s \o t \in Bytes
BY BytesConcat

LEMMA BytesAssociate ==
  ASSUME NEW s \in Bytes, NEW t \in Bytes, NEW u \in Bytes
  PROVE  (s \o t) \o u = s \o (t \o u)
<1>1. s \in Seq(Byte) /\ t \in Seq(Byte) /\ u \in Seq(Byte)
  BY DEF Bytes
<1>2. QED
  BY <1>1, ConcatAssociative

LEMMA EmptyBytes ==
  /\ <<>> \in Bytes
  /\ \A s \in Bytes : s \o <<>> = s
BY ConcatEmptySeq, EmptySeq DEF Bytes

\* A payload's frame is made of bytes.
LEMMA FrameBytes ==
  ASSUME NEW p \in Payloads
  PROVE  p \in Bytes /\ MakeFrame(p) \in Bytes /\ Len(p) \in Nat /\ Len(p) < Limit
<1>1. p \in Bytes /\ Len(p) \in Nat /\ Len(p) < Limit
  BY PayloadsAssumption, PayloadSizeAssumption, LenProperties DEF Bytes
<1>2. U32(Len(p)) \in Bytes /\ Sentinel \in Bytes
  BY <1>1, U32RoundTrip, SentinelAssumption
<1>3. MakeFrame(p) \in Bytes
  BY <1>1, <1>2, ConcatBytes DEF MakeFrame
<1>4. QED
  BY <1>1, <1>3

\* fd_write appends.
LEMMA WrittenAppends ==
  ASSUME NEW o, NEW d
  PROVE  FdWrite(o, d).data = o.data \o d /\ Written(FdWrite(o, d)) = o.data \o d
BY DEF FdWrite, Written

-----------------------------------------------------------------------------
(* The growth of the worker's buffer.  k doublings make more than k of 1,  *)
(* so need doublings of any size hold need bytes, and the loop ends.       *)

LEMMA Doubled == doubled[0] = 1 /\ \A n \in Nat : doubled[n + 1] = 2 * doubled[n]
<1> DEFINE step == [n \in Nat |-> [x \in Nat |-> 2 * x]]
<1>1. Within(Nat, 1, step)
  BY DEF Within
<1>2. \A n, x \in Nat : step[n][x] = 2 * x
  OBVIOUS
<1> HIDE DEF step
<1>3. PICK f : Solves(f, Nat, 1, step)
  BY <1>1, Recursion
<1>4. \A n \in Nat : f[n] = IF n = 0 THEN 1 ELSE 2 * f[n - 1]
  <2> TAKE n \in Nat
  <2>1. CASE n # 0
    <3>1. n - 1 \in Nat /\ n - 1 + 1 = n
      BY <2>1
    <3>2. QED
      BY <1>2, <1>3, <2>1, <3>1 DEF Solves
  <2>2. QED
    BY <1>3, <2>1 DEF Solves
<1>5. f = [n \in Nat |-> IF n = 0 THEN 1 ELSE 2 * f[n - 1]]
  BY <1>3, <1>4 DEF Solves
<1>6. doubled = [n \in Nat |-> IF n = 0 THEN 1 ELSE 2 * doubled[n - 1]]
  BY <1>5 DEF doubled
<1>7. QED
  BY <1>6

LEMMA DoublingsGrow == \A k \in Nat : doubled[k] \in Nat /\ doubled[k] > k
<1> DEFINE T == {k \in Nat : doubled[k] \in Nat /\ doubled[k] > k}
<1>1. 0 \in T /\ \A k \in T : k + 1 \in T
  BY Doubled
<1>2. T \in SUBSET Nat
  OBVIOUS
<1>3. T = Nat
  <2> HIDE DEF T
  <2>1. QED
    BY <1>1, <1>2, SetInduction
<1>4. QED
  BY <1>3

LEMMA GrownHolds ==
  ASSUME NEW size \in Nat \ {0}, NEW need \in Nat \ {0}
  PROVE  Grown(size, need) \in Nat \ {0} /\ Grown(size, need) >= need
<1> DEFINE Enough == {s \in {size * doubled[k] : k \in 1 .. need} : s >= need}
<1>1. size * doubled[need] \in Enough
  <2>1. doubled[need] \in Nat /\ doubled[need] > need /\ need \in 1 .. need
    BY DoublingsGrow
  <2> DEFINE d == doubled[need]
  <2> HIDE DEF d
  <2>2. \A x, y \in Nat : x >= 1 => x * y >= y
    OBVIOUS
  <2>3. size * d >= d
    BY <2>1, <2>2 DEF d
  <2>4. size * d >= need
    BY <2>1, <2>3 DEF d
  <2>5. QED
    BY <2>1, <2>4 DEF d
<1>2. Enough \in SUBSET Nat
  BY DoublingsGrow
<1> HIDE DEF Enough
<1>3. \E s \in Enough : \A t \in Enough : s <= t
  BY <1>1, <1>2, LeastNatural
<1>4. Grown(size, need) \in Enough
  BY <1>3 DEF Grown, Min, Enough
<1>5. QED
  BY <1>2, <1>4 DEF Enough

LEMMA WriteHasRoom ==
  ASSUME NEW o, o.data \in Bytes, o.size \in Nat \ {0}, Len(o.data) <= o.size,
         NEW d \in Bytes
  PROVE  /\ FdWrite(o, d).size \in Nat \ {0}
         /\ Len(FdWrite(o, d).data) <= FdWrite(o, d).size
<1> DEFINE need == Len(o.data) + Len(d)
<1>1. Len(o.data) \in Nat /\ Len(d) \in Nat
  BY LenProperties DEF Bytes
<1>2. /\ FdWrite(o, d).size = IF need > o.size THEN Grown(o.size, need) ELSE o.size
      /\ Len(FdWrite(o, d).data) = need
  BY BytesConcat DEF FdWrite
<1> HIDE DEF need
<1>3. CASE need > o.size
  <2>1. need \in Nat \ {0}
    BY <1>1, <1>3 DEF need
  <2>2. Grown(o.size, need) \in Nat \ {0} /\ Grown(o.size, need) >= need
    BY <2>1, GrownHolds
  <2>3. QED
    BY <1>2, <1>3, <2>2
<1>4. CASE ~(need > o.size)
  BY <1>1, <1>2, <1>4 DEF need
<1>5. QED
  BY <1>3, <1>4

-----------------------------------------------------------------------------
\* What reaches the worker after the frame stays behind it.
LEMMA DeliverKeepsFramed ==
  ASSUME Types, Control, Framed, NEW d \in Bytes, Deliver(d), UNCHANGED <<encoded, framed>>
  PROVE  /\ Framed' /\ out'.data \in Bytes /\ late' \in Bytes
         /\ ~framed' => late' = <<>>
<1>1. out'.data = out.data \o d
  BY WrittenAppends DEF Deliver
<1>2. out'.data \in Bytes /\ late' \in Bytes
  BY <1>1, ConcatBytes DEF Deliver, Types
<1>3. CASE ~framed
  BY <1>2, <1>3 DEF Framed, Deliver, Control
<1>4. CASE framed
  <2>1. PICK pre \in Bytes : out.data = pre \o MakeFrame(encoded) \o late
    BY <1>4 DEF Framed
  <2>2. late' = late \o d /\ late \in Bytes /\ encoded \in Payloads
    BY <1>4 DEF Deliver, Types, Control
  <2>3. MakeFrame(encoded) \in Bytes
    BY <2>2, FrameBytes
  <2>4. pre \o MakeFrame(encoded) \in Bytes
    BY <2>1, <2>3, ConcatBytes
  <2>5. (pre \o MakeFrame(encoded) \o late) \o d = pre \o MakeFrame(encoded) \o (late \o d)
    BY <2>2, <2>4, BytesAssociate
  <2>6. out'.data = pre \o MakeFrame(encoded') \o late'
    BY <1>1, <2>1, <2>2, <2>5
  <2>7. QED
    BY <1>2, <1>4, <2>1, <2>6 DEF Framed
<1>5. QED
  BY <1>3, <1>4 DEF Types

\* All prints, and the trailer, are bytes.
LEMMA PrintableBytes == Printable \subseteq Bytes
BY PrintsAssumption DEF Printable

\* The output that a finished run is judged by, with and without a frame.
LEMMA Judged ==
  ASSUME NEW whole \in Bytes, NEW payload, NEW has, NEW after \in Bytes,
         has => payload \in Payloads,
         has => \E pre \in Bytes : whole = pre \o MakeFrame(payload) \o after
  PROVE  IF has THEN NoMarker(after) => ParseOutput(whole) = Response(payload)
                ELSE NoMarker(whole) => ParseOutput(whole) = NoOutput
<1>1. CASE has
  <2>1. PICK pre \in Bytes : whole = pre \o MakeFrame(payload) \o after
    BY <1>1
  <2>2. NoMarker(after) => ParseOutput(whole) = Response(payload)
    BY <1>1, <2>1, FrameBytes, FrameIsFound
  <2>3. QED
    BY <1>1, <2>2
<1>2. CASE ~has
  <2>1. SUFFICES ASSUME NoMarker(whole) PROVE ParseOutput(whole) = NoOutput
    BY <1>2
  <2>2. LastIndexOf(whole, Sentinel) = -1
    BY <2>1 DEF NoMarker, LastIndexOf
  <2>3. QED
    BY <2>2 DEF ParseOutput
<1>3. QED
  BY <1>1, <1>2

-----------------------------------------------------------------------------
\* A run starts well, also one that the worker starts (StartRun): with nothing left of an
\* earlier one.
Fresh ==
  /\ pc = "boot" /\ pending = <<>> /\ out = NoOutputYet(OutCap) /\ prints = 0
  /\ encoded = <<>> /\ framed = FALSE /\ late = <<>> /\ drew = 0 /\ called = 0
  /\ outcome = Pending

LEMMA FreshIInv == req \in Requests /\ Fresh => IInv
<1> SUFFICES ASSUME req \in Requests, Fresh PROVE IInv
  OBVIOUS
<1>1. Types
  BY EmptyBytes DEF Fresh, Types, NoOutputYet
<1>2. Room
  BY OutCapAssumption, MaxPrintsAssumption, EmptySeq DEF Fresh, Room, NoOutputYet
<1>3. Control /\ WarmupIsInert /\ HandledOnce /\ Answering /\ Framed /\ Answered
  BY DEF Fresh, Control, WarmupIsInert, HandledOnce, Answering, Framed, Answered
<1>4. QED
  BY <1>1, <1>2, <1>3 DEF IInv

LEMMA InitIInv == Init => IInv
  BY FreshIInv DEF Init, Fresh

\* The types, the control facts and the two properties about the handler, action by action.
Inert == Types /\ Control /\ WarmupIsInert /\ HandledOnce

LEMMA InertStep == Inert /\ Framed /\ GuestStep => Inert'
<1> SUFFICES ASSUME Inert, Framed, GuestStep PROVE Inert'
  OBVIOUS
<1> USE DEF Inert
<1>1. CASE Trap
  BY <1>1 DEF Trap, output, bridge, Types, Control, WarmupIsInert, HandledOnce
<1>2. CASE PrintOut
  <2>1. PICK c \in Printable :
          \/ pending' = pending \o c /\ UNCHANGED <<out, late>>
          \/ pending' = <<>> /\ Deliver(pending \o c)
    BY <1>2 DEF PrintOut
  <2>2. UNCHANGED <<req, pc, bridge, outcome>>
    BY <1>2 DEF PrintOut
  <2>3. pending \o c \in Bytes
    BY <2>1, PrintableBytes, ConcatBytes DEF Types
  <2>4. /\ pending' \in Bytes /\ out'.data \in Bytes /\ late' \in Bytes
        /\ ~framed' => late' = <<>>
    <3>1. CASE pending' = pending \o c /\ UNCHANGED <<out, late>>
      BY <2>2, <2>3, <3>1 DEF bridge, Types, Control
    <3>2. CASE pending' = <<>> /\ Deliver(pending \o c)
      BY <2>2, <2>3, <3>2, EmptyBytes, DeliverKeepsFramed DEF bridge
    <3>3. QED
      BY <2>1, <3>1, <3>2
  <2>5. QED
    BY <2>2, <2>4 DEF bridge, Types, Control, WarmupIsInert, HandledOnce
<1>3. CASE PrintErr
  <2>1. PICK c \in Printable : Deliver(c)
    BY <1>3 DEF PrintErr
  <2>2. UNCHANGED <<req, pc, pending, bridge, outcome>>
    BY <1>3 DEF PrintErr
  <2>3. out'.data \in Bytes /\ late' \in Bytes /\ (~framed' => late' = <<>>)
    BY <2>1, <2>2, PrintableBytes, DeliverKeepsFramed DEF bridge
  <2>4. QED
    BY <2>2, <2>3 DEF bridge, Types, Control, WarmupIsInert, HandledOnce
<1>4. CASE Boot
  BY <1>4 DEF Boot, output, bridge, Types, Control, WarmupIsInert, HandledOnce
<1>5. CASE Serve
  BY <1>5 DEF Serve, output, bridge, Types, Control, WarmupIsInert, HandledOnce
<1>6. CASE DecodeRequest
  BY <1>6, BridgePayloadsAssumption
     DEF DecodeRequest, output, Types, Control, WarmupIsInert, HandledOnce
<1>7. CASE MakeConnection
  BY <1>7, BridgePayloadsAssumption
     DEF MakeConnection, output, Types, Control, WarmupIsInert, HandledOnce
<1>8. CASE Handle
  <2>1. req.answers \subseteq Payloads
    BY RequestsAssumption DEF Types
  <2>2. encoded' \in Payloads
    BY <1>8, <2>1, BridgePayloadsAssumption DEF Handle
  <2>3. QED
    BY <1>8, <2>2 DEF Handle, output, Types, Control, WarmupIsInert, HandledOnce
<1>9. CASE WriteFrame
  <2>1. encoded \in Payloads
    BY <1>9 DEF WriteFrame, Control
  <2>2. pending \o MakeFrame(encoded) \in Bytes
    BY <2>1, FrameBytes, ConcatBytes DEF Types
  <2>3. out'.data \in Bytes
    BY <1>9, <2>2, WrittenAppends, ConcatBytes DEF WriteFrame, Types
  <2>4. QED
    BY <1>9, <2>1, <2>3, EmptyBytes DEF WriteFrame, Types, Control, WarmupIsInert, HandledOnce
<1>10. CASE Finish
  <2>1. pending' \in Bytes
    BY <1>10, TrailerAssumption, ConcatBytes DEF Finish, Types
  <2>2. QED
    BY <1>10, <2>1 DEF Finish, bridge, Types, Control, WarmupIsInert, HandledOnce
<1>11. CASE RunWasmReturns
  <2>1. Deliver(pending) /\ UNCHANGED <<req, prints, bridge>> /\ pending' = <<>> /\ pc' = "exited"
    BY <1>11 DEF RunWasmReturns
  <2>2. out'.data \in Bytes /\ late' \in Bytes /\ (~framed' => late' = <<>>)
    BY <2>1, DeliverKeepsFramed DEF bridge, Types
  <2>3. QED
    BY <2>1, <2>2, EmptyBytes DEF bridge, Types, Control, WarmupIsInert, HandledOnce
<1>12. QED
  BY <1>1, <1>2, <1>3, <1>4, <1>5, <1>6, <1>7, <1>8, <1>9, <1>10, <1>11 DEF GuestStep

\* The frame keeps its place.
LEMMA FramedStep == Inert /\ Framed /\ GuestStep => Framed'
<1> SUFFICES ASSUME Inert, Framed, GuestStep PROVE Framed'
  OBVIOUS
<1> USE DEF Inert
<1>1. CASE UNCHANGED <<out, late, encoded, framed>>
  BY <1>1 DEF Framed
<1>2. CASE UNCHANGED <<out, late, framed>> /\ pc \in {"decode", "secret", "handler"}
  BY <1>2 DEF Framed, Control
<1>3. CASE UNCHANGED <<encoded, framed>> /\ \E d \in Bytes : Deliver(d)
  BY <1>3, DeliverKeepsFramed
<1>4. CASE WriteFrame
  <2>1. /\ encoded \in Payloads /\ late = <<>>
        /\ late' = late /\ encoded' = encoded /\ out.data \in Bytes /\ pending \in Bytes
    BY <1>4 DEF WriteFrame, Control, Types
  <2> DEFINE f == MakeFrame(encoded)
  <2>2. f \in Bytes
    BY <2>1, FrameBytes
  <2>3. out'.data = out.data \o (pending \o f)
    BY <1>4, WrittenAppends DEF WriteFrame
  <2> HIDE DEF f
  <2>4. out.data \o pending \in Bytes /\ (out.data \o pending) \o f \in Bytes
    BY <2>1, <2>2, ConcatBytes
  <2>5. out'.data = (out.data \o pending) \o f
    BY <2>1, <2>2, <2>3, BytesAssociate
  <2>6. out'.data = (out.data \o pending) \o f \o late'
    BY <2>1, <2>4, <2>5, EmptyBytes
  <2>7. QED
    BY <2>1, <2>4, <2>6 DEF Framed, f
<1>5. CASE Trap \/ Boot \/ Serve \/ Finish
  BY <1>1, <1>5 DEF Trap, Boot, Serve, Finish, output, bridge
<1>6. CASE DecodeRequest \/ MakeConnection \/ Handle
  BY <1>2, <1>6 DEF DecodeRequest, MakeConnection, Handle, output
<1>7. CASE PrintOut
  <2>1. PICK c \in Printable :
          \/ pending' = pending \o c /\ UNCHANGED <<out, late>>
          \/ pending' = <<>> /\ Deliver(pending \o c)
    BY <1>7 DEF PrintOut
  <2>2. UNCHANGED <<encoded, framed>> /\ pending \o c \in Bytes
    BY <1>7, PrintableBytes, ConcatBytes DEF PrintOut, bridge, Types
  <2>3. CASE UNCHANGED <<out, late>>
    BY <1>1, <2>2, <2>3
  <2>4. CASE Deliver(pending \o c)
    BY <2>2, <2>4, DeliverKeepsFramed
  <2>5. QED
    BY <2>1, <2>3, <2>4
<1>8. CASE PrintErr
  <2>1. \E d \in Bytes : Deliver(d)
    BY <1>8, PrintableBytes DEF PrintErr
  <2>2. QED
    BY <1>3, <1>8, <2>1 DEF PrintErr, bridge
<1>9. CASE RunWasmReturns
  BY <1>3, <1>9 DEF RunWasmReturns, bridge, Types
<1>10. QED
  BY <1>4, <1>5, <1>6, <1>7, <1>8, <1>9 DEF GuestStep

\* Output fits, and prints are counted.
LEMMA RoomStep == Types /\ Control /\ Room /\ GuestStep => Room'
<1> SUFFICES ASSUME Types, Control, Room, GuestStep PROVE Room'
  OBVIOUS
<1>1. ASSUME NEW d \in Bytes, out' = FdWrite(out, d)
      PROVE  out'.size \in Nat \ {0} /\ Len(out'.data) <= out'.size
  BY <1>1, WriteHasRoom DEF Types, Room
<1>2. CASE PrintOut
  <2>1. PICK c \in Printable :
          \/ pending' = pending \o c /\ UNCHANGED <<out, late>>
          \/ pending' = <<>> /\ Deliver(pending \o c)
    BY <1>2 DEF PrintOut
  <2>2. out'.size \in Nat \ {0} /\ Len(out'.data) <= out'.size
    <3>1. CASE UNCHANGED out
      BY <3>1 DEF Room
    <3>2. CASE Deliver(pending \o c)
      BY <1>1, <3>2, PrintableBytes, ConcatBytes DEF Deliver, Types
    <3>3. QED
      BY <2>1, <3>1, <3>2
  <2>3. QED
    BY <1>2, <2>2, MaxPrintsAssumption DEF PrintOut, Room
<1>3. CASE PrintErr
  <2>1. PICK c \in Printable : Deliver(c)
    BY <1>3 DEF PrintErr
  <2>2. QED
    BY <1>1, <1>3, <2>1, PrintableBytes, MaxPrintsAssumption DEF PrintErr, Deliver, Room
<1>4. CASE WriteFrame
  <2>1. pending \o MakeFrame(encoded) \in Bytes
    BY <1>4, FrameBytes, ConcatBytes DEF WriteFrame, Control, Types
  <2>2. QED
    BY <1>1, <1>4, <2>1 DEF WriteFrame, Room
<1>5. CASE RunWasmReturns
  BY <1>1, <1>5 DEF RunWasmReturns, Deliver, Types, Room
<1>6. CASE Trap \/ Boot \/ Serve \/ DecodeRequest \/ MakeConnection \/ Handle \/ Finish
  BY <1>6 DEF Trap, Boot, Serve, DecodeRequest, MakeConnection, Handle, Finish, output, Room
<1>7. QED
  BY <1>2, <1>3, <1>4, <1>5, <1>6 DEF GuestStep

\* What is about to be framed, or has been, is one of the request's answers.
LEMMA AnsweringStep == Types /\ Control /\ Answering /\ GuestStep => Answering'
<1> SUFFICES ASSUME Types, Control, Answering, GuestStep PROVE Answering'
  OBVIOUS
<1>0. req \in Requests /\ req.form \in {"ok", "invalid payload", "bad method"}
  BY RequestsAssumption DEF Types
<1>1. CASE DecodeRequest
  BY <1>0, <1>1 DEF DecodeRequest, Answering, AnswersTo, Control
<1>2. CASE MakeConnection
  BY <1>0, <1>2 DEF MakeConnection, Answering, AnswersTo, Control
<1>3. CASE Handle
  BY <1>0, <1>3 DEF Handle, Answering, AnswersTo, Control
<1>4. CASE WriteFrame
  BY <1>4 DEF WriteFrame, Answering
<1>5. CASE Trap \/ PrintOut \/ PrintErr \/ Boot \/ Serve \/ Finish \/ RunWasmReturns
  BY <1>5 DEF Trap, PrintOut, PrintErr, Boot, Serve, Finish, RunWasmReturns, bridge,
              Answering, Control
<1>6. QED
  BY <1>1, <1>2, <1>3, <1>4, <1>5 DEF GuestStep

\* Only a run that ends is judged.
LEMMA AnsweredStep ==
  IInv /\ GuestStep /\ Inert' /\ Framed' => Answered'
<1> SUFFICES ASSUME IInv, GuestStep, Inert', Framed' PROVE Answered'
  OBVIOUS
<1>1. CASE ~RunWasmReturns
  <2>1. pc' # "exited" \/ outcome' = Throws
    BY <1>1 DEF GuestStep, IInv, Control, Trap, Printable, PrintOut, PrintErr, Boot, Serve,
         DecodeRequest, MakeConnection, Handle, WriteFrame, Finish
  <2>2. QED
    BY <2>1 DEF Answered
<1>2. CASE RunWasmReturns
  <2> DEFINE whole == Written(FdWrite(out, pending))
  <2>1. /\ out' = FdWrite(out, pending) /\ UNCHANGED <<encoded, framed>>
        /\ outcome' \in {ParseOutput(whole), Throws}
    BY <1>2 DEF RunWasmReturns, Deliver, bridge
  <2>2. whole = out'.data /\ whole = Written(out')
    BY <2>1 DEF Written
  <2> HIDE DEF whole
  <2>3. whole \in Bytes
    BY <2>2 DEF Inert, Types
  <2>4. IF framed' THEN NoMarker(late') => ParseOutput(whole) = Response(encoded')
                   ELSE NoMarker(whole) => ParseOutput(whole) = NoOutput
    <3>1. framed' => \E pre \in Bytes : whole = pre \o MakeFrame(encoded') \o late'
      BY <2>2 DEF Framed
    <3>2. framed' => encoded' \in Payloads
      BY DEF Inert, Control
    <3>3. late' \in Bytes
      BY DEF Inert, Types
    <3>4. QED
      BY <2>3, <3>1, <3>2, <3>3, Judged
  <2>5. QED
    BY <2>1, <2>2, <2>4 DEF Answered
<1>3. QED
  BY <1>1, <1>2

\* A step of the guest, on its own and under the worker.
LEMMA GuestStepIInv == IInv /\ GuestStep => IInv'
<1> SUFFICES ASSUME IInv, GuestStep PROVE IInv'
  OBVIOUS
<1>1. Inert /\ Framed /\ Types /\ Control /\ Room /\ Answering
  BY DEF IInv, Inert
<1>2. Inert' /\ Framed'
  BY <1>1, InertStep, FramedStep
<1>3. Answered'
  BY <1>2, AnsweredStep
<1>4. Room' /\ Answering'
  BY <1>1, RoomStep, AnsweringStep
<1>5. QED
  BY <1>2, <1>3, <1>4 DEF IInv, Inert

LEMMA StutterIInv == IInv /\ UNCHANGED gvars => IInv'
  BY DEF gvars, IInv, Types, Room, Control, WarmupIsInert, HandledOnce, Answering, Framed,
         Answered, Written

LEMMA StepIInv == IInv /\ [Next]_gvars => IInv'
  BY GuestStepIInv, StutterIInv DEF Next, Over

\* A frame at the end of the buffer, in the form the run checks it.
LEMMA FramedIsInOnePiece == Types /\ Control /\ Framed => FrameInOnePiece
<1> SUFFICES ASSUME Types, Control, Framed, framed PROVE FrameInOnePiece
  BY DEF FrameInOnePiece
<1> DEFINE f == MakeFrame(encoded)
           whole == f \o late
           data == Written(out)
<1>1. PICK pre \in Bytes : data = pre \o f \o late
  BY DEF Framed, Written
<1>2. f \in Bytes /\ late \in Bytes
  BY FrameBytes DEF Control, Types
<1> HIDE DEF f, data
<1>3. whole \in Bytes /\ data = pre \o whole
  BY <1>1, <1>2, ConcatBytes, BytesAssociate
<1> HIDE DEF whole
<1>4. /\ Len(data) = Len(pre) + Len(whole) /\ Len(pre) \in Nat /\ Len(whole) \in Nat
      /\ data \in Bytes
      /\ \A k \in 1 .. Len(whole) : data[Len(pre) + k] = whole[k]
  BY <1>1, <1>3, BytesConcat, LenProperties DEF Bytes
<1> DEFINE start == Len(data) - Len(whole)
           cut   == SubSeq(data, start + 1, Len(data))
<1>5. start = Len(pre)
  BY <1>4
<1>6. cut = whole
  <2>1. \A i \in start + 1 .. Len(data) : data[i] \in Byte
    BY <1>4, <1>5, ElementOfSeq DEF Bytes
  <2>2. start + 1 \in Int /\ Len(data) \in Int /\ Len(data) - (start + 1) + 1 = Len(whole)
    BY <1>4, <1>5
  <2>3. /\ cut \in Seq(Byte)
        /\ Len(cut) = IF start + 1 <= Len(data) THEN Len(data) - (start + 1) + 1 ELSE 0
        /\ \A i \in 1 .. Len(data) - (start + 1) + 1 : cut[i] = data[start + 1 + i - 1]
    BY <2>1, <2>2, SubSeqProperties
  <2> HIDE DEF start, cut
  <2>4. Len(cut) = Len(whole)
    BY <1>4, <1>5, <2>2, <2>3
  <2>5. \A i \in 1 .. Len(cut) : cut[i] = whole[i]
    <3> TAKE i \in 1 .. Len(cut)
    <3>1. start + 1 + i - 1 = Len(pre) + i
      BY <1>4, <1>5, <2>4
    <3>2. QED
      BY <1>4, <2>2, <2>3, <2>4, <3>1
  <2>6. QED
    BY <1>3, <2>3, <2>4, <2>5, SeqEqual DEF Bytes
<1>7. QED
  BY <1>4, <1>5, <1>6 DEF FrameInOnePiece, whole, f, data

-----------------------------------------------------------------------------
LEMMA Invariance == Spec => []IInv
<1>1. QED
  BY InitIInv, StepIInv, PTL DEF Spec

\* The worker decodes exactly the payload the bridge framed, whatever else was printed
\* (AnswerIsTheFrame; index.js:306-334, bridge.gleam:38-41).
THEOREM AnswersAreFrames == Spec => []AnswerIsTheFrame
<1>1. IInv => AnswerIsTheFrame
  BY DEF IInv, Control, Answered, AnswerIsTheFrame
<1>2. QED
  BY <1>1, Invariance, PTL

\* The frame arrives in one piece (FrameInOnePiece; platform_nifs.c:93-94).
THEOREM FramesArriveWhole == Spec => []FrameInOnePiece
<1>1. IInv => FrameInOnePiece
  BY FramedIsInOnePiece DEF IInv
<1>2. QED
  BY <1>1, Invariance, PTL

\* The warm-up draws no random values and does not reach the handler (WarmupIsInert;
\* bridge.gleam:59-63, 87-92).
THEOREM WarmupStaysInert == Spec => []WarmupIsInert
<1>1. IInv => WarmupIsInert
  BY DEF IInv
<1>2. QED
  BY <1>1, Invariance, PTL

\* The handler runs at most once, on a decoded request, with one secret (HandledOnce;
\* bridge.gleam:48-57).
THEOREM HandlerRunsOnce == Spec => []HandledOnce
<1>1. IInv => HandledOnce
  BY DEF IInv
<1>2. QED
  BY <1>1, Invariance, PTL

\* Every variable has its type; in particular what the guest has written fits the worker's
\* buffer, after any writes of any lengths (TypeOK; index.js:183-189).
THEOREM GuestTypeCorrect == Spec => []TypeOK
<1>1. IInv => TypeOK
  BY DEF IInv, Types, Room, TypeOK
<1>2. QED
  BY <1>1, Invariance, PTL

-----------------------------------------------------------------------------
(* The refinement.  An app can forge an answer: by printing a marker with  *)
(* something before it that reads as a frame, after the bridge's own frame *)
(* or in a run that dies before it.  A run in which it does neither        *)
(* implements Exchange.                                                    *)

\* When the run is over, no marker follows the frame, and without a frame there is none.
NoForgery == pc = "exited" => NoMarker(IF framed THEN late ELSE Written(out))

\* What Exchange says of the outcome of a finished run.
GuestKeepsExchange == pc = "exited" => outcome \in X!Allowed(req)

LEMMA HonestRunsKeepExchange == IInv /\ NoForgery => GuestKeepsExchange
<1> SUFFICES ASSUME IInv, NoForgery, pc = "exited" PROVE outcome \in X!Allowed(req)
  BY DEF GuestKeepsExchange
<1>1. outcome = Throws \/ (framed /\ outcome = Response(encoded)) \/ outcome = NoOutput
  BY DEF IInv, Answered, NoForgery
<1>2. framed => encoded \in X!AnswersTo(req)
  BY DEF IInv, Answering, AnswersTo, X!AnswersTo
<1>3. Throws = X!Throws /\ NoOutput = X!NoOutput /\ Response(encoded) = X!Response(encoded)
  BY DEF Throws, X!Throws, NoOutput, X!NoOutput, Response, X!Response
<1>4. QED
  BY <1>1, <1>2, <1>3 DEF X!Allowed

\* Every step of the guest is the one step of Exchange, or none for it.
LEMMA ImplementsConclude ==
  IInv /\ GuestStep /\ GuestKeepsExchange' => [X!Conclude]_<<req, outcome>>
<1> SUFFICES ASSUME IInv, GuestStep, GuestKeepsExchange', outcome' # outcome
             PROVE  X!Conclude
  BY DEF GuestStep, Trap, PrintOut, PrintErr, Boot, Serve, DecodeRequest, MakeConnection,
         Handle, WriteFrame, Finish, RunWasmReturns
<1>1. req' = req /\ pc # "exited" /\ pc' = "exited"
  BY DEF GuestStep, Trap, PrintOut, PrintErr, Printable, Boot, Serve, DecodeRequest,
         MakeConnection, Handle, WriteFrame, Finish, RunWasmReturns
<1>2. outcome = X!Pending
  BY <1>1 DEF IInv, Control, Pending, X!Pending
<1>3. outcome' \in X!Allowed(req)
  BY <1>1 DEF GuestKeepsExchange
<1>4. QED
  BY <1>1, <1>2, <1>3 DEF X!Conclude

\* A run of an app that forges no answer is a behaviour of Exchange: one outcome, and if it
\* is a response, one that the bridge may give to this very request (ImplementsExchange;
\* index.js:271-334, bridge.gleam:48-167).
THEOREM GuestImplementsExchange == Spec /\ []NoForgery => ImplementsExchange
<1>1. Init => X!Init
  BY DEF Init, X!Init, Pending, X!Pending
<1>2. IInv /\ [Next]_gvars /\ GuestKeepsExchange' => [X!Conclude]_<<req, outcome>>
  BY ImplementsConclude DEF Next, Over, gvars
<1>3. QED
  BY <1>1, <1>2, InitIInv, StepIInv, HonestRunsKeepExchange, PTL
     DEF Spec, ImplementsExchange, X!Spec

-----------------------------------------------------------------------------
(* The worker *)

\* The stages in which a fetch has passed the test of its content-length.
Admitted == {"awaiting", "arrived", "failed"}

WInv ==
  /\ inbox \in [Fetches -> Messages]
  /\ DOMAIN answer = Fetches /\ answer = [f \in Fetches |-> answer[f]]
  /\ stage \in [Fetches -> Stages]
  /\ running \in Fetches \union {"warm-up", "nobody"} /\ loaded \in BOOLEAN
  /\ RunIsForItsFetch
  /\ \A f \in Fetches : stage[f] # "answered" => answer[f] = S!NoAnswer
  /\ \A f \in Fetches : stage[f] \in Admitted =>
       inbox[f].hasBody /\ ~(inbox[f].declared > MaxBody)

LEMMA NobodyIsNoFetch == "warm-up" \notin Fetches /\ "nobody" \notin Fetches
  BY WorkerAssumption

LEMMA InitWInv == WInit => WInv
  BY NobodyIsNoFetch DEF WInit, WInv, RunIsForItsFetch, Stages, Admitted

\* The guest's steps keep its request.
LEMMA GuestKeepsRequest == GuestStep => req' = req
  BY DEF GuestStep, Trap, PrintOut, PrintErr, Boot, Serve, DecodeRequest, MakeConnection,
         Handle, WriteFrame, Finish, RunWasmReturns

\* A run that starts is for its fetch.
LEMMA StartKeeps ==
  ASSUME WInv, NEW f \in Fetches, Free, StartServing(f), stage[f] \in Stages \ {"answered", "running"},
         ~S!Oversize(inbox[f]), UNCHANGED <<inbox, loaded>>
  PROVE  WInv'
<1>1. /\ running' = f /\ stage' = [stage EXCEPT ![f] = "running"]
      /\ req' = RequestOf[f] /\ answer' = answer /\ inbox' = inbox /\ loaded' = loaded
  BY DEF StartServing, StartRun
<1>2. running \notin Fetches
  BY NobodyIsNoFetch DEF Free
<1>3. \A g \in Fetches : stage[g] # "running"
  BY <1>2 DEF WInv, RunIsForItsFetch
<1>4. stage' \in [Fetches -> Stages] /\ \A g \in Fetches : stage'[g] = "running" <=> running' = g
  BY <1>1, <1>3 DEF WInv, Stages
<1>5. answer[f] = S!NoAnswer
  BY DEF WInv
<1>6. RunIsForItsFetch'
  BY <1>1, <1>4, <1>5 DEF RunIsForItsFetch, S!Oversize, S!NoAnswer
<1>7. QED
  BY <1>1, <1>4, <1>6 DEF WInv, Admitted, Stages, S!NoAnswer

\* An answer ends a fetch that is not the one being run, or the one whose run has ended.
LEMMA RespondKeeps ==
  ASSUME WInv, NEW f \in Fetches, NEW a, Respond(f, a), req' = req, UNCHANGED <<inbox, loaded>>,
         \/ running' = running /\ running \notin Fetches
         \/ running = f /\ running' = "nobody"
  PROVE  WInv'
<1>1. /\ answer' = [answer EXCEPT ![f] = a] /\ stage' = [stage EXCEPT ![f] = "answered"]
      /\ inbox' = inbox /\ loaded' = loaded
  BY DEF Respond
<1>2. running' \notin Fetches /\ running' \in {"warm-up", "nobody"}
  BY NobodyIsNoFetch DEF WInv
<1>3. \A g \in Fetches : g # f => stage[g] # "running"
  BY DEF WInv, RunIsForItsFetch
<1>4. stage' \in [Fetches -> Stages] /\ \A g \in Fetches : stage'[g] # "running"
  BY <1>1, <1>3 DEF WInv, Stages
<1>5. RunIsForItsFetch'
  BY <1>2, <1>4 DEF RunIsForItsFetch
<1>6. QED
  BY <1>1, <1>2, <1>4, <1>5 DEF WInv, Admitted, S!NoAnswer

LEMMA StepWInv == WInv /\ [WNext]_vars => WInv'
<1> SUFFICES ASSUME WInv, [WNext]_vars PROVE WInv'
  OBVIOUS
<1>1. CASE RunStep
  <2>1. req' = req /\ UNCHANGED wvars
    BY <1>1, GuestKeepsRequest DEF RunStep
  <2>2. QED
    BY <2>1 DEF WInv, RunIsForItsFetch, wvars, S!Oversize, S!NoAnswer
<1>2. CASE RunEnds
  <2>1. PICK a : Respond(running, a)
    BY <1>2 DEF RunEnds
  <2>2. QED
    BY <1>2, <2>1, RespondKeeps DEF RunEnds, gvars
<1>3. CASE WarmUpEnds
  BY <1>3, NobodyIsNoFetch
     DEF WarmUpEnds, WInv, RunIsForItsFetch, gvars, S!NoAnswer
<1>4. ASSUME NEW f \in Fetches, Resume(f) PROVE WInv'
  <2>1. Free /\ running \notin Fetches /\ UNCHANGED <<inbox, loaded>>
    BY <1>4, NobodyIsNoFetch DEF Resume, Free
  <2>2. CASE stage[f] = "arrived" /\ ~(inbox[f].size > MaxBody) /\ StartServing(f)
    <3>1. ~S!Oversize(inbox[f]) /\ stage[f] \in Stages \ {"answered", "running"}
      BY <2>2 DEF S!Oversize, WInv, Admitted, Stages
    <3>2. QED
      BY <2>1, <2>2, <3>1, StartKeeps
  <2>3. ASSUME NEW a, Respond(f, a), UNCHANGED <<gvars, running>> PROVE WInv'
    BY <2>1, <2>3, RespondKeeps DEF gvars
  <2>4. QED
    BY <1>4, <2>2, <2>3 DEF Resume
<1>5. ASSUME NEW f \in Fetches, Fetch(f) PROVE WInv'
  <2>1. Free /\ running \notin Fetches /\ stage[f] = "unsent" /\ UNCHANGED <<inbox, loaded>>
    BY <1>5, NobodyIsNoFetch DEF Fetch, Free
  <2>2. CASE Respond(f, S!TooLarge) /\ UNCHANGED <<gvars, running>>
    BY <2>1, <2>2, RespondKeeps DEF gvars
  <2>3. CASE /\ inbox[f].hasBody /\ ~(inbox[f].declared > MaxBody)
             /\ stage' = [stage EXCEPT ![f] = "awaiting"] /\ UNCHANGED <<gvars, running, answer>>
    <3>1. \A g \in Fetches : stage[g] # "running"
      BY <2>1 DEF WInv, RunIsForItsFetch
    <3>2. QED
      BY <2>1, <2>3, <3>1 DEF WInv, RunIsForItsFetch, Stages, Admitted, S!NoAnswer
  <2>4. CASE ~inbox[f].hasBody /\ StartServing(f)
    <3>1. ~S!Oversize(inbox[f]) /\ stage[f] \in Stages \ {"answered", "running"}
      BY <2>1, <2>4 DEF S!Oversize, Stages
    <3>2. QED
      BY <2>1, <2>4, <3>1, StartKeeps
  <2>5. QED
    BY <1>5, <2>2, <2>3, <2>4 DEF Fetch
<1>6. ASSUME NEW f \in Fetches, BodySettles(f) PROVE WInv'
  <2>1. /\ stage[f] = "awaiting" /\ UNCHANGED <<gvars, inbox, answer, running, loaded>>
        /\ \E s \in {"arrived", "failed"} : stage' = [stage EXCEPT ![f] = s]
    BY <1>6 DEF BodySettles
  <2>2. /\ stage' \in [Fetches -> Stages]
        /\ \A g \in Fetches : g # f => stage'[g] = stage[g]
        /\ stage'[f] \in {"arrived", "failed"}
    BY <2>1 DEF WInv, Stages
  <2>3. QED
    BY <2>1, <2>2 DEF WInv, RunIsForItsFetch, Admitted, gvars, S!NoAnswer, S!Oversize
<1>7. CASE UNCHANGED vars
  BY <1>7 DEF WInv, RunIsForItsFetch, vars, gvars, wvars, S!NoAnswer, S!Oversize
<1>8. QED
  BY <1>1, <1>2, <1>3, <1>4, <1>5, <1>6, <1>7 DEF WNext, Thread

\* The guest is run for one fetch at a time, unanswered, on its own request and within the
\* limit, for every set of fetches and messages (index.js:483-497, 510-518).
THEOREM RunsAreForTheirFetches == WSpec => []RunIsForItsFetch
<1>1. WInv => RunIsForItsFetch
  BY DEF WInv
<1>2. QED
  BY <1>1, InitWInv, StepWInv, PTL DEF WSpec

-----------------------------------------------------------------------------
(* The refinement.  That a run keeps Exchange (GuestKeepsExchange) is a    *)
(* fact about the guest; here it is all that is known of an outcome.       *)

\* What fetch makes of an outcome.
Rendered(o) ==
  CASE o = Throws -> S!ServerError
    [] o.kind \in {"no output", "malformed output"} -> S!BadGateway
    [] o.kind = "response" -> Reply(o.payload)

\* Passing no body where the status forbids one makes a Response of all that are not rejected.
LEMMA ReplyIsTheServices ==
  ASSUME NEW p
  PROVE  Reply(p) = S!Reply(p)
BY DEF Reply, NewResponse, S!Reply, S!ServerError

LEMMA RenderedIsPermitted ==
  ASSUME NEW f \in Fetches, NEW o \in X!Allowed(RequestOf[f]), ~S!Oversize(inbox[f])
  PROVE  Rendered(o) \in S!Permitted(f)
<1>1. S!Permitted(f) = {S!BadGateway, S!ServerError}
                         \union {S!Reply(p) : p \in S!AnswersTo(RequestOf[f])}
  BY DEF S!Permitted
<1>2. S!AnswersTo(RequestOf[f]) = X!AnswersTo(RequestOf[f])
  BY DEF S!AnswersTo, X!AnswersTo
<1>3. CASE o \in {X!Throws, X!NoOutput, X!Malformed}
  <2>1. CASE o = X!Throws
    <3>1. o = Throws /\ o.kind = "throws"
      BY <2>1 DEF X!Throws, Throws
    <3>2. Rendered(o) = S!ServerError
      BY <3>1 DEF Rendered
    <3>3. QED
      BY <1>1, <3>2
  <2>2. CASE o \in {X!NoOutput, X!Malformed}
    <3>0. /\ X!NoOutput.kind = "no output" /\ X!Malformed.kind = "malformed output"
          /\ Throws.kind = "throws"
      BY DEF X!NoOutput, X!Malformed, Throws
    <3>1. o.kind \in {"no output", "malformed output"} /\ Throws.kind = "throws"
      BY <2>2, <3>0
    <3>2. o # Throws /\ o.kind # "response"
      BY <3>1
    <3>3. Rendered(o) = S!BadGateway
      BY <3>1, <3>2 DEF Rendered
    <3>4. QED
      BY <1>1, <3>3
  <2>3. QED
    BY <1>3, <2>1, <2>2
<1>4. ASSUME NEW p \in X!AnswersTo(RequestOf[f]), o = X!Response(p)
      PROVE  Rendered(o) \in S!Permitted(f)
  <2>1. o.kind = "response" /\ o.payload = p /\ o # Throws
    BY <1>4 DEF X!Response, Throws
  <2>2. Rendered(o) = S!Reply(p)
    <3>1. o.kind \notin {"no output", "malformed output"}
      BY <2>1
    <3>2. Rendered(o) = Reply(p)
      BY <2>1, <3>1 DEF Rendered
    <3>3. QED
      BY <3>2, ReplyIsTheServices
  <2>3. QED
    BY <1>1, <1>2, <2>2
<1>5. QED
  BY <1>3, <1>4 DEF X!Allowed

\* Each answer is one that Service allows, and the first for its fetch.
LEMMA ImplementsAnswer ==
  ASSUME WInv, GuestKeepsExchange, [WNext]_vars
  PROVE  [\E f \in Fetches : S!Answer(f)]_<<inbox, answer>>
<1>1. ASSUME NEW f \in Fetches, NEW a \in S!Permitted(f), Respond(f, a),
             stage[f] # "answered", inbox' = inbox
      PROVE  S!Answer(f)
  BY <1>1 DEF S!Answer, Respond, WInv
<1>2. ASSUME NEW f \in Fetches, S!Oversize(inbox[f])
      PROVE  S!TooLarge \in S!Permitted(f)
  BY <1>2 DEF S!Permitted
<1>3. ASSUME NEW f \in Fetches
      PROVE  S!ServerError \in S!Permitted(f)
  BY DEF S!Permitted
<1>4. CASE RunEnds
  <2>1. /\ running \in Fetches /\ outcome \in X!Allowed(RequestOf[running])
        /\ ~S!Oversize(inbox[running]) /\ inbox' = inbox
        /\ Respond(running, Rendered(outcome))
    BY <1>4 DEF RunEnds, Rendered, WInv, RunIsForItsFetch, GuestKeepsExchange
  <2>2. stage[running] # "answered"
    BY <2>1 DEF WInv, RunIsForItsFetch
  <2>3. S!Answer(running)
    BY <1>1, <2>1, <2>2, RenderedIsPermitted
  <2>4. QED
    BY <2>1, <2>3
<1>5. ASSUME NEW f \in Fetches, Resume(f)
      PROVE  S!Answer(f) \/ UNCHANGED <<inbox, answer>>
  <2>1. inbox' = inbox
    BY <1>5 DEF Resume
  <2>2. CASE stage[f] = "failed" /\ Respond(f, S!ServerError)
    BY <1>1, <1>3, <2>1, <2>2
  <2>3. CASE stage[f] = "arrived" /\ inbox[f].size > MaxBody /\ Respond(f, S!TooLarge)
    <3>1. S!Oversize(inbox[f])
      BY <2>3 DEF WInv, Admitted, S!Oversize
    <3>2. QED
      BY <1>1, <1>2, <2>1, <2>3, <3>1
  <2>4. CASE StartServing(f)
    BY <2>1, <2>4 DEF StartServing
  <2>5. QED
    BY <1>5, <2>2, <2>3, <2>4 DEF Resume
<1>6. ASSUME NEW f \in Fetches, Fetch(f)
      PROVE  S!Answer(f) \/ UNCHANGED <<inbox, answer>>
  <2>1. inbox' = inbox /\ stage[f] = "unsent"
    BY <1>6 DEF Fetch
  <2>2. CASE inbox[f].hasBody /\ inbox[f].declared > MaxBody /\ Respond(f, S!TooLarge)
    <3>1. S!Oversize(inbox[f])
      BY <2>2 DEF S!Oversize
    <3>2. QED
      BY <1>1, <1>2, <2>1, <2>2, <3>1
  <2>3. CASE answer' = answer \/ StartServing(f)
    BY <2>1, <2>3 DEF StartServing
  <2>4. QED
    BY <1>6, <2>2, <2>3 DEF Fetch
<1>7. CASE RunStep \/ WarmUpEnds \/ UNCHANGED vars
  BY <1>7 DEF RunStep, WarmUpEnds, wvars, vars
<1>8. ASSUME NEW f \in Fetches, BodySettles(f)
      PROVE  UNCHANGED <<inbox, answer>>
  BY <1>8 DEF BodySettles
<1>9. QED
  BY <1>4, <1>5, <1>6, <1>7, <1>8 DEF WNext, Thread

\* The worker implements Service on top of a guest that implements Exchange: one answer to
\* each fetch, of its own request, and no body over the limit served, for every set of
\* fetches, message, limit and interleaving (index.js:469-541).
THEOREM WorkerImplementsService == WSpec /\ []GuestKeepsExchange => KeepsServicePromise
<1>1. WInit => S!Init
  BY DEF WInit, S!Init
<1>2. WInv /\ GuestKeepsExchange /\ [WNext]_vars
        => [\E f \in Fetches : S!Answer(f)]_<<inbox, answer>>
  BY ImplementsAnswer
<1>3. QED
  BY <1>1, <1>2, InitWInv, StepWInv, PTL DEF WSpec, KeepsServicePromise, S!Spec

\* Only the end of its run answers a fetch that is running.
LEMMA OnlyTheRunAnswers ==
  ASSUME WInv, [WNext]_vars, NEW f \in Fetches, answer'[f] # answer[f], stage[f] = "running"
  PROVE  answer'[f] = Rendered(outcome)
<1>1. ASSUME NEW g \in Fetches, NEW a, Respond(g, a)
      PROVE  f = g /\ answer'[f] = a
  <2>1. answer' = [answer EXCEPT ![g] = a] /\ DOMAIN answer = Fetches
    BY <1>1 DEF Respond, WInv
  <2>2. f = g
    BY <2>1
  <2>3. QED
    BY <2>1, <2>2
<1>2. CASE RunEnds
  <2>1. running \in Fetches /\ Respond(running, Rendered(outcome))
    BY <1>2 DEF RunEnds, Rendered
  <2>2. QED
    BY <1>1, <2>1
<1>3. ASSUME NEW g \in Fetches, Resume(g) PROVE FALSE
  <2>1. stage[g] # "running"
    BY <1>3 DEF Resume
  <2>2. CASE StartServing(g)
    BY <2>2 DEF StartServing
  <2>3. ASSUME NEW a, Respond(g, a) PROVE FALSE
    BY <1>1, <2>1, <2>3
  <2>4. QED
    BY <1>3, <2>2, <2>3 DEF Resume
<1>4. ASSUME NEW g \in Fetches, Fetch(g) PROVE FALSE
  <2>1. stage[g] # "running"
    BY <1>4 DEF Fetch
  <2>2. CASE answer' = answer \/ StartServing(g)
    BY <2>2 DEF StartServing
  <2>3. ASSUME NEW a, Respond(g, a) PROVE FALSE
    BY <1>1, <2>1, <2>3
  <2>4. QED
    BY <1>4, <2>2, <2>3 DEF Fetch
<1>5. CASE RunStep \/ WarmUpEnds \/ UNCHANGED vars
  BY <1>5 DEF RunStep, WarmUpEnds, wvars, vars
<1>6. ASSUME NEW g \in Fetches, BodySettles(g) PROVE FALSE
  BY <1>6 DEF BodySettles
<1>7. QED
  BY <1>2, <1>3, <1>4, <1>5, <1>6 DEF WNext, Thread

\* What a run brings its fetch is what the client gets, without a body exactly where the status
\* forbids one, for every set of fetches, payloads and interleaving (index.js:510-531).
THEOREM ResponsesAreDelivered == WSpec => ResponseIsDelivered
<1>1. ASSUME WInv, [WNext]_vars
      PROVE  [\A f \in Fetches :
                answer'[f] # answer[f] /\ stage[f] = "running" /\ outcome # Throws /\ outcome.kind = "response"
                  => answer'[f] = S!Reply(outcome.payload)]_vars
  <2> SUFFICES ASSUME NEW f \in Fetches, answer'[f] # answer[f], stage[f] = "running",
                      outcome # Throws, outcome.kind = "response"
               PROVE  answer'[f] = S!Reply(outcome.payload)
    OBVIOUS
  <2>1. answer'[f] = Rendered(outcome)
    BY <1>1, OnlyTheRunAnswers
  <2>2. outcome.kind \notin {"no output", "malformed output"}
    OBVIOUS
  <2>3. Rendered(outcome) = Reply(outcome.payload)
    BY <2>2 DEF Rendered
  <2>4. QED
    BY <2>1, <2>3, ReplyIsTheServices
<1>2. QED
  BY <1>1, InitWInv, StepWInv, PTL DEF WSpec, ResponseIsDelivered

-----------------------------------------------------------------------------
(* The guest under the worker. *)

\* Steps of the worker's own start a run afresh or leave the guest alone.
LEMMA WorkerKeepsGuest == WInv /\ IInv /\ [WNext]_vars => IInv'
<1> SUFFICES ASSUME WInv, IInv, [WNext]_vars PROVE IInv'
  OBVIOUS
<1>1. (req \in Requests /\ Fresh)' => IInv'
  BY FreshIInv, PTL
<1>2. ASSUME NEW f \in Fetches, StartServing(f) PROVE IInv'
  <2>1. RequestOf[f] \in Requests
    BY WorkerAssumption
  <2>2. (req \in Requests /\ Fresh)'
    BY <1>2, <2>1 DEF StartServing, StartRun, Fresh
  <2>3. QED
    BY <1>1, <2>2
<1>3. CASE UNCHANGED gvars
  BY <1>3, StutterIInv
<1>4. CASE RunStep
  BY <1>4, GuestStepIInv DEF RunStep
<1>5. ASSUME NEW f \in Fetches, Resume(f) \/ Fetch(f) PROVE IInv'
  BY <1>2, <1>3, <1>5 DEF Resume, Fetch
<1>6. CASE RunEnds \/ WarmUpEnds \/ (\E f \in Fetches : BodySettles(f)) \/ UNCHANGED vars
  BY <1>3, <1>6 DEF RunEnds, WarmUpEnds, BodySettles, vars
<1>7. QED
  BY <1>4, <1>5, <1>6 DEF WNext, Thread

LEMMA WorkerInvariance == WSpec => [](WInv /\ IInv)
<1>1. WInit => IInv
  BY InitIInv DEF WInit
<1>2. QED
  BY <1>1, InitWInv, StepWInv, WorkerKeepsGuest, PTL DEF WSpec

\* Every variable of the worker and of the guest it runs has its type (WTypeOK).
THEOREM WorkerTypeCorrect == WSpec => []WTypeOK
<1>1. WInv /\ IInv => WTypeOK
  BY DEF WInv, IInv, Types, Room, TypeOK, WTypeOK
<1>2. QED
  BY <1>1, WorkerInvariance, PTL

\* Whatever the app prints before its frame, however runs fail and fetches interleave: a
\* worker whose app forges no answer gives each fetch at most one answer, its own, and
\* serves no body over the limit (KeepsServicePromise; index.js:271-334, 469-541).
THEOREM WorkerKeepsItsPromise == WSpec /\ []NoForgery => KeepsServicePromise
<1>1. IInv /\ NoForgery => GuestKeepsExchange
  BY HonestRunsKeepExchange
<1>2. QED
  BY <1>1, WorkerInvariance, WorkerImplementsService, PTL
=============================================================================
