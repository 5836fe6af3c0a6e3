---------------------------- MODULE ImageProofs -----------------------------
(***************************************************************************)
(* Proofs about each side of an image.                                     *)
(*                                                                         *)
(* ImageRequest, for any counts, rounds and progress outputs: whichever    *)
(* exit a request takes, it is settled and charges what its client got.    *)
(*                                                                         *)
(* ImageQueue, for any number of conversations, turns, images, workers,    *)
(* loops and mounts: the types of its variables, who waits for which write *)
(* (TypeInv), who runs a conversation, as the runtime has it (RunsInv),    *)
(* what each step does to the parts of the state that the invariants of    *)
(* ImageQueueProofs are about, and where the history of conversations is:  *)
(*                                                                         *)
(*   MountsInv  the mount on screen shows the conversations in memory      *)
(*   HistoryInv the history is read while nothing runs                     *)
(*   KnownInv   a conversation that was not begun is nowhere               *)
(***************************************************************************)
EXTENDS MCImages, FiniteSetTheorems, TLAPS

-----------------------------------------------------------------------------
(* The request at the site: the strengthening.                             *)

\* Where the coroutine waits says what the worker may be inside of; once the request is given up the
\* worker is alone, and the other way round says nothing.
Places ==
    /\ phase \in {"idle", "uploading", "starting"} => inside = "none"
    /\ phase = "handling" => inside = "handler"
    /\ phase = "first" => inside = "first"
    /\ phase = "streaming" => inside \in {"none", "pull"}
    /\ phase \in {"first", "starting", "streaming"} \/ inside \in {"first", "pull"} => streaming
    /\ phase = "idle" => ~streaming

\* Before the response, and under a worker that goes on alone before it, nothing was sent or counted.
Early == {"idle", "uploading", "handling", "first", "starting"}
NotBegun ==
    /\ phase \in Early \/ inside \in {"handler", "first"} =>
         received = 0 /\ sse = "fresh" /\ chunk = "none" /\ pending = NoOutput /\ ~closed
    /\ phase \in {"idle", "uploading"} \/ inside \in {"handler", "first"} => first = NoOutput /\ gallery = 0

\* The wrapper's count is what was sent, and one item at most is neither sent nor still to be produced.
Counted ==
    /\ received = actual
    /\ first \in Outputs \cup {NoOutput} /\ pending \in Outputs \cup {NoOutput}
    /\ first # NoOutput => pending = NoOutput
    /\ inside = "pull" => chunk = "none" /\ pending = NoOutput
    /\ phase = "streaming" /\ pending # NoOutput => chunk = "data"
    /\ closed /\ (phase = "streaming" \/ inside = "pull") => sse \in {"failed", "done"} /\ pending = NoOutput

ImagesOf(item) == IF item = NoOutput THEN 0 ELSE item

\* The reservation stays open until somebody settles it, and what it is charged stays true.
CoinsSettled ==
    /\ phase = "idle" => reservation = "none"
    /\ phase \notin {"idle", "over"} => reservation \in {"open", "recovered"} \/ closed
    /\ closed => reservation # "open"
    /\ SettledUnlessCutOff
Charged ==
    /\ StreamChargesReceived
    /\ streaming => gallery = received + ImagesOf(first) + ImagesOf(pending)
    /\ ~streaming => gallery \in {0, collected}
    /\ ~streaming /\ reservation = "success" =>
         phase = "over" /\ inside = "none" /\ charged = Minimum(gallery, requested)

RequestInv == RequestTypeOK /\ Places /\ NotBegun /\ Counted /\ CoinsSettled /\ Charged

-----------------------------------------------------------------------------
(* The request at the site: each step keeps it.                            *)

\* What the generator's loop remembers after an output.
LEMMA YieldsTyped ==
  ASSUME RequestTypeOK, NEW k \in Outputs, Yields(k)
  PROVE  /\ round' \in Nat \ {0} /\ gotResult' \in BOOLEAN /\ progress' \in 0 .. MaxProgress
         /\ k \in Nat
PROOF
  <1>1. round' \in Nat \ {0}
    BY DEF Yields, NextRound, RequestTypeOK
  <1>2. gotResult' \in BOOLEAN
    BY DEF Yields
  <1>3. progress' \in 0 .. MaxProgress
    <2>1. progress \in Nat /\ progress <= MaxProgress /\ MaxProgress \in Nat
      BY RequestAssumption DEF RequestTypeOK
    <2>2. progress' = progress \/ (progress < MaxProgress /\ progress' = progress + 1)
      BY DEF Yields
    <2> QED
      BY <2>1, <2>2
  <1> QED
    BY <1>1, <1>2, <1>3, RequestAssumption DEF Outputs

\* The coins are reserved.
LEMMA BeginKeeps ==
  ASSUME RequestInv, Begin
  PROVE  RequestInv'
PROOF
  <1> USE RequestAssumption DEF RequestInv, coroutine, inputs, generator, wrapper, wire, quota, Minimum,
     Outputs, NoOutput
  <1>1. RequestTypeOK'
    BY DEF Begin, Reserve, RequestTypeOK
  <1>2. Places'
    BY DEF Begin, Reserve, Places
  <1>3. NotBegun'
    BY DEF Begin, Reserve, NotBegun, Early
  <1>4. Counted'
    BY DEF Begin, Reserve, Counted
  <1>5. CoinsSettled'
    BY DEF Begin, Reserve, CoinsSettled, SettledUnlessCutOff, Places, NotBegun, Early
  <1>6. Charged'
    BY DEF Begin, Reserve, Charged, StreamChargesReceived, ImagesOf, Places, NotBegun, Early
  <1> QED
    BY <1>1, <1>2, <1>3, <1>4, <1>5, <1>6

\* The references were read.
LEMMA UploadedKeeps ==
  ASSUME RequestInv, Uploaded
  PROVE  RequestInv'
PROOF
  <1> USE RequestAssumption DEF RequestInv, coroutine, inputs, generator, wrapper, wire, quota, Minimum,
     Outputs, NoOutput
  <1>1. RequestTypeOK'
    BY DEF Uploaded, RequestTypeOK
  <1>2. Places'
    BY DEF Uploaded, Places
  <1>3. NotBegun'
    BY DEF Uploaded, NotBegun, Early
  <1>4. Counted'
    BY DEF Uploaded, Counted
  <1>5. CoinsSettled'
    BY DEF Uploaded, CoinsSettled, SettledUnlessCutOff
  <1>6. Charged'
    BY DEF Uploaded, Charged, StreamChargesReceived, ImagesOf
  <1> QED
    BY <1>1, <1>2, <1>3, <1>4, <1>5, <1>6

\* The handler returns an iterator.
LEMMA HandlerReturnsStreamKeeps ==
  ASSUME RequestInv, HandlerReturnsStream
  PROVE  RequestInv'
PROOF
  <1> USE RequestAssumption DEF RequestInv, coroutine, inputs, generator, wrapper, wire, quota, Minimum,
     Outputs, NoOutput
  <1>1. RequestTypeOK'
    BY DEF HandlerReturnsStream, RequestTypeOK
  <1>2. Places'
    BY DEF HandlerReturnsStream, Places
  <1>3. NotBegun'
    BY DEF HandlerReturnsStream, NotBegun, Early
  <1>4. Counted'
    BY DEF HandlerReturnsStream, Counted
  <1>5. CoinsSettled'
    BY DEF HandlerReturnsStream, CoinsSettled, SettledUnlessCutOff, Places
  <1>6. Charged'
    BY DEF HandlerReturnsStream, Charged, StreamChargesReceived, ImagesOf
  <1> QED
    BY <1>1, <1>2, <1>3, <1>4, <1>5, <1>6

\* The handler of an answer in one piece collects an output.
LEMMA CollectOutputKeeps ==
  ASSUME RequestInv, CollectOutput
  PROVE  RequestInv'
PROOF
  <1> USE RequestAssumption DEF RequestInv, coroutine, inputs, generator, wrapper, wire, quota, Minimum,
     Outputs, NoOutput
  <1>1. RequestTypeOK'
    <2>1. PICK k \in Outputs : Yields(k) /\ collected' = collected + k
      BY DEF CollectOutput
    <2>2. /\ round' \in Nat \ {0} /\ gotResult' \in BOOLEAN /\ progress' \in 0 .. MaxProgress
          /\ k \in Nat
      BY <2>1, YieldsTyped
    <2> QED
      BY <2>1, <2>2 DEF CollectOutput, RequestTypeOK
  <1>2. Places'
    BY DEF CollectOutput, Places
  <1>3. NotBegun'
    BY DEF CollectOutput, NotBegun, Early
  <1>4. Counted'
    BY DEF CollectOutput, Counted
  <1>5. CoinsSettled'
    BY DEF CollectOutput, CoinsSettled, SettledUnlessCutOff
  <1>6. Charged'
    BY DEF CollectOutput, Charged, StreamChargesReceived, ImagesOf, Places, NotBegun, Early
  <1> QED
    BY <1>1, <1>2, <1>3, <1>4, <1>5, <1>6

\* The handler raises: the reservation fails with the request.
LEMMA HandlerRaisesKeeps ==
  ASSUME RequestInv, HandlerRaises
  PROVE  RequestInv'
PROOF
  <1> USE RequestAssumption DEF RequestInv, coroutine, inputs, generator, wrapper, wire, quota, Minimum,
     Outputs, NoOutput
  <1>1. RequestTypeOK'
    BY DEF HandlerRaises, Remaining, Conclude, Settle, Charge, RequestTypeOK
  <1>2. Places'
    BY DEF HandlerRaises, Remaining, Conclude, Settle, Charge, Places
  <1>3. NotBegun'
    BY DEF HandlerRaises, Remaining, Conclude, Settle, Charge, NotBegun, Early
  <1>4. Counted'
    BY DEF HandlerRaises, Remaining, Conclude, Settle, Charge, Counted
  <1>5. CoinsSettled'
    BY DEF HandlerRaises, Remaining, Conclude, Settle, Charge, CoinsSettled, SettledUnlessCutOff
  <1>6. Charged'
    BY DEF HandlerRaises, Remaining, Conclude, Settle, Charge, Charged, StreamChargesReceived, ImagesOf,
       RequestTypeOK, Places, NotBegun, Early
  <1> QED
    BY <1>1, <1>2, <1>3, <1>4, <1>5, <1>6

\* The handler returns one answer: it is charged what was saved.
LEMMA HandlerReturnsDictKeeps ==
  ASSUME RequestInv, HandlerReturnsDict
  PROVE  RequestInv'
PROOF
  <1> USE RequestAssumption DEF RequestInv, coroutine, inputs, generator, wrapper, wire, quota, Minimum,
     Outputs, NoOutput
  <1>1. RequestTypeOK'
    BY DEF HandlerReturnsDict, Ends, Conclude, Settle, Charge, RequestTypeOK
  <1>2. Places'
    BY DEF HandlerReturnsDict, Ends, Conclude, Settle, Charge, Places
  <1>3. NotBegun'
    BY DEF HandlerReturnsDict, Ends, Conclude, Settle, Charge, NotBegun, Early
  <1>4. Counted'
    BY DEF HandlerReturnsDict, Ends, Conclude, Settle, Charge, Counted
  <1>5. CoinsSettled'
    BY DEF HandlerReturnsDict, Ends, Conclude, Settle, Charge, CoinsSettled, SettledUnlessCutOff
  <1>6. Charged'
    BY DEF HandlerReturnsDict, Ends, Conclude, Settle, Charge, Charged, StreamChargesReceived, ImagesOf,
       RequestTypeOK, Places, NotBegun, Early
  <1> QED
    BY <1>1, <1>2, <1>3, <1>4, <1>5, <1>6

\* The first item of a stream is produced before the response.
LEMMA FirstItemKeeps ==
  ASSUME RequestInv, FirstItem
  PROVE  RequestInv'
PROOF
  <1> USE RequestAssumption DEF RequestInv, coroutine, inputs, generator, wrapper, wire, quota, Minimum,
     Outputs, NoOutput
  <1>1. RequestTypeOK'
    <2>1. ASSUME NEW k \in Outputs, Yields(k)
          PROVE  /\ round' \in Nat \ {0} /\ gotResult' \in BOOLEAN /\ progress' \in 0 .. MaxProgress
                 /\ k \in Nat
      BY <2>1, YieldsTyped
    <2>2. round' \in Nat \ {0} /\ gotResult' \in BOOLEAN /\ progress' \in 0 .. MaxProgress
      BY <2>1 DEF FirstItem, Ends, Raises, RequestTypeOK
    <2>3. first' \in Nat \cup {NoOutput} /\ gallery' \in Nat
      <3>1. \/ \E k \in Outputs : Yields(k) /\ gallery' = gallery + k /\ first' = k
            \/ UNCHANGED <<first, gallery>>
        BY DEF FirstItem
      <3> QED
        BY <2>1, <3>1 DEF RequestTypeOK
    <2> QED
      BY <2>2, <2>3 DEF FirstItem, Conclude, Settle, Charge, RequestTypeOK
  <1>2. Places'
    BY DEF FirstItem, Yields, NextRound, Ends, Raises, Conclude, Settle, Charge, Places
  <1>3. NotBegun'
    BY DEF FirstItem, NotBegun, Early
  <1>4. Counted'
    BY DEF FirstItem, Counted, Places, NotBegun, Early
  <1>5. CoinsSettled'
    BY DEF FirstItem, Yields, NextRound, Ends, Raises, Conclude, Settle, Charge, CoinsSettled,
       SettledUnlessCutOff, Places
  <1>6. Charged'
    BY DEF FirstItem, Yields, NextRound, Ends, Raises, Conclude, Settle, Charge, Charged,
       StreamChargesReceived, ImagesOf, RequestTypeOK, Places, NotBegun, Early
  <1> QED
    BY <1>1, <1>2, <1>3, <1>4, <1>5, <1>6

\* The response begins with what was produced for it.
LEMMA StartResponseKeeps ==
  ASSUME RequestInv, StartResponse
  PROVE  RequestInv'
PROOF
  <1> USE RequestAssumption DEF RequestInv, coroutine, inputs, generator, wrapper, wire, quota, Minimum,
     Outputs, NoOutput
  <1>1. RequestTypeOK'
    BY DEF StartResponse, RequestTypeOK
  <1>2. Places'
    BY DEF StartResponse, Places
  <1>3. NotBegun'
    BY DEF StartResponse, NotBegun, Early
  <1>4. Counted'
    BY DEF StartResponse, Counted, Places, NotBegun, Early
  <1>5. CoinsSettled'
    BY DEF StartResponse, CoinsSettled, SettledUnlessCutOff
  <1>6. Charged'
    BY DEF StartResponse, Charged, StreamChargesReceived, ImagesOf
  <1> QED
    BY <1>1, <1>2, <1>3, <1>4, <1>5, <1>6

\* The wrapper asks for an item.
LEMMA BeginPullKeeps ==
  ASSUME RequestInv, BeginPull
  PROVE  RequestInv'
PROOF
  <1> USE RequestAssumption DEF RequestInv, coroutine, inputs, generator, wrapper, wire, quota, Minimum,
     Outputs, NoOutput
  <1>1. RequestTypeOK'
    BY DEF BeginPull, RequestTypeOK
  <1>2. Places'
    BY DEF BeginPull, Places
  <1>3. NotBegun'
    BY DEF BeginPull, NotBegun, Early
  <1>4. Counted'
    BY DEF BeginPull, Counted
  <1>5. CoinsSettled'
    BY DEF BeginPull, CoinsSettled, SettledUnlessCutOff
  <1>6. Charged'
    BY DEF BeginPull, Charged, StreamChargesReceived, ImagesOf
  <1> QED
    BY <1>1, <1>2, <1>3, <1>4, <1>5, <1>6

\* The wrapper gets an item, the end of the stream, or an error.
LEMMA EndPullKeeps ==
  ASSUME RequestInv, EndPull
  PROVE  RequestInv'
PROOF
  <1> USE RequestAssumption DEF RequestInv, coroutine, inputs, generator, wrapper, wire, quota, Minimum,
     Outputs, NoOutput
  <1>1. RequestTypeOK'
    <2>1. ASSUME NEW k \in Outputs, Yields(k)
          PROVE  /\ round' \in Nat \ {0} /\ gotResult' \in BOOLEAN /\ progress' \in 0 .. MaxProgress
                 /\ k \in Nat
      BY <2>1, YieldsTyped
    <2>2. round' \in Nat \ {0} /\ gotResult' \in BOOLEAN /\ progress' \in 0 .. MaxProgress
      BY <2>1 DEF EndPull, NextItem, Ends, Raises, RequestTypeOK
    <2>3. /\ first' \in Nat \cup {NoOutput} /\ gallery' \in Nat
          /\ pending' \in Nat \cup {NoOutput} /\ actual' \in Nat
      <3>1. pending = NoOutput /\ Delivered = actual
        BY DEF EndPull, Counted, Delivered
      <3>2. \/ \E k \in Outputs : Yields(k) /\ gallery' = gallery + k /\ first' = first
                                  /\ pending' = k /\ actual' = actual
            \/ gallery' = gallery /\ pending' = first /\ first' = NoOutput /\ actual' = actual
            \/ gallery' = gallery /\ first' = first /\ pending' = pending /\ actual' = actual
        BY <3>1 DEF EndPull, NextItem, NextPending
      <3> QED
        BY <2>1, <3>2 DEF RequestTypeOK
    <2>4. reservation' \in {"none", "open", "success", "failed", "recovered"} /\ charged' \in Nat
      <3>1. Delivered \in Nat
        BY DEF EndPull, Counted, Delivered, RequestTypeOK
      <3>2. UNCHANGED quota \/ Settle(TRUE, Delivered) \/ Settle(Delivered > 0, Delivered)
        BY DEF EndPull, NextItem
      <3> QED
        BY <3>1, <3>2 DEF Settle, Charge, RequestTypeOK
    <2>5. closed' \in BOOLEAN /\ sse' \in {"fresh", "open", "failed", "done"}
          /\ chunk' \in {"none", "comment", "data", "end"} /\ inside' = "none"
      BY DEF EndPull, NextItem, RequestTypeOK
    <2> QED
      BY <2>2, <2>3, <2>4, <2>5 DEF EndPull, RequestTypeOK
  <1>2. Places'
    BY DEF EndPull, Places
  <1>3. NotBegun'
    BY DEF EndPull, NotBegun, Early, Places
  <1>4. Counted'
    BY DEF EndPull, NextItem, NextPending, Delivered, Yields, NextRound, Ends, Raises, Settle, Charge, Counted
  <1>5. CoinsSettled'
    BY DEF EndPull, NextItem, NextPending, Delivered, Yields, NextRound, Ends, Raises, Settle, Charge,
       CoinsSettled, SettledUnlessCutOff
  <1>6. Charged'
    BY DEF EndPull, NextItem, NextPending, Delivered, Yields, NextRound, Ends, Raises, Settle, Charge,
       Charged, StreamChargesReceived, ImagesOf, RequestTypeOK, Places, Counted
  <1> QED
    BY <1>1, <1>2, <1>3, <1>4, <1>5, <1>6

\* A chunk is sent, and an image in it counted.
LEMMA SendKeeps ==
  ASSUME RequestInv, Send
  PROVE  RequestInv'
PROOF
  <1> USE RequestAssumption DEF RequestInv, coroutine, inputs, generator, wrapper, wire, quota, Minimum,
     Outputs, NoOutput
  <1>1. RequestTypeOK'
    BY DEF Send, Delivered, RequestTypeOK
  <1>2. Places'
    BY DEF Send, Places
  <1>3. NotBegun'
    BY DEF Send, NotBegun, Early
  <1>4. Counted'
    BY DEF Send, Delivered, Counted, RequestTypeOK
  <1>5. CoinsSettled'
    BY DEF Send, CoinsSettled, SettledUnlessCutOff
  <1>6. Charged'
    <2>1. pending # NoOutput => chunk = "data" /\ ~closed
      BY DEF Send, Counted
    <2>2. \/ received' = received + ImagesOf(pending) /\ pending' = NoOutput
          \/ received' = received /\ pending' = pending /\ pending = NoOutput
      <3>1. received \in Nat /\ (pending # NoOutput => pending \in Nat /\ ImagesOf(pending) = pending)
        BY DEF ImagesOf, RequestTypeOK
      <3>2. ImagesOf(NoOutput) = 0
        BY DEF ImagesOf
      <3>3. CASE pending # NoOutput
        BY <2>1, <3>1, <3>3 DEF Send
      <3>4. CASE pending = NoOutput
        BY <3>1, <3>4 DEF Send
      <3> QED
        BY <3>3, <3>4
    <2>3. ASSUME streaming, reservation \in {"success", "failed"}
          PROVE  charged' = Minimum(received', requested')
      <3>1. closed /\ pending = NoOutput
        BY <2>1, <2>3 DEF Send, CoinsSettled
      <3>2. received' = received
        BY <2>2, <3>1 DEF ImagesOf, RequestTypeOK
      <3> QED
        BY <2>3, <3>2 DEF Send, Charged, StreamChargesReceived
    <2>4. streaming' /\ gallery' = received' + ImagesOf(first') + ImagesOf(pending')
      <3>1. streaming /\ first' = first /\ gallery' = gallery /\ streaming' = streaming
        BY DEF Send, Places
      <3>2. ImagesOf(first) \in Int /\ ImagesOf(pending) \in Int /\ received \in Int
        BY DEF ImagesOf, RequestTypeOK
      <3>3. gallery = received + ImagesOf(first) + ImagesOf(pending)
        BY <3>1 DEF Charged
      <3>4. ImagesOf(NoOutput) = 0
        BY DEF ImagesOf
      <3> HIDE DEF ImagesOf, NoOutput
      <3> QED
        BY <2>2, <3>1, <3>2, <3>3, <3>4
    <2> QED
      BY <2>3, <2>4 DEF Send, Charged, StreamChargesReceived
  <1> QED
    BY <1>1, <1>2, <1>3, <1>4, <1>5, <1>6

\* The response ends.
LEMMA FinishResponseKeeps ==
  ASSUME RequestInv, FinishResponse
  PROVE  RequestInv'
PROOF
  <1> USE RequestAssumption DEF RequestInv, coroutine, inputs, generator, wrapper, wire, quota, Minimum,
     Outputs, NoOutput
  <1>1. RequestTypeOK'
    BY DEF FinishResponse, Close, Settle, Charge, RequestTypeOK
  <1>2. Places'
    BY DEF FinishResponse, Places
  <1>3. NotBegun'
    BY DEF FinishResponse, NotBegun, Early
  <1>4. Counted'
    BY DEF FinishResponse, Counted
  <1>5. CoinsSettled'
    BY DEF FinishResponse, Close, Settle, Charge, CoinsSettled, SettledUnlessCutOff
  <1>6. Charged'
    BY DEF FinishResponse, Close, Settle, Charge, Charged, StreamChargesReceived, ImagesOf, RequestTypeOK,
       Places, Counted
  <1> QED
    BY <1>1, <1>2, <1>3, <1>4, <1>5, <1>6

\* The client goes: the coroutine is cancelled where it waits.
LEMMA GiveUpKeeps ==
  ASSUME RequestInv, GiveUp
  PROVE  RequestInv'
PROOF
  <1> USE RequestAssumption DEF RequestInv, coroutine, inputs, generator, wrapper, wire, quota, Minimum,
     Outputs, NoOutput
  <1>1. RequestTypeOK'
    BY DEF GiveUp, CaughtCancel, Settle, Charge, RequestTypeOK
  <1>2. Places'
    BY DEF GiveUp, Places
  <1>3. NotBegun'
    BY DEF GiveUp, NotBegun, Early
  <1>4. Counted'
    BY DEF GiveUp, Counted
  <1>5. CoinsSettled'
    BY DEF GiveUp, CaughtCancel, Settle, Charge, CoinsSettled, SettledUnlessCutOff
  <1>6. Charged'
    BY DEF GiveUp, CaughtCancel, Settle, Charge, Charged, StreamChargesReceived, ImagesOf, RequestTypeOK,
       Places, NotBegun, Early
  <1> QED
    BY <1>1, <1>2, <1>3, <1>4, <1>5, <1>6

\* The client goes while a worker is inside the generator, which goes on alone.
LEMMA CancelInsideNextKeeps ==
  ASSUME RequestInv, CancelInsideNext
  PROVE  RequestInv'
PROOF
  <1> USE RequestAssumption DEF RequestInv, coroutine, inputs, generator, wrapper, wire, quota, Minimum,
     Outputs, NoOutput
  <1>1. RequestTypeOK'
    BY DEF CancelInsideNext, RequestTypeOK
  <1>2. Places'
    BY DEF CancelInsideNext, Places
  <1>3. NotBegun'
    BY DEF CancelInsideNext, NotBegun, Early
  <1>4. Counted'
    BY DEF CancelInsideNext, Counted
  <1>5. CoinsSettled'
    BY DEF CancelInsideNext, CoinsSettled, SettledUnlessCutOff
  <1>6. Charged'
    BY DEF CancelInsideNext, Charged, StreamChargesReceived, ImagesOf
  <1> QED
    BY <1>1, <1>2, <1>3, <1>4, <1>5, <1>6

\* The process dies.
LEMMA CrashKeeps ==
  ASSUME RequestInv, Crash
  PROVE  RequestInv'
PROOF
  <1> USE RequestAssumption DEF RequestInv, coroutine, inputs, generator, wrapper, wire, quota, Minimum,
     Outputs, NoOutput
  <1>1. RequestTypeOK'
    BY DEF Crash, RequestTypeOK
  <1>2. Places'
    BY DEF Crash, Places
  <1>3. NotBegun'
    BY DEF Crash, NotBegun, Early
  <1>4. Counted'
    BY DEF Crash, Counted
  <1>5. CoinsSettled'
    BY DEF Crash, CoinsSettled, SettledUnlessCutOff
  <1>6. Charged'
    BY DEF Crash, Charged, StreamChargesReceived, ImagesOf
  <1> QED
    BY <1>1, <1>2, <1>3, <1>4, <1>5, <1>6

\* A reservation that was left open is recovered.
LEMMA RecoverReservationKeeps ==
  ASSUME RequestInv, RecoverReservation
  PROVE  RequestInv'
PROOF
  <1> USE RequestAssumption DEF RequestInv, coroutine, inputs, generator, wrapper, wire, quota, Minimum,
     Outputs, NoOutput
  <1>1. RequestTypeOK'
    BY DEF RecoverReservation, RequestTypeOK
  <1>2. Places'
    BY DEF RecoverReservation, Places
  <1>3. NotBegun'
    BY DEF RecoverReservation, NotBegun, Early
  <1>4. Counted'
    BY DEF RecoverReservation, Counted
  <1>5. CoinsSettled'
    BY DEF RecoverReservation, CoinsSettled, SettledUnlessCutOff
  <1>6. Charged'
    BY DEF RecoverReservation, Charged, StreamChargesReceived, ImagesOf
  <1> QED
    BY <1>1, <1>2, <1>3, <1>4, <1>5, <1>6

-----------------------------------------------------------------------------
(* The request at the site: the theorems.                                  *)

\* Every step of a request keeps the strengthening.
LEMMA RequestStep == RequestInv /\ [RequestNext]_requestVars => RequestInv'
PROOF
  <1> SUFFICES ASSUME RequestInv, [RequestNext]_requestVars PROVE RequestInv'
    OBVIOUS
  <1>1. CASE Advance
    BY <1>1, UploadedKeeps, HandlerReturnsStreamKeeps, CollectOutputKeeps, HandlerRaisesKeeps,
       HandlerReturnsDictKeeps, FirstItemKeeps, StartResponseKeeps, BeginPullKeeps, EndPullKeeps, SendKeeps,
       FinishResponseKeeps DEF Advance
  <1>2. CASE UNCHANGED requestVars
    BY <1>2 DEF requestVars, coroutine, inputs, generator, wrapper, wire, quota, RequestInv, RequestTypeOK,
       Places, NotBegun, Counted, CoinsSettled, Charged, SettledUnlessCutOff, StreamChargesReceived
  <1> QED
    BY <1>1, <1>2, BeginKeeps, GiveUpKeeps, FinishResponseKeeps, CancelInsideNextKeeps, CrashKeeps,
       RecoverReservationKeeps DEF RequestNext

\* It holds when the request begins.
LEMMA RequestBegins == RequestInit => RequestInv
PROOF
  <1> SUFFICES ASSUME RequestInit PROVE RequestInv
    OBVIOUS
  <1> USE RequestAssumption DEF RequestInit, NoOutput
  <1>1. RequestTypeOK
    <2>1. 0 \in 0 .. MaxProgress /\ 1 \in Nat \ {0} /\ 0 \in Nat
      OBVIOUS
    <2> QED
      BY <2>1 DEF RequestTypeOK
  <1>2. Places /\ NotBegun
    BY DEF Places, NotBegun
  <1>3. Counted /\ CoinsSettled /\ Charged
    BY DEF Counted, CoinsSettled, Charged, SettledUnlessCutOff, StreamChargesReceived, ImagesOf
  <1> QED
    BY <1>1, <1>2, <1>3 DEF RequestInv

\* The strengthening holds in every state of a request.
THEOREM RequestsAlways == RequestSpec => []RequestInv
PROOF
  <1> QED
    BY RequestBegins, RequestStep, PTL DEF RequestSpec

\* Every variable of a request keeps its type (RequestTypeOK), for any counts, rounds and bound.
THEOREM RequestTypesKept == RequestSpec => []RequestTypeOK
PROOF
  <1>1. RequestInv => RequestTypeOK
    BY DEF RequestInv
  <1> QED
    BY <1>1, RequestsAlways, PTL

\* A request that is over has been settled, unless it was torn away where no handler runs.
THEOREM AlwaysSettled == RequestSpec => []SettledUnlessCutOff
PROOF
  <1>1. RequestInv => SettledUnlessCutOff
    BY DEF RequestInv, CoinsSettled
  <1> QED
    BY <1>1, RequestsAlways, PTL

\* A stream charges the images whose chunks were sent, a JSON request those it saved, and the rows of one
\* item at most are left for a client that did not get it.
THEOREM DeliveredIsCharged == RequestSpec => []ChargesDelivered
PROOF
  <1>1. ASSUME RequestInv PROVE AtMostOneItemUnsent
    <2>1. ASSUME streaming PROVE \E k \in Outputs : gallery = received + k
      <3> DEFINE k == IF first # NoOutput THEN first ELSE IF pending # NoOutput THEN pending ELSE 0
      <3>1. k \in Outputs
        BY <1>1 DEF RequestInv, Counted, Outputs
      <3>2. gallery = received + k
        BY <1>1, <2>1 DEF RequestInv, RequestTypeOK, Counted, Charged, ImagesOf, NoOutput
      <3> QED
        BY <3>1, <3>2
    <2>2. ~streaming => gallery \in {0, collected}
      BY <1>1 DEF RequestInv, Charged
    <2> QED
      BY <2>1, <2>2 DEF AtMostOneItemUnsent
  <1>2. RequestInv => ChargesDelivered
    BY <1>1 DEF RequestInv, Charged, ChargesDelivered, JsonChargesSaved
  <1> QED
    BY <1>2, RequestsAlways, PTL

-----------------------------------------------------------------------------
(* Turns and conversations.                                                *)

Statuses == {"queued", "generating", "success", "error"}

\* A turn has an id, a status and the states of its images.
LEMMA TurnIs ==
  \A x : x \in Turn <=> /\ x = [id |-> x.id, status |-> x.status, img |-> x.img]
                        /\ x.id \in Turns /\ x.status \in Statuses
                        /\ x.img \in [Count(x.id) -> ImageStatus]
PROOF
  <1> TAKE x
  <1>1. ASSUME x \in Turn
        PROVE  /\ x = [id |-> x.id, status |-> x.status, img |-> x.img]
               /\ x.id \in Turns /\ x.status \in Statuses
               /\ x.img \in [Count(x.id) -> ImageStatus]
    <2>1. PICK t \in Turns : x \in [id : {t}, status : Statuses, img : [Count(t) -> ImageStatus]]
      BY <1>1 DEF Turn, Statuses
    <2> QED
      BY <2>1
  <1>2. ASSUME x = [id |-> x.id, status |-> x.status, img |-> x.img],
               x.id \in Turns, x.status \in Statuses, x.img \in [Count(x.id) -> ImageStatus]
        PROVE  x \in Turn
    <2>1. x \in [id : {x.id}, status : Statuses, img : [Count(x.id) -> ImageStatus]]
      BY <1>2
    <2> QED
      BY <1>2, <2>1 DEF Turn, Statuses
  <1> QED
    BY <1>1, <1>2

\* An answered image is a success or an error.
LEMMA OutcomeIs == \A img : Outcome(img) \in {"success", "error"}
  BY DEF Outcome

\* A turn's images without their loading states are images of that turn.
LEMMA WithoutIs ==
  ASSUME NEW x \in Turn
  PROVE  Without(x) \in [Count(x.id) -> ImageStatus]
  BY TurnIs DEF Without, ImageStatus

\* What the queue makes of a turn is a turn.
LEMMA TurnsMade ==
  ASSUME NEW x \in Turn
  PROVE  /\ Generating(x) \in Turn /\ Generating(x).id = x.id
         /\ Failed(x) \in Turn /\ Failed(x).id = x.id
         /\ Cancelled(x) \in Turn /\ Cancelled(x).id = x.id
         /\ Finished(x) \in Turn /\ Finished(x).id = x.id
         /\ Recover(x) \in Turn /\ Recover(x).id = x.id
PROOF
  <1>0. /\ x = [id |-> x.id, status |-> x.status, img |-> x.img]
        /\ x.id \in Turns /\ x.status \in Statuses /\ x.img \in [Count(x.id) -> ImageStatus]
    BY TurnIs
  <1>1. ASSUME NEW s \in Statuses, NEW img \in [Count(x.id) -> ImageStatus], NEW y,
               y = [id |-> x.id, status |-> s, img |-> img]
        PROVE  y \in Turn /\ y.id = x.id
    BY <1>0, <1>1, TurnIs
  <1>9. ASSUME NEW s, NEW i
        PROVE  [x EXCEPT !.status = s, !.img = i] = [id |-> x.id, status |-> s, img |-> i]
    <2> DEFINE y == [x EXCEPT !.status = s]
    <2>1. y = [id |-> x.id, status |-> s, img |-> x.img]
      BY <1>0
    <2>2. [x EXCEPT !.status = s, !.img = i] = [y EXCEPT !.img = i]
      OBVIOUS
    <2> HIDE DEF y
    <2>3. [y EXCEPT !.img = i] = [id |-> x.id, status |-> s, img |-> i]
      BY <2>1
    <2> QED
      BY <2>2, <2>3
  <1>2. Generating(x) = [id |-> x.id, status |-> "generating", img |-> x.img]
    BY <1>0 DEF Generating
  <1>3. Failed(x) = [id |-> x.id, status |-> "error", img |-> Without(x)]
    BY <1>0, <1>9 DEF Failed
  <1>4. Finished(x) = [id |-> x.id, status |-> Outcome(Without(x)), img |-> Without(x)]
    BY <1>0, <1>9 DEF Finished
  <1>5. Without(x) \in [Count(x.id) -> ImageStatus] /\ Outcome(Without(x)) \in Statuses
    BY WithoutIs, OutcomeIs DEF Statuses
  <1>6. Generating(x) \in Turn /\ Generating(x).id = x.id
    BY <1>0, <1>1, <1>2 DEF Statuses
  <1>7. Failed(x) \in Turn /\ Failed(x).id = x.id
    BY <1>1, <1>3, <1>5 DEF Statuses
  <1>8. Finished(x) \in Turn /\ Finished(x).id = x.id
    BY <1>1, <1>4, <1>5
  <1> QED
    BY <1>6, <1>7, <1>8 DEF Cancelled, Recover

\* A conversation whose turns are replaced by turns is a conversation.
LEMMA MadeConversation ==
  ASSUME NEW conv \in Conversation, NEW v \in Nat, NEW ts,
         ts = [k \in DOMAIN conv.turns |-> ts[k]], \A k \in DOMAIN conv.turns : ts[k] \in Turn
  PROVE  [ver |-> v, turns |-> ts] \in Conversation
PROOF
  <1>1. conv.turns \in Seq(Turn)
    BY DEF Conversation
  <1>2. ts \in Seq(Turn)
    <2>1. PICK n \in Nat : DOMAIN conv.turns = 1 .. n
      BY <1>1
    <2> QED
      BY <2>1
  <1> QED
    BY <1>2 DEF Conversation

\* What the queue makes of a conversation, by editing one turn or all of them, is a conversation.
LEMMA ConversationsMade ==
  ASSUME NEW conv \in Conversation, NEW t
  PROVE  /\ Edited(conv, t, Generating) \in Conversation
         /\ Edited(conv, t, Cancelled) \in Conversation
         /\ Edited(conv, t, Finished) \in Conversation
         /\ Edited(conv, t, Failed) \in Conversation
         /\ Over(conv, Cancelled) \in Conversation
         /\ Over(conv, Recover) \in Conversation
PROOF
  <1>1. conv.ver \in Nat /\ \A k \in DOMAIN conv.turns : conv.turns[k] \in Turn
    BY DEF Conversation
  <1>2. ASSUME NEW ts, DOMAIN ts = DOMAIN conv.turns, ts = [k \in DOMAIN conv.turns |-> ts[k]],
               \A k \in DOMAIN conv.turns : ts[k] \in Turn
        PROVE  [ver |-> conv.ver + 1, turns |-> ts] \in Conversation
    BY <1>1, <1>2, MadeConversation
  <1>3. Edited(conv, t, Generating) \in Conversation
    BY <1>1, <1>2, TurnsMade DEF Edited
  <1>4. Edited(conv, t, Cancelled) \in Conversation
    BY <1>1, <1>2, TurnsMade DEF Edited
  <1>5. Edited(conv, t, Finished) \in Conversation
    BY <1>1, <1>2, TurnsMade DEF Edited
  <1>6. Edited(conv, t, Failed) \in Conversation
    BY <1>1, <1>2, TurnsMade DEF Edited
  <1>7. Over(conv, Cancelled) \in Conversation
    BY <1>1, <1>2, TurnsMade DEF Over
  <1>8. Over(conv, Recover) \in Conversation
    BY <1>1, <1>2, TurnsMade DEF Over
  <1> QED
    BY <1>3, <1>4, <1>5, <1>6, <1>7, <1>8

\* A set of natural numbers has a least member.
LEMMA LeastOf ==
  ASSUME NEW T \in SUBSET Nat, NEW n \in T
  PROVE  \E m \in T : \A k \in T : m <= k
PROOF
  <1> DEFINE S == 0 .. n
             B == {0 .. k : k \in {k \in T : k <= n}}
  <1>1. IsFiniteSet(S)
    BY FS_Interval
  <1>2. B \in SUBSET SUBSET S /\ 0 .. n \in B
    OBVIOUS
  <1>3. IsWellFoundedOn(StrictSubsetOrdering(S), SUBSET S)
    BY <1>1, FS_StrictSubsetOrderingWellFounded, FS_FiniteSubsetsOfFinite
  <1>4. PICK s \in B : \A t \in B : <<t, s>> \notin StrictSubsetOrdering(S)
    <2> HIDE DEF B, S
    <2> QED
      BY <1>2, <1>3, WFMin
  <1>5. PICK m \in T : m <= n /\ s = 0 .. m
    OBVIOUS
  <1>6. ASSUME NEW k \in T, ~(m <= k) PROVE FALSE
    <2>1. k < m /\ 0 .. k \in B
      BY <1>5, <1>6
    <2>2. 0 .. k \in SUBSET S /\ 0 .. m \in SUBSET S /\ 0 .. k \subseteq 0 .. m /\ m \in 0 .. m /\ m \notin 0 .. k
      BY <1>5, <2>1
    <2> HIDE DEF B, S
    <2>3. <<0 .. k, 0 .. m>> \in StrictSubsetOrdering(S)
      BY <2>2 DEF StrictSubsetOrdering
    <2> QED
      BY <1>4, <1>5, <2>1, <2>3
  <1> QED
    BY <1>6

\* The first turn that is queued.
LEMMA FirstQueuedIs ==
  ASSUME NEW conv \in Conversation, HasQueued(conv)
  PROVE  /\ FirstQueued(conv) \in Turn /\ FirstQueued(conv).status = "queued"
         /\ \E k \in DOMAIN conv.turns : conv.turns[k] = FirstQueued(conv)
PROOF
  <1>1. PICK n \in Nat : DOMAIN conv.turns = 1 .. n
    BY DEF Conversation
  <1> DEFINE T == {k \in 1 .. n : conv.turns[k].status = "queued"}
  <1>2. PICK m \in T : \A k \in T : m <= k
    <2>1. T \in SUBSET Nat /\ T # {}
      BY <1>1 DEF HasQueued
    <2> HIDE DEF T
    <2> QED
      BY <2>1, LeastOf
  <1>3. \E k \in DOMAIN conv.turns :
           conv.turns[k].status = "queued" /\ \A i \in 1 .. k - 1 : conv.turns[i].status # "queued"
    <2>1. ASSUME NEW i \in 1 .. m - 1 PROVE conv.turns[i].status # "queued"
      BY <1>2
    <2> QED
      BY <1>1, <1>2, <2>1
  <1>4. \A k \in DOMAIN conv.turns : conv.turns[k] \in Turn
    BY DEF Conversation
  <1> QED
    BY <1>3, <1>4 DEF FirstQueued

\* A turn with the answer of an image.
LEMMA ImageSet ==
  ASSUME NEW x \in Turn, NEW i, NEW out \in {"success", "error"}
  PROVE  [x EXCEPT !.img[i] = out] \in Turn /\ [x EXCEPT !.img[i] = out].id = x.id
PROOF
  <1>1. /\ x = [id |-> x.id, status |-> x.status, img |-> x.img]
        /\ x.id \in Turns /\ x.status \in Statuses /\ x.img \in [Count(x.id) -> ImageStatus]
    BY TurnIs
  <1> DEFINE im == [x.img EXCEPT ![i] = out]
             y == [id |-> x.id, status |-> x.status, img |-> im]
  <1>2. [x EXCEPT !.img[i] = out] = y
    BY <1>1
  <1>3. im \in [Count(x.id) -> ImageStatus]
    BY <1>1 DEF ImageStatus
  <1>4. y \in Turn /\ y.id = x.id
    <2> HIDE DEF im
    <2> QED
      BY <1>1, <1>3, TurnIs
  <1> QED
    BY <1>2, <1>4

-----------------------------------------------------------------------------
(* What the steps do to the loops and the workers, field by field.         *)

LoopFields == {"pc", "mount", "conv", "turn", "left", "asking", "interrupted", "broken", "thrown"}
WorkerFields == {"pc", "img", "out", "ver", "asking"}

LoopShape ==
    /\ loop = [l \in Loops |-> loop[l]]
    /\ \A l \in Loops : DOMAIN loop[l] = LoopFields
WorkerShape ==
    /\ worker = [l \in Loops |-> [w \in Workers |-> worker[l][w]]]
    /\ \A l \in Loops, w \in Workers : DOMAIN worker[l][w] = WorkerFields
Shape == LoopShape /\ WorkerShape

OnlyLoop(l) == \A k \in Loops \ {l} : loop'[k] = loop[k]
OnlyWorker(l, w) == \A k \in Loops, v \in Workers : k # l \/ v # w => worker'[k][v] = worker[k][v]

\* A loop that stays with its conversation and its turn.
Stays(l) == /\ loop'[l].mount = loop[l].mount /\ loop'[l].conv = loop[l].conv
            /\ loop'[l].turn = loop[l].turn

\* A loop that goes on to p after an await keeps all but its place and the session it asks in.
LEMMA AtDoes ==
  ASSUME Shape, NEW l \in Loops, NEW p, At(l, p)
  PROVE  /\ LoopShape'
         /\ OnlyLoop(l) /\ Stays(l) /\ loop'[l].left = loop[l].left
         /\ loop'[l].pc = p /\ loop'[l].asking = live
         /\ loop'[l].thrown = loop[l].thrown /\ loop'[l].broken = loop[l].broken
  BY DEF Shape, LoopShape, WorkerShape, LoopFields, At, OnlyLoop, Stays

\* A worker that goes on to p keeps all but its place and the session it asks in.
LEMMA StepDoes ==
  ASSUME Shape, NEW l \in Loops, NEW w \in Workers, NEW p, Step(l, w, p)
  PROVE  /\ WorkerShape'
         /\ OnlyWorker(l, w)
         /\ worker'[l][w].pc = p /\ worker'[l][w].img = worker[l][w].img
         /\ worker'[l][w].out = worker[l][w].out /\ worker'[l][w].ver = worker[l][w].ver
         /\ worker'[l][w].asking = Asking(l)
  BY DEF Shape, LoopShape, WorkerShape, WorkerFields, Step, OnlyWorker

\* A loop of which the program counter is set keeps everything else.
LEMMA PcDoes ==
  ASSUME Shape, NEW l \in Loops, NEW p, loop' = [loop EXCEPT ![l].pc = p]
  PROVE  /\ LoopShape'
         /\ OnlyLoop(l) /\ Stays(l) /\ loop'[l].left = loop[l].left
         /\ loop'[l].pc = p /\ loop'[l].asking = loop[l].asking
         /\ loop'[l].thrown = loop[l].thrown /\ loop'[l].broken = loop[l].broken
  BY DEF Shape, LoopShape, WorkerShape, LoopFields, OnlyLoop, Stays

\* The same with the flag that says whether it threw.
LEMMA PcThrownDoes ==
  ASSUME Shape, NEW l \in Loops, NEW p, NEW x, loop' = [loop EXCEPT ![l].pc = p, ![l].thrown = x]
  PROVE  /\ LoopShape'
         /\ OnlyLoop(l) /\ Stays(l) /\ loop'[l].left = loop[l].left
         /\ loop'[l].pc = p /\ loop'[l].asking = loop[l].asking
         /\ loop'[l].thrown = x /\ loop'[l].broken = loop[l].broken
  BY DEF Shape, LoopShape, WorkerShape, LoopFields, OnlyLoop, Stays

\* What a loop has after it picked conversation c.
LEMMA PickSets ==
  ASSUME Shape, NEW l \in Loops, NEW c, loop' = [loop EXCEPT ![l].pc = "enter", ![l].conv = c, ![l].asking = live]
  PROVE  /\ LoopShape'
         /\ OnlyLoop(l) /\ loop'[l].pc = "enter" /\ loop'[l].conv = c /\ loop'[l].asking = live
         /\ loop'[l].mount = loop[l].mount /\ loop'[l].left = loop[l].left /\ loop'[l].turn = loop[l].turn
         /\ loop'[l].thrown = loop[l].thrown /\ loop'[l].broken = loop[l].broken
  BY DEF Shape, LoopShape, WorkerShape, LoopFields, OnlyLoop

\* A loop that is overwritten with a whole record has that record.
LEMMA RecordDoes ==
  ASSUME Shape, NEW l \in Loops, NEW r, loop' = [loop EXCEPT ![l] = r], DOMAIN r = LoopFields
  PROVE  /\ LoopShape'
         /\ OnlyLoop(l) /\ loop'[l] = r
  BY DEF Shape, LoopShape, WorkerShape, LoopFields, OnlyLoop

\* The fields of a loop that is off, and of one that starts from there.
LEMMA OffIs ==
  /\ DOMAIN Off = LoopFields /\ Off.pc = "off" /\ Off.mount = 0 /\ Off.conv = None /\ Off.turn = None
  /\ Off.left = {} /\ Off.thrown = FALSE /\ Off.broken = FALSE
  /\ \A m : LET r == [Off EXCEPT !.pc = "pick", !.mount = m] IN
       /\ DOMAIN r = LoopFields /\ r.pc = "pick" /\ r.mount = m /\ r.conv = None /\ r.turn = None
       /\ r.left = {} /\ r.thrown = FALSE /\ r.broken = FALSE
  BY DEF Off, LoopFields

\* The fields of a worker that rests, and of one that starts from there.
LEMMA RestingIs ==
  /\ DOMAIN Resting = WorkerFields /\ Resting.pc = "done" /\ Resting.img = None /\ Resting.out = "none"
  /\ Resting.ver = 0
  /\ \A p, a : LET r == [Resting EXCEPT !.pc = p, !.asking = a] IN
       /\ DOMAIN r = WorkerFields /\ r.pc = p /\ r.img = None /\ r.out = "none" /\ r.ver = 0 /\ r.asking = a
  /\ \A p, i : LET r == [Resting EXCEPT !.pc = p, !.img = i] IN
       /\ DOMAIN r = WorkerFields /\ r.pc = p /\ r.img = i /\ r.out = "none" /\ r.ver = 0
  BY DEF Resting, WorkerFields

\* LoopEnter, with the turn that is run.
EnteredTurn(l) == FirstQueued(ref[loop[l].mount][loop[l].conv])

\* What a loop has after it entered a conversation and found a turn to run, or no conversation.
LEMMA EnterSets ==
  ASSUME Shape, NEW l \in Loops, LoopEnter(l)
  PROVE  /\ LoopShape'
         /\ OnlyLoop(l) /\ loop'[l].pc = (IF list[loop[l].conv] = None THEN "ended" ELSE "starting")
         /\ loop'[l].turn = EnteredTurn(l).id
         /\ loop'[l].left = {i \in DOMAIN EnteredTurn(l).img : EnteredTurn(l).img[i] = "loading"}
         /\ loop'[l].mount = loop[l].mount /\ loop'[l].conv = loop[l].conv
         /\ loop'[l].asking = loop[l].asking /\ loop'[l].thrown = FALSE /\ loop'[l].broken = FALSE
PROOF
  <1> DEFINE p == IF list[loop[l].conv] = None THEN "ended" ELSE "starting"
             t == EnteredTurn(l).id
             s == {i \in DOMAIN EnteredTurn(l).img : EnteredTurn(l).img[i] = "loading"}
             f1 == [loop EXCEPT ![l].pc = p]
             f2 == [f1 EXCEPT ![l].turn = t]
             f3 == [f2 EXCEPT ![l].left = s]
             f4 == [f3 EXCEPT ![l].interrupted = FALSE]
             f5 == [f4 EXCEPT ![l].broken = FALSE]
             f6 == [f5 EXCEPT ![l].thrown = FALSE]
             Kept(f) == /\ f = [k \in Loops |-> f[k]] /\ DOMAIN f[l] = LoopFields
                        /\ \A k \in Loops \ {l} : f[k] = loop[k]
                        /\ f[l].mount = loop[l].mount /\ f[l].conv = loop[l].conv
                        /\ f[l].asking = loop[l].asking
  <1>0. loop' = f6
    BY DEF LoopEnter, EnteredTurn
  <1> HIDE DEF p, t, s
  <1>1. Kept(f1) /\ f1[l].pc = p
    BY DEF Shape, LoopShape, LoopFields
  <1> HIDE DEF f1
  <1>2. Kept(f2) /\ f2[l].pc = p /\ f2[l].turn = t
    BY <1>1 DEF LoopFields
  <1> HIDE DEF f2
  <1>3. Kept(f3) /\ f3[l].pc = p /\ f3[l].turn = t /\ f3[l].left = s
    BY <1>2 DEF LoopFields
  <1> HIDE DEF f3
  <1>4. Kept(f4) /\ f4[l].pc = p /\ f4[l].turn = t /\ f4[l].left = s
    BY <1>3 DEF LoopFields
  <1> HIDE DEF f4
  <1>5. Kept(f5) /\ f5[l].pc = p /\ f5[l].turn = t /\ f5[l].left = s /\ f5[l].broken = FALSE
    BY <1>4 DEF LoopFields
  <1> HIDE DEF f5
  <1>6. Kept(f6) /\ f6[l].pc = p /\ f6[l].turn = t /\ f6[l].left = s /\ f6[l].broken = FALSE
        /\ f6[l].thrown = FALSE
    BY <1>5 DEF LoopFields
  <1> HIDE DEF f6
  <1>7. /\ LoopShape' /\ OnlyLoop(l) /\ loop'[l].pc = p /\ loop'[l].turn = t /\ loop'[l].left = s
        /\ loop'[l].mount = loop[l].mount /\ loop'[l].conv = loop[l].conv
        /\ loop'[l].asking = loop[l].asking /\ loop'[l].thrown = FALSE /\ loop'[l].broken = FALSE
    BY <1>0, <1>6 DEF Shape, LoopShape, OnlyLoop
  <1> QED
    BY <1>7 DEF p, t, s

-----------------------------------------------------------------------------
(* Types, and who waits for the store.                                     *)

ItemsT == [Convs -> Conversation \cup {None}]

Bys ==
    [kind : {"loop"}, l : Loops] \cup [kind : {"worker"}, l : Loops, w : Workers]
    \cup [kind : {"submit"}, m : Mounts] \cup [kind : {"load"}, m : 0 .. MaxMounts]
    \cup [kind : {"delete"}, m : Mounts, conv : Convs, before : Conversation]
    \cup [kind : {"clear"}, m : Mounts, before : ItemsT]
Writes ==
    [op : {"save", "all", "clear"}, conv : Convs \cup {None}, items : ItemsT, by : Bys]
    \cup [op : {"delete"}, conv : Convs, items : ItemsT, by : Bys]

MemoryT ==
    /\ list \in ItemsT /\ ref \in [Mounts -> ItemsT]
    /\ page \in [mount : 0 .. MaxMounts, due : BOOLEAN, opened : 0 .. MaxMounts]
LoadT == load \in [pc : {"off", "reading", "saving"}, items : ItemsT]
RuntimeT ==
    /\ live \in BOOLEAN /\ draining \in BOOLEAN /\ mine \in BOOLEAN
    /\ aborted \subseteq Loops /\ control \in [Convs -> Loops \cup {None}] /\ active \subseteq Convs
DiskT == stored \in ItemsT /\ gone \subseteq Convs
CountsT ==
    /\ asked \in [Turns -> [Images -> Nat]]
    /\ used \in [convs : 0 .. MaxConvs, turns : 0 .. MaxTurns] /\ happened \subseteq Hazards

LoopT(l) ==
    /\ loop[l].pc \in LoopPcs
    /\ loop[l].pc # "off" => loop[l].mount \in Mounts
    /\ loop[l].pc \notin {"off", "pick"} => loop[l].conv \in Convs
    /\ Running(l) => loop[l].turn \in Turns
    /\ loop[l].left \subseteq Images
WorkerT(l, w) ==
    /\ worker[l][w].pc # "done" => loop[l].pc = "batch"
    /\ worker[l][w].pc = "answered" => worker[l][w].out \in {"success", "error"}

SavingPcs == {"starting", "finishing", "failed"}

\* Whoever waits for a write has one write on its way, and waits until it is over.
Awaited(b) ==
    /\ b.kind = "loop" => loop[b.l].pc \in SavingPcs
    /\ b.kind = "worker" => worker[b.l][b.w].pc = "saving"
WriteAwaited(k) == Awaited(writes[k].by)
PendingT ==
    /\ writes \in Seq(Writes)
    /\ \A k \in DOMAIN writes : WriteAwaited(k)
    /\ \A j, k \in DOMAIN writes :
         j # k /\ writes[j].by.kind \in {"loop", "worker"} => writes[j].by # writes[k].by

TypeInv ==
    /\ Shape /\ MemoryT /\ LoadT /\ RuntimeT /\ DiskT /\ CountsT /\ PendingT
    /\ \A l \in Loops : LoopT(l)
    /\ \A l \in Loops, w \in Workers : WorkerT(l, w)

\* The types the proofs use imply those the runs check.
LEMMA TypesAreChecked == TypeInv => TypeOK
  BY DEF TypeInv, TypeOK, MemoryT, LoadT, RuntimeT, DiskT, CountsT, LoopT, ItemsT

\* What a write was made for.
LEMMA ByIs ==
  ASSUME NEW b \in Bys
  PROVE  /\ b.kind \in {"loop", "worker", "submit", "load", "delete", "clear"}
         /\ b.kind = "loop" => b.l \in Loops /\ b = [kind |-> "loop", l |-> b.l]
         /\ b.kind = "worker" => b.l \in Loops /\ b.w \in Workers /\ b = [kind |-> "worker", l |-> b.l, w |-> b.w]
         /\ b.kind = "submit" => b.m \in Mounts
         /\ b.kind = "load" => b.m \in 0 .. MaxMounts
         /\ b.kind = "delete" => b.m \in Mounts /\ b.conv \in Convs /\ b.before \in Conversation
         /\ b.kind = "clear" => b.m \in Mounts /\ b.before \in ItemsT
PROOF
  <1>1. CASE b \in [kind : {"loop"}, l : Loops]
    BY <1>1
  <1>2. CASE b \in [kind : {"worker"}, l : Loops, w : Workers]
    BY <1>2
  <1>3. CASE b \in [kind : {"submit"}, m : Mounts]
    BY <1>3
  <1>4. CASE b \in [kind : {"load"}, m : 0 .. MaxMounts]
    BY <1>4
  <1>5. CASE b \in [kind : {"delete"}, m : Mounts, conv : Convs, before : Conversation]
    BY <1>5
  <1>6. CASE b \in [kind : {"clear"}, m : Mounts, before : ItemsT]
    BY <1>6
  <1> QED
    BY <1>1, <1>2, <1>3, <1>4, <1>5, <1>6 DEF Bys

\* The fields of a pending write.
LEMMA WriteIs ==
  ASSUME NEW x \in Writes
  PROVE  /\ x.op \in {"save", "all", "delete", "clear"} /\ x.items \in ItemsT /\ x.by \in Bys
         /\ x.op = "delete" => x.conv \in Convs
  BY DEF Writes

\* The conversations in the list, and the ref of the mount that is shown.
LEMMA ShowDoes ==
  ASSUME MemoryT, NEW m, NEW items \in ItemsT, Show(m, items)
  PROVE  /\ MemoryT' /\ list' = items
         /\ page'.mount = page.mount /\ page'.opened = page.opened
         /\ \A k \in Mounts : ref'[k] = IF k = m \/ k = page.mount THEN items ELSE ref[k]
PROOF
  <1>1. page' = [mount |-> page.mount, due |-> page.mount # 0, opened |-> page.opened]
    BY DEF MemoryT, Show
  <1>2. page' \in [mount : 0 .. MaxMounts, due : BOOLEAN, opened : 0 .. MaxMounts]
    BY <1>1 DEF MemoryT
  <1>3. list' = items /\ ref' = [k \in Mounts |-> IF k \in {m, page.mount} THEN items ELSE ref[k]]
    BY DEF Show
  <1>4. ref' \in [Mounts -> ItemsT]
    BY <1>3 DEF MemoryT
  <1> QED
    BY <1>1, <1>2, <1>3, <1>4 DEF MemoryT

\* Putting a conversation on the screen changes one entry of the list and of the mount's ref.
LEMMA PutDoes ==
  ASSUME MemoryT, NEW m, NEW c \in Convs, NEW conv \in Conversation \cup {None}, Put(m, c, conv)
  PROVE  /\ MemoryT' /\ list' = [list EXCEPT ![c] = conv]
         /\ page'.mount = page.mount /\ page'.opened = page.opened
         /\ \A k \in Mounts : ref'[k] = IF k = m \/ k = page.mount THEN list' ELSE ref[k]
PROOF
  <1>1. [list EXCEPT ![c] = conv] \in ItemsT
    BY DEF MemoryT, ItemsT
  <1>2. Show(m, [list EXCEPT ![c] = conv])
    BY DEF Put
  <1> QED
    BY <1>1, <1>2, ShowDoes

\* A write is appended, and whoever made it waits.
Saved(x, c, conv, b) ==
    /\ writes' = Append(writes, x) /\ x.by = b /\ x.op = "save"
    /\ x.items = [NoItems EXCEPT ![c] = conv]

\* A save appends one write with the conversation that is saved.
LEMMA SaveDoes ==
  ASSUME NEW c \in Convs, NEW conv \in Conversation, NEW b \in Bys, writes' = Save(c, conv, b)
  PROVE  \E x \in Writes : Saved(x, c, conv, b)
PROOF
  <1>1. [NoItems EXCEPT ![c] = conv] \in ItemsT
    BY DEF NoItems, ItemsT
  <1>2. [op |-> "save", conv |-> c, items |-> [NoItems EXCEPT ![c] = conv], by |-> b] \in Writes
    BY <1>1 DEF Writes
  <1> QED
    BY <1>2 DEF Save, Saved

StillWaits(k) == loop[k].pc \in SavingPcs => loop'[k].pc = loop[k].pc
WorkerStillWaits(k, v) == worker[k][v].pc = "saving" => worker'[k][v].pc = "saving"

\* Whoever awaits a write goes on waiting unless a step moves it.
LEMMA AwaitedStays ==
  ASSUME NEW b \in Bys, Awaited(b),
         b.kind = "loop" => StillWaits(b.l), b.kind = "worker" => WorkerStillWaits(b.l, b.w)
  PROVE  Awaited(b)'
  BY DEF Awaited, StillWaits, WorkerStillWaits

\* The queue stays typed while nobody who waits in it moves.
LEMMA PendingStays ==
  ASSUME PendingT, UNCHANGED writes, \A k \in Loops : StillWaits(k),
         \A k \in Loops, v \in Workers : WorkerStillWaits(k, v)
  PROVE  PendingT'
PROOF
  <1> SUFFICES ASSUME NEW k \in DOMAIN writes PROVE WriteAwaited(k)'
    BY DEF PendingT
  <1> DEFINE b == writes[k].by
  <1>1. b \in Bys /\ Awaited(b) /\ writes'[k].by = b
    BY WriteIs DEF PendingT, WriteAwaited
  <1> HIDE DEF b
  <1>2. \A x \in Bys : x = b => (Awaited(x))'
    BY <1>1, ByIs, AwaitedStays
  <1> QED
    BY <1>1, <1>2 DEF WriteAwaited, Awaited

\* The queue stays typed with one more write that somebody awaits.
LEMMA PendingGrows ==
  ASSUME PendingT, NEW x \in Writes, writes' = Append(writes, x),
         \A k \in Loops : StillWaits(k), \A k \in Loops, v \in Workers : WorkerStillWaits(k, v),
         Awaited(x.by)', x.by.kind = "loop" \/ x.by.kind = "worker" => ~Awaited(x.by)
  PROVE  PendingT'
PROOF
  <1>0. x.by \in Bys /\ writes \in Seq(Writes)
    BY WriteIs DEF PendingT
  <1>1. /\ writes' \in Seq(Writes) /\ DOMAIN writes' = 1 .. Len(writes) + 1 /\ DOMAIN writes = 1 .. Len(writes)
        /\ \A k \in DOMAIN writes : writes'[k] = writes[k]
        /\ writes'[Len(writes) + 1] = x
    BY <1>0
  <1>2. \A y \in Bys : Awaited(y) => Awaited(y)'
    BY ByIs, AwaitedStays
  <1>3. ASSUME NEW k \in DOMAIN writes' PROVE WriteAwaited(k)'
    <2>1. CASE k \in DOMAIN writes
      <3>1. writes[k].by \in Bys /\ Awaited(writes[k].by) /\ writes'[k] = writes[k]
        BY <1>0, <1>1, <2>1, WriteIs DEF PendingT, WriteAwaited
      <3> QED
        BY <1>2, <3>1 DEF WriteAwaited, Awaited
    <2>2. CASE k \notin DOMAIN writes
      <3>1. writes'[k] = x
        BY <1>1, <2>2
      <3> QED
        BY <3>1 DEF WriteAwaited, Awaited
    <2> QED
      BY <2>1, <2>2
  <1>4. ASSUME NEW j \in DOMAIN writes', NEW k \in DOMAIN writes', j # k, writes'[j].by.kind \in {"loop", "worker"}
        PROVE  writes'[j].by # writes'[k].by
    <2>1. CASE j \in DOMAIN writes /\ k \in DOMAIN writes
      BY <1>1, <1>4, <2>1 DEF PendingT
    <2>2. CASE j \in DOMAIN writes /\ k \notin DOMAIN writes
      BY <1>1, <1>4, <2>2 DEF PendingT, WriteAwaited
    <2>3. CASE j \notin DOMAIN writes
      BY <1>1, <1>4, <2>3 DEF PendingT, WriteAwaited
    <2> QED
      BY <2>1, <2>2, <2>3
  <1> QED
    BY <1>1, <1>3, <1>4 DEF PendingT

\* The first write is over, and whoever waited for it goes on.
LEMMA PendingShrinks ==
  ASSUME PendingT, writes # <<>>, writes' = Tail(writes),
         \A k \in Loops : StillWaits(k) \/ Head(writes).by = [kind |-> "loop", l |-> k],
         \A k \in Loops, v \in Workers :
            WorkerStillWaits(k, v) \/ Head(writes).by = [kind |-> "worker", l |-> k, w |-> v]
  PROVE  PendingT'
PROOF
  <1>0. writes \in Seq(Writes)
    BY DEF PendingT
  <1>1. /\ Head(writes) = writes[1] /\ 1 \in DOMAIN writes /\ writes' \in Seq(Writes)
        /\ \A k \in DOMAIN writes' : k \in Nat /\ k + 1 \in DOMAIN writes /\ k + 1 # 1 /\ writes'[k] = writes[k + 1]
    BY <1>0
  <1>2. \A y \in Bys : Awaited(y) /\ (y.kind \in {"loop", "worker"} => y # Head(writes).by) => Awaited(y)'
    BY ByIs, AwaitedStays
  <1>3. ASSUME NEW k \in DOMAIN writes' PROVE WriteAwaited(k)'
    <2>1. k + 1 \in DOMAIN writes /\ k + 1 # 1 /\ writes'[k] = writes[k + 1]
      BY <1>1
    <2>2. writes[k + 1].by \in Bys /\ Awaited(writes[k + 1].by)
      BY <1>0, <2>1, WriteIs DEF PendingT, WriteAwaited
    <2>3. writes[k + 1].by.kind \in {"loop", "worker"} => writes[k + 1].by # Head(writes).by
      BY <1>1, <2>1 DEF PendingT
    <2> QED
      BY <1>2, <2>1, <2>2, <2>3 DEF WriteAwaited, Awaited
  <1>4. ASSUME NEW j \in DOMAIN writes', NEW k \in DOMAIN writes', j # k, writes'[j].by.kind \in {"loop", "worker"}
        PROVE  writes'[j].by # writes'[k].by
    <2>1. j + 1 # k + 1
      BY <1>1, <1>4
    <2> QED
      BY <1>1, <1>4, <2>1 DEF PendingT
  <1> QED
    BY <1>1, <1>3, <1>4 DEF PendingT

\* Each part of the type invariant is about its own variables.
LEMMA PartsStay ==
  ASSUME TypeInv
  PROVE  /\ UNCHANGED memory => MemoryT'
         /\ UNCHANGED load => LoadT'
         /\ UNCHANGED <<runtime, active, mine>> => RuntimeT'
         /\ UNCHANGED disk => DiskT'
         /\ UNCHANGED <<asked, used, happened>> => CountsT'
PROOF
  <1>1. UNCHANGED memory => MemoryT'
    BY DEF TypeInv, memory, MemoryT
  <1>2. UNCHANGED load => LoadT'
    BY DEF TypeInv, LoadT
  <1>3. UNCHANGED <<runtime, active, mine>> => RuntimeT'
    BY DEF TypeInv, runtime, RuntimeT
  <1>4. UNCHANGED disk => DiskT'
    BY DEF TypeInv, disk, DiskT
  <1>5. UNCHANGED <<asked, used, happened>> => CountsT'
    BY DEF TypeInv, CountsT
  <1> QED
    BY <1>1, <1>2, <1>3, <1>4, <1>5

\* What a step that leaves the loops and the workers alone keeps.
LEMMA LoopsStay ==
  ASSUME TypeInv, UNCHANGED <<loop, worker>>
  PROVE  /\ Shape' /\ \A k \in Loops : LoopT(k)'
         /\ \A k \in Loops, v \in Workers : WorkerT(k, v)'
         /\ \A k \in Loops : StillWaits(k)
         /\ \A k \in Loops, v \in Workers : WorkerStillWaits(k, v)
  BY DEF TypeInv, Shape, LoopShape, WorkerShape, LoopT, Running, WorkerT, StillWaits, WorkerStillWaits

\* What a step of one loop, or of one of its workers, keeps.
OneLoop(l) ==
    /\ LoopShape' /\ WorkerShape' /\ OnlyLoop(l)
    /\ \A k \in Loops \ {l}, v \in Workers : worker'[k][v] = worker[k][v]
LoopsT ==
    /\ Shape /\ \A k \in Loops : LoopT(k)
    /\ \A k \in Loops, v \in Workers : WorkerT(k, v)

\* The loops stay typed when one of them moves, with its workers, to typed places.
LEMMA OneLoopMoves ==
  ASSUME TypeInv, NEW l \in Loops, OneLoop(l), LoopT(l)', \A v \in Workers : WorkerT(l, v)'
  PROVE  /\ LoopsT'
         /\ \A k \in Loops \ {l} : StillWaits(k)
         /\ \A k \in Loops \ {l}, v \in Workers : WorkerStillWaits(k, v)
PROOF
  <1>1. ASSUME NEW k \in Loops \ {l} PROVE LoopT(k)' /\ StillWaits(k)
    BY DEF TypeInv, OneLoop, OnlyLoop, LoopT, Running, StillWaits
  <1>2. ASSUME NEW k \in Loops \ {l}, NEW v \in Workers PROVE WorkerT(k, v)' /\ WorkerStillWaits(k, v)
    BY DEF TypeInv, OneLoop, OnlyLoop, WorkerT, WorkerStillWaits
  <1> QED
    BY <1>1, <1>2 DEF OneLoop, Shape, LoopsT

\* A step of one loop that leaves the workers alone.
LEMMA LoopAloneMoves ==
  ASSUME TypeInv, NEW l \in Loops, LoopShape', OnlyLoop(l), UNCHANGED worker, LoopT(l)',
         loop[l].pc = "batch" => loop'[l].pc = "batch" \/ \A v \in Workers : worker[l][v].pc = "done"
  PROVE  /\ LoopsT'
         /\ \A k \in Loops \ {l} : StillWaits(k)
         /\ \A k \in Loops, v \in Workers : WorkerStillWaits(k, v)
PROOF
  <1>1. \A v \in Workers : WorkerT(l, v)'
    BY DEF TypeInv, WorkerT
  <1>2. OneLoop(l)
    BY DEF OneLoop, TypeInv, Shape, WorkerShape
  <1> QED
    BY <1>1, <1>2, OneLoopMoves DEF WorkerStillWaits

\* A loop that is started.
Starts(l, m) ==
    /\ loop[l].pc = "off" /\ LoopShape' /\ OnlyLoop(l)
    /\ loop'[l].pc = "pick" /\ loop'[l].mount = m /\ loop'[l].conv = None
    /\ loop'[l].turn = None /\ loop'[l].left = {}
    /\ loop'[l].thrown = FALSE /\ loop'[l].broken = FALSE

\* A drain is refused because one is on, or it starts one loop.
LEMMA TryDrainDoes ==
  ASSUME Shape, NEW m, TryDrain(m)
  PROVE  \/ UNCHANGED <<draining, loop>> /\ draining
         \/ ~draining /\ draining' = TRUE /\ \E l \in Loops : Starts(l, m)
PROOF
  <1>1. CASE draining
    BY <1>1 DEF TryDrain
  <1>2. CASE ~draining
    <2> DEFINE l == CHOOSE x \in Loops : loop[x].pc = "off"
               r == [Off EXCEPT !.pc = "pick", !.mount = m]
    <2>1. l \in Loops /\ loop[l].pc = "off" /\ loop' = [loop EXCEPT ![l] = r] /\ draining' = TRUE
      BY <1>2 DEF TryDrain
    <2>2. DOMAIN r = LoopFields /\ r.pc = "pick" /\ r.mount = m /\ r.conv = None /\ r.turn = None
          /\ r.left = {} /\ r.thrown = FALSE /\ r.broken = FALSE
      BY OffIs
    <2> HIDE DEF l, r
    <2>3. LoopShape' /\ OnlyLoop(l) /\ loop'[l] = r
      BY <2>1, <2>2, RecordDoes
    <2> QED
      BY <1>2, <2>1, <2>2, <2>3 DEF Starts
  <1> QED
    BY <1>1, <1>2

\* A drain keeps the types of the loops and disturbs nobody who waits.
LEMMA TryDrainKeeps ==
  ASSUME TypeInv, NEW m \in Mounts, TryDrain(m), UNCHANGED worker
  PROVE  /\ LoopsT' /\ draining' \in BOOLEAN
         /\ \A k \in Loops : StillWaits(k)
         /\ \A k \in Loops, v \in Workers : WorkerStillWaits(k, v)
PROOF
  <1>0. Shape
    BY DEF TypeInv
  <1>1. CASE UNCHANGED <<draining, loop>>
    BY <1>1, LoopsStay DEF LoopsT, TypeInv, RuntimeT
  <1>2. CASE draining' = TRUE /\ \E l \in Loops : Starts(l, m)
    <2>1. PICK l \in Loops : Starts(l, m)
      BY <1>2
    <2>2. LoopT(l)'
      BY <2>1 DEF Starts, LoopT, LoopPcs, Running
    <2>3. StillWaits(l)
      BY <2>1 DEF Starts, StillWaits, SavingPcs
    <2>4. LoopsT' /\ (\A k \in Loops \ {l} : StillWaits(k)) /\ \A k \in Loops, v \in Workers : WorkerStillWaits(k, v)
      BY <2>1, <2>2, LoopAloneMoves DEF Starts
    <2> QED
      BY <1>2, <2>3, <2>4
  <1> QED
    BY <1>0, <1>1, <1>2, TryDrainDoes

\* Evicting a run of the runtime keeps the runtime's types.
LEMMA EvictKeeps ==
  ASSUME RuntimeT, UNCHANGED <<active, mine>>, NEW a, Evict(a) \/ Deactivate
  PROVE  RuntimeT'
PROOF
  <1>1. CASE Deactivate
    BY <1>1 DEF RuntimeT, Deactivate, Held
  <1>2. CASE UNCHANGED runtime
    BY <1>2 DEF RuntimeT, runtime
  <1> QED
    BY <1>1, <1>2 DEF Evict

\* LoopPick keeps the types.
LEMMA PickKeepsTypes ==
  ASSUME TypeInv, NEW l \in Loops, LoopPick(l)
  PROVE  TypeInv'
PROOF
  <1>0. Shape
    BY DEF TypeInv
  <1>1. UNCHANGED <<memory, load, live, control, aborted, active, worker, disk, writes, mine, asked, used, happened>>
        /\ loop[l].pc = "pick"
    BY DEF LoopPick
  <1>2. LoopShape' /\ OnlyLoop(l) /\ LoopT(l)' /\ draining' \in BOOLEAN
    <2>1. ASSUME NEW c \in Convs, loop' = [loop EXCEPT ![l].pc = "enter", ![l].conv = c, ![l].asking = live],
                 UNCHANGED draining
          PROVE  LoopShape' /\ OnlyLoop(l) /\ LoopT(l)' /\ draining' \in BOOLEAN
      <3>1. /\ LoopShape' /\ OnlyLoop(l) /\ loop'[l].pc = "enter" /\ loop'[l].conv = c
            /\ loop'[l].mount = loop[l].mount /\ loop'[l].left = loop[l].left
        BY <1>0, <2>1, PickSets
      <3> QED
        BY <1>1, <2>1, <3>1 DEF TypeInv, LoopT, LoopPcs, Running, RuntimeT
    <2>2. ASSUME loop' = [loop EXCEPT ![l] = Off], draining' = FALSE
          PROVE  LoopShape' /\ OnlyLoop(l) /\ LoopT(l)' /\ draining' \in BOOLEAN
      <3>1. LoopShape' /\ OnlyLoop(l) /\ loop'[l] = Off
        BY <1>0, <2>2, OffIs, RecordDoes
      <3> QED
        BY <2>2, <3>1, OffIs DEF LoopT, LoopPcs, Running
    <2> QED
      BY <2>1, <2>2 DEF LoopPick
  <1>3. /\ LoopsT' /\ (\A k \in Loops \ {l} : StillWaits(k))
        /\ \A k \in Loops, v \in Workers : WorkerStillWaits(k, v)
    BY <1>1, <1>2, LoopAloneMoves
  <1>4. PendingT'
    <2>1. \A k \in Loops : StillWaits(k)
      BY <1>1, <1>3 DEF StillWaits, SavingPcs
    <2> QED
      BY <1>1, <1>3, <2>1, PendingStays DEF TypeInv
  <1>5. RuntimeT'
    BY <1>1, <1>2 DEF TypeInv, RuntimeT
  <1> QED
    BY <1>1, <1>3, <1>4, <1>5, PartsStay DEF TypeInv, LoopsT

\* LoopEnter keeps the types.
LEMMA EnterKeepsTypes ==
  ASSUME TypeInv, NEW l \in Loops, LoopEnter(l)
  PROVE  TypeInv'
PROOF
  <1> DEFINE c == loop[l].conv
             m == loop[l].mount
             turn == EnteredTurn(l)
  <1>0. Shape /\ loop[l].pc = "enter" /\ c \in Convs /\ m \in Mounts
    BY DEF TypeInv, LoopEnter, LoopT
  <1>1. turn \in Turn
    <2>1. ref[m][c] \in Conversation \cup {None} /\ HasQueued(ref[m][c])
      BY <1>0 DEF LoopEnter, Startable, TypeInv, MemoryT, ItemsT
    <2> QED
      BY <2>1, FirstQueuedIs DEF HasQueued, EnteredTurn
  <1> HIDE DEF turn
  <1>2. /\ LoopShape' /\ OnlyLoop(l) /\ loop'[l].pc = (IF list[c] = None THEN "ended" ELSE "starting")
        /\ loop'[l].turn = turn.id /\ loop'[l].left = {i \in DOMAIN turn.img : turn.img[i] = "loading"}
        /\ loop'[l].mount = m /\ loop'[l].conv = c
    BY <1>0, EnterSets DEF turn
  <1>3. LoopT(l)'
    <2>1. turn.id \in Turns /\ DOMAIN turn.img \subseteq Images
      BY <1>1, TurnIs, QueueAssumption DEF Count
    <2> QED
      BY <1>0, <1>2, <2>1 DEF LoopT, LoopPcs
  <1>4. /\ LoopsT' /\ (\A k \in Loops \ {l} : StillWaits(k))
        /\ \A k \in Loops, v \in Workers : WorkerStillWaits(k, v)
    BY <1>0, <1>2, <1>3, LoopAloneMoves DEF LoopEnter
  <1>5. \A k \in Loops : StillWaits(k)
    BY <1>0, <1>4 DEF StillWaits, SavingPcs
  <1>6. MemoryT' /\ PendingT'
    <2>1. CASE list[c] = None
      <3>1. UNCHANGED <<memory, writes>>
        BY <2>1 DEF LoopEnter
      <3> QED
        BY <1>4, <1>5, <3>1, PendingStays, PartsStay DEF TypeInv
    <2>2. CASE list[c] # None
      <3> DEFINE conv == Edited(list[c], turn.id, Generating)
                 b == [kind |-> "loop", l |-> l]
      <3>1. conv \in Conversation
        BY <1>0, <2>2, ConversationsMade DEF TypeInv, MemoryT, ItemsT
      <3>2. Put(m, c, conv) /\ writes' = Save(c, conv, b)
        BY <2>2 DEF LoopEnter, turn, EnteredTurn
      <3>3. b \in Bys /\ b.kind = "loop" /\ b.l = l
        BY DEF Bys
      <3> HIDE DEF conv, b
      <3>4. MemoryT'
        BY <1>0, <3>1, <3>2, PutDoes DEF TypeInv
      <3>5. PICK x \in Writes : Saved(x, c, conv, b)
        BY <1>0, <3>1, <3>2, <3>3, SaveDoes
      <3>6. Awaited(b)' /\ ~Awaited(b)
        BY <1>0, <1>2, <2>2, <3>3 DEF Awaited, SavingPcs
      <3> QED
        BY <1>4, <1>5, <3>4, <3>5, <3>6, PendingGrows DEF TypeInv, Awaited, Saved
    <2> QED
      BY <2>1, <2>2
  <1>7. RuntimeT'
    BY <1>0 DEF LoopEnter, TypeInv, RuntimeT
  <1>8. UNCHANGED <<load, disk, asked, used, happened>>
    BY DEF LoopEnter
  <1> QED
    BY <1>4, <1>6, <1>7, <1>8, PartsStay DEF TypeInv, LoopsT

\* A running loop that goes on, or ends, with the conversation and the turn it has.
LEMMA RunGoesOn ==
  ASSUME TypeInv, NEW l \in Loops, NEW p \in LoopPcs \ {"off", "pick"}, Running(l),
         LoopShape', OnlyLoop(l), Stays(l), loop'[l].left = loop[l].left, loop'[l].pc = p, UNCHANGED worker,
         loop[l].pc = "batch" => p = "batch" \/ \A v \in Workers : worker[l][v].pc = "done"
  PROVE  /\ LoopsT' /\ (\A k \in Loops \ {l} : StillWaits(k))
         /\ \A k \in Loops, v \in Workers : WorkerStillWaits(k, v)
PROOF
  <1>1. LoopT(l)'
    BY DEF TypeInv, LoopT, Running, Stays
  <1> QED
    BY <1>1, LoopAloneMoves

\* A run that ends, or hands over to the next conversation, keeps the types.
LEMMA RunEndsKeepsTypes ==
  ASSUME TypeInv, NEW l \in Loops, loop[l].pc \in {"enter", "started", "final", "failing", "quota"},
         NEW p \in {"pick", "ended"}, loop[l].pc = "enter" => p = "pick",
         loop[l].pc # "enter" => p = "ended",
         NEW a, Evict(a), loop' = [loop EXCEPT ![l].pc = p],
         UNCHANGED <<memory, load, active, worker, disk, writes, mine, asked, used, happened>>
  PROVE  TypeInv'
PROOF
  <1>1. /\ LoopShape' /\ OnlyLoop(l) /\ Stays(l) /\ loop'[l].left = loop[l].left /\ loop'[l].pc = p
    BY PcDoes DEF TypeInv
  <1>2. LoopT(l)'
    BY <1>1 DEF TypeInv, LoopT, LoopPcs, Running, Stays
  <1>3. /\ LoopsT' /\ (\A k \in Loops \ {l} : StillWaits(k))
        /\ \A k \in Loops, v \in Workers : WorkerStillWaits(k, v)
    BY <1>1, <1>2, LoopAloneMoves
  <1>4. \A k \in Loops : StillWaits(k)
    BY <1>3 DEF StillWaits, SavingPcs
  <1>5. PendingT'
    BY <1>3, <1>4, PendingStays DEF TypeInv
  <1>6. RuntimeT'
    BY EvictKeeps DEF TypeInv
  <1> QED
    BY <1>3, <1>5, <1>6, PartsStay DEF TypeInv, LoopsT

\* LoopTurnedAway, LoopQuota and LoopDisowned keep the types.
LEMMA AwayQuotaDisownedKeepTypes ==
  ASSUME TypeInv, NEW l \in Loops, LoopTurnedAway(l) \/ LoopQuota(l) \/ LoopDisowned(l)
  PROVE  TypeInv'
PROOF
  <1>1. CASE LoopTurnedAway(l)
    BY <1>1, RunEndsKeepsTypes DEF LoopTurnedAway
  <1>2. CASE LoopQuota(l)
    BY <1>2, RunEndsKeepsTypes DEF LoopQuota
  <1>3. CASE LoopDisowned(l)
    BY <1>3, RunEndsKeepsTypes DEF LoopDisowned
  <1> QED
    BY <1>1, <1>2, <1>3

\* What a loop has after the end of a run.
LEMMA EndSets ==
  ASSUME Shape, NEW l \in Loops, LoopEnd(l)
  PROVE  /\ LoopShape' /\ OnlyLoop(l)
         /\ loop'[l].pc = (IF loop[l].thrown THEN "off" ELSE "pick")
         /\ ~loop[l].thrown => loop'[l].mount = loop[l].mount
         /\ loop'[l].left = {} /\ loop'[l].broken = FALSE
PROOF
  <1> DEFINE r == IF loop[l].thrown THEN Off ELSE [Off EXCEPT !.pc = "pick", !.mount = loop[l].mount]
  <1>1. loop' = [loop EXCEPT ![l] = r]
    BY DEF LoopEnd
  <1>2. /\ DOMAIN r = LoopFields /\ r.pc = (IF loop[l].thrown THEN "off" ELSE "pick")
        /\ ~loop[l].thrown => r.mount = loop[l].mount
        /\ r.left = {} /\ r.broken = FALSE
    BY OffIs
  <1> HIDE DEF r
  <1> QED
    BY <1>1, <1>2, RecordDoes

\* LoopEnd keeps the types.
LEMMA EndKeepsTypes ==
  ASSUME TypeInv, NEW l \in Loops, LoopEnd(l)
  PROVE  TypeInv'
PROOF
  <1>0. /\ loop[l].pc = "ended" /\ loop[l].conv \in Convs /\ loop[l].mount \in Mounts
        /\ UNCHANGED <<memory, load, live, worker, disk, writes, mine, asked, used, happened>>
    BY DEF TypeInv, LoopEnd, LoopT
  <1>1. /\ LoopShape' /\ OnlyLoop(l)
        /\ loop'[l].pc = (IF loop[l].thrown THEN "off" ELSE "pick")
        /\ ~loop[l].thrown => loop'[l].mount = loop[l].mount
        /\ loop'[l].left = {}
    BY EndSets DEF TypeInv
  <1>2. LoopT(l)'
    BY <1>0, <1>1 DEF LoopT, LoopPcs, Running
  <1>3. /\ LoopsT' /\ (\A k \in Loops \ {l} : StillWaits(k))
        /\ \A k \in Loops, v \in Workers : WorkerStillWaits(k, v)
    BY <1>0, <1>1, <1>2, LoopAloneMoves
  <1>4. \A k \in Loops : StillWaits(k)
    BY <1>0, <1>3 DEF StillWaits, SavingPcs
  <1>5. PendingT'
    BY <1>0, <1>3, <1>4, PendingStays DEF TypeInv
  <1>6. RuntimeT'
    <2>1. /\ control' = [control EXCEPT ![loop[l].conv] = IF control[loop[l].conv] = l THEN None ELSE control[loop[l].conv]]
          /\ active' = active \ {loop[l].conv} /\ aborted' = aborted \ {l}
          /\ draining' = (draining /\ ~loop[l].thrown)
      BY DEF LoopEnd
    <2>2. draining' \in BOOLEAN
      BY <2>1
    <2> QED
      BY <1>0, <2>1, <2>2 DEF TypeInv, RuntimeT
  <1> QED
    BY <1>0, <1>3, <1>5, <1>6, PartsStay DEF TypeInv, LoopsT

\* The workers of a batch ask.
LEMMA BatchDoes ==
  ASSUME Shape, NEW l \in Loops, LoopBatch(l)
  PROVE  /\ LoopShape' /\ OnlyLoop(l) /\ Stays(l) /\ loop'[l].left = loop[l].left /\ loop'[l].pc = "batch"
         /\ loop'[l].thrown = loop[l].thrown /\ loop'[l].broken = loop[l].broken
         /\ WorkerShape' /\ \A k \in Loops \ {l}, v \in Workers : worker'[k][v] = worker[k][v]
         /\ \A v \in Workers : worker'[l][v].pc = "ask"
PROOF
  <1> DEFINE r == [Resting EXCEPT !.pc = "ask", !.asking = Asking(l)]
  <1>1. loop' = [loop EXCEPT ![l].pc = "batch"] /\ worker' = [worker EXCEPT ![l] = [w \in Workers |-> r]]
    BY DEF LoopBatch
  <1>2. DOMAIN r = WorkerFields /\ r.pc = "ask"
    BY RestingIs
  <1> HIDE DEF r
  <1>3. /\ WorkerShape' /\ \A k \in Loops \ {l}, v \in Workers : worker'[k][v] = worker[k][v]
        /\ \A v \in Workers : worker'[l][v].pc = "ask"
    BY <1>1, <1>2 DEF Shape, WorkerShape
  <1> QED
    BY <1>1, <1>3, PcDoes

\* LoopBatch keeps the types.
LEMMA BatchKeepsTypes ==
  ASSUME TypeInv, NEW l \in Loops, LoopBatch(l)
  PROVE  TypeInv'
PROOF
  <1>0. /\ loop[l].pc = "started"
        /\ UNCHANGED <<memory, load, runtime, active, disk, writes, mine, asked, used, happened>>
    BY DEF LoopBatch
  <1>1. /\ LoopShape' /\ OnlyLoop(l) /\ Stays(l) /\ loop'[l].left = loop[l].left /\ loop'[l].pc = "batch"
        /\ WorkerShape' /\ \A k \in Loops \ {l}, v \in Workers : worker'[k][v] = worker[k][v]
        /\ \A v \in Workers : worker'[l][v].pc = "ask"
    BY BatchDoes DEF TypeInv
  <1>2. LoopT(l)' /\ \A v \in Workers : WorkerT(l, v)'
    BY <1>0, <1>1 DEF TypeInv, LoopT, LoopPcs, Running, Stays, WorkerT
  <1>3. /\ LoopsT' /\ (\A k \in Loops \ {l} : StillWaits(k))
        /\ \A k \in Loops \ {l}, v \in Workers : WorkerStillWaits(k, v)
    BY <1>1, <1>2, OneLoopMoves DEF OneLoop
  <1>4. StillWaits(l) /\ \A v \in Workers : WorkerStillWaits(l, v)
    <2>1. \A v \in Workers : worker[l][v].pc = "done"
      BY <1>0 DEF TypeInv, WorkerT
    <2> QED
      BY <1>0, <2>1 DEF StillWaits, SavingPcs, WorkerStillWaits
  <1>5. PendingT'
    BY <1>0, <1>3, <1>4, PendingStays DEF TypeInv
  <1> QED
    BY <1>0, <1>3, <1>5, PartsStay DEF TypeInv, LoopsT

\* LoopJoin keeps the types.
LEMMA JoinKeepsTypes ==
  ASSUME TypeInv, NEW l \in Loops, LoopJoin(l)
  PROVE  TypeInv'
PROOF
  <1> DEFINE c == loop[l].conv
             conv == Edited(list[c], loop[l].turn, Cancelled)
  <1>0. /\ loop[l].pc = "batch" /\ (\A v \in Workers : worker[l][v].pc = "done") /\ c \in Convs
        /\ UNCHANGED <<load, runtime, active, worker, disk, writes, mine, asked, used, happened>>
    BY DEF TypeInv, LoopJoin, LoopT
  <1>1. \E p \in {"ended", "failing", "final"} :
           /\ LoopShape' /\ OnlyLoop(l) /\ Stays(l) /\ loop'[l].left = loop[l].left /\ loop'[l].pc = p
    <2>1. \/ \E p \in {"failing", "final"} : At(l, p)
          \/ loop' = [loop EXCEPT ![l].pc = "ended"]
      BY DEF LoopJoin
    <2> QED
      BY <2>1, AtDoes, PcDoes DEF TypeInv
  <1>2. /\ LoopsT' /\ (\A k \in Loops \ {l} : StillWaits(k))
        /\ \A k \in Loops, v \in Workers : WorkerStillWaits(k, v)
    BY <1>0, <1>1, RunGoesOn DEF LoopPcs, Running
  <1>3. \A k \in Loops : StillWaits(k)
    BY <1>0, <1>2 DEF StillWaits, SavingPcs
  <1>4. PendingT'
    BY <1>0, <1>2, <1>3, PendingStays DEF TypeInv
  <1>5. MemoryT'
    <2>1. UNCHANGED memory \/ (list[c] # None /\ Put(loop[l].mount, c, conv))
      BY DEF LoopJoin
    <2>2. CASE list[c] # None /\ Put(loop[l].mount, c, conv)
      <3>1. conv \in Conversation
        BY <1>0, <2>2, ConversationsMade DEF TypeInv, MemoryT, ItemsT
      <3> HIDE DEF conv
      <3> QED
        BY <1>0, <2>2, <3>1, PutDoes DEF TypeInv
    <2> QED
      BY <2>1, <2>2, PartsStay
  <1> QED
    BY <1>0, <1>2, <1>4, <1>5, PartsStay DEF TypeInv, LoopsT

\* A turn that is settled, with a conversation that is edited.
SettlesAs(l, pc, next, conv) ==
    LET c == loop[l].conv IN
    /\ Waits /\ loop[l].pc = pc /\ Owns(l)
    /\ IF list[c] = None
       THEN /\ IF pc = "final" THEN At(l, "quota")
               ELSE loop' = [loop EXCEPT ![l].pc = "ended", ![l].thrown = FALSE]
            /\ UNCHANGED <<memory, writes>>
       ELSE /\ Put(loop[l].mount, c, conv)
            /\ writes' = Save(c, conv, [kind |-> "loop", l |-> l])
            /\ loop' = [loop EXCEPT ![l].pc = next, ![l].thrown = FALSE]
    /\ UNCHANGED <<load, runtime, active, worker, disk, mine, asked, used, happened>>

\* The two ways to write the outcome of a turn, LoopFinal and LoopFail, have one form.
LEMMA SettledIs ==
  ASSUME NEW l \in Loops
  PROVE  /\ LoopFinal(l) => SettlesAs(l, "final", "finishing", Edited(list[loop[l].conv], loop[l].turn, Finished))
         /\ LoopFail(l) => SettlesAs(l, "failing", "failed", Edited(list[loop[l].conv], loop[l].turn, Failed))
PROOF
  <1>1. ASSUME LoopFinal(l)
        PROVE  SettlesAs(l, "final", "finishing", Edited(list[loop[l].conv], loop[l].turn, Finished))
    BY <1>1 DEF LoopFinal, SettleTurn, SettlesAs
  <1>2. ASSUME LoopFail(l)
        PROVE  SettlesAs(l, "failing", "failed", Edited(list[loop[l].conv], loop[l].turn, Failed))
    BY <1>2 DEF LoopFail, SettleTurn, SettlesAs
  <1> QED
    BY <1>1, <1>2

\* That form keeps the types.
LEMMA SettledKeepsTypes ==
  ASSUME TypeInv, NEW l \in Loops, NEW pc \in {"final", "failing"}, NEW next \in {"finishing", "failed"},
         NEW conv, list[loop[l].conv] # None => conv \in Conversation, SettlesAs(l, pc, next, conv)
  PROVE  TypeInv'
PROOF
  <1> DEFINE c == loop[l].conv
             b == [kind |-> "loop", l |-> l]
  <1>0. /\ loop[l].pc = pc /\ c \in Convs
        /\ UNCHANGED <<load, runtime, active, worker, disk, mine, asked, used, happened>>
    BY DEF TypeInv, SettlesAs, LoopT
  <1>1. Running(l) /\ loop[l].pc # "batch" /\ StillWaits(l)
    BY <1>0 DEF Running, StillWaits, SavingPcs
  <1>2. CASE list[c] = None
    <2>1. PICK p \in {"quota", "ended"} :
             /\ At(l, p) \/ loop' = [loop EXCEPT ![l].pc = p, ![l].thrown = FALSE]
             /\ UNCHANGED <<memory, writes>>
      BY <1>2 DEF SettlesAs
    <2>2. /\ LoopShape' /\ OnlyLoop(l) /\ Stays(l) /\ loop'[l].left = loop[l].left /\ loop'[l].pc = p
      BY <2>1, AtDoes, PcThrownDoes DEF TypeInv
    <2>3. /\ LoopsT' /\ (\A k \in Loops \ {l} : StillWaits(k))
          /\ \A k \in Loops, v \in Workers : WorkerStillWaits(k, v)
      BY <1>0, <1>1, <2>2, RunGoesOn DEF LoopPcs
    <2>4. PendingT'
      BY <1>1, <2>1, <2>3, PendingStays DEF TypeInv
    <2> QED
      BY <1>0, <2>1, <2>3, <2>4, PartsStay DEF TypeInv, LoopsT
  <1>3. CASE list[c] # None
    <2>1. /\ Put(loop[l].mount, c, conv) /\ writes' = Save(c, conv, b)
          /\ loop' = [loop EXCEPT ![l].pc = next, ![l].thrown = FALSE]
      BY <1>3 DEF SettlesAs
    <2>2. /\ LoopShape' /\ OnlyLoop(l) /\ Stays(l) /\ loop'[l].left = loop[l].left /\ loop'[l].pc = next
      BY <2>1, PcThrownDoes DEF TypeInv
    <2>3. /\ LoopsT' /\ (\A k \in Loops \ {l} : StillWaits(k))
          /\ \A k \in Loops, v \in Workers : WorkerStillWaits(k, v)
      BY <1>0, <1>1, <2>2, RunGoesOn DEF LoopPcs
    <2>4. b \in Bys /\ b.kind = "loop" /\ b.l = l
      BY DEF Bys
    <2> HIDE DEF b
    <2>5. PICK x \in Writes : Saved(x, c, conv, b)
      BY <1>0, <1>3, <2>1, <2>4, SaveDoes
    <2>6. Awaited(b)' /\ ~Awaited(b)
      BY <1>0, <2>2, <2>4 DEF Awaited, SavingPcs
    <2>7. PendingT'
      BY <1>1, <2>3, <2>5, <2>6, PendingGrows DEF TypeInv, Awaited, Saved
    <2>8. MemoryT'
      BY <1>0, <1>3, <2>1, PutDoes DEF TypeInv
    <2> QED
      BY <1>0, <2>3, <2>7, <2>8, PartsStay DEF TypeInv, LoopsT
  <1> QED
    BY <1>2, <1>3

\* So LoopFinal and LoopFail keep the types.
LEMMA FinalFailKeepTypes ==
  ASSUME TypeInv, NEW l \in Loops, LoopFinal(l) \/ LoopFail(l)
  PROVE  TypeInv'
PROOF
  <1> DEFINE c == loop[l].conv
  <1>0. LoopFinal(l) \/ LoopFail(l) => c \in Convs
    BY DEF LoopFinal, LoopFail, SettleTurn, TypeInv, LoopT
  <1>1. list[c] # None => list[c] \in Conversation
    BY <1>0 DEF TypeInv, MemoryT, ItemsT
  <1>2. list[c] # None => /\ Edited(list[c], loop[l].turn, Finished) \in Conversation
                          /\ Edited(list[c], loop[l].turn, Failed) \in Conversation
    BY <1>1, ConversationsMade
  <1> QED
    BY <1>2, SettledIs, SettledKeepsTypes

-----------------------------------------------------------------------------
(* The workers.                                                            *)

\* A worker that is overwritten with a whole record has that record.
LEMMA WorkerRecordDoes ==
  ASSUME Shape, NEW l \in Loops, NEW w \in Workers, NEW r,
         worker' = [worker EXCEPT ![l][w] = r], DOMAIN r = WorkerFields
  PROVE  WorkerShape' /\ OnlyWorker(l, w) /\ worker'[l][w] = r
  BY DEF Shape, WorkerShape, OnlyWorker

\* A loop that is marked while its batch runs.
Marked(l) ==
    /\ LoopShape' /\ OnlyLoop(l) /\ Stays(l) /\ loop'[l].left \subseteq loop[l].left
    /\ loop'[l].pc = loop[l].pc

\* An interrupt only marks a run, as thrown or not, and where it is.
LEMMA InterruptDoes ==
  ASSUME Shape, NEW l \in Loops, Interrupt(l)
  PROVE  Marked(l) /\ loop'[l].thrown = loop[l].thrown /\ loop'[l].broken = loop[l].broken
         /\ loop'[l].left = loop[l].left
  BY DEF Shape, LoopShape, LoopFields, Interrupt, Marked, OnlyLoop, Stays

\* A step that leaves the loops alone marks nothing.
LEMMA UnmarkedToo ==
  ASSUME Shape, NEW l \in Loops, UNCHANGED loop
  PROVE  Marked(l)
  BY DEF Shape, LoopShape, Marked, OnlyLoop, Stays

\* The types stay when one worker of a batch moves and its loop is at most marked.
LEMMA WorkerMoves ==
  ASSUME TypeInv, NEW l \in Loops, NEW w \in Workers, loop[l].pc = "batch", Marked(l),
         WorkerShape', OnlyWorker(l, w), WorkerT(l, w)'
  PROVE  /\ LoopsT' /\ (\A k \in Loops : StillWaits(k))
         /\ \A k \in Loops, v \in Workers : k # l \/ v # w => WorkerStillWaits(k, v)
PROOF
  <1>1. LoopT(l)' /\ StillWaits(l)
    BY DEF TypeInv, LoopT, Running, Marked, Stays, StillWaits
  <1>2. \A v \in Workers : WorkerT(l, v)'
    BY DEF TypeInv, WorkerT, Marked, OnlyWorker
  <1>3. OneLoop(l)
    BY DEF OneLoop, Marked, OnlyWorker
  <1>4. \A v \in Workers : v # w => WorkerStillWaits(l, v)
    BY DEF OnlyWorker, WorkerStillWaits
  <1> QED
    BY <1>1, <1>2, <1>3, <1>4, OneLoopMoves

\* What the step of a worker keeps that saves nothing and shows nothing.
LEMMA QuietWorkerKeepsTypes ==
  ASSUME TypeInv, NEW l \in Loops, NEW w \in Workers, loop[l].pc = "batch", Marked(l),
         WorkerShape', OnlyWorker(l, w), WorkerT(l, w)', worker[l][w].pc # "saving",
         MemoryT', RuntimeT', CountsT', UNCHANGED <<load, disk, writes>>
  PROVE  TypeInv'
PROOF
  <1>1. LoopsT' /\ (\A k \in Loops : StillWaits(k)) /\ \A k \in Loops, v \in Workers : WorkerStillWaits(k, v)
    BY WorkerMoves DEF WorkerStillWaits
  <1>2. PendingT'
    BY <1>1, PendingStays DEF TypeInv
  <1> QED
    BY <1>1, <1>2, PartsStay DEF TypeInv, LoopsT

\* A worker that has something to do is in the batch of a loop that runs, on a mount.
LEMMA InBatch ==
  ASSUME TypeInv, NEW l \in Loops, NEW w \in Workers, worker[l][w].pc # "done"
  PROVE  /\ loop[l].pc = "batch" /\ Running(l) /\ loop[l].mount \in Mounts
         /\ loop[l].conv \in Convs /\ loop[l].turn \in Turns
  BY DEF TypeInv, WorkerT, LoopT, Running

\* The image that a worker requests next.
NextImage(l) == CHOOSE x \in loop[l].left : \A y \in loop[l].left : x <= y

\* The next image is one of those that are left.
LEMMA NextImageIs ==
  ASSUME TypeInv, NEW l \in Loops, loop[l].left # {}
  PROVE  NextImage(l) \in loop[l].left /\ NextImage(l) \in Images
PROOF
  <1>1. loop[l].left \subseteq Images /\ loop[l].left \in SUBSET Nat
    BY QueueAssumption DEF TypeInv, LoopT
  <1>2. \E x \in loop[l].left : \A y \in loop[l].left : x <= y
    BY <1>1, LeastOf
  <1> QED
    BY <1>1, <1>2 DEF NextImage

\* A worker that takes an image, and one that finds none.
Takes(l, w) ==
    /\ loop[l].left # {}
    /\ loop' = [loop EXCEPT ![l].left = @ \ {NextImage(l)}]
    /\ worker' = [worker EXCEPT ![l][w] = [Resting EXCEPT !.pc = "request", !.img = NextImage(l)]]
    /\ asked' = [asked EXCEPT ![loop[l].turn][NextImage(l)] = @ + 1]
FindsNone(l, w) ==
    loop[l].left = {} /\ worker' = [worker EXCEPT ![l][w] = Resting] /\ UNCHANGED <<loop, asked>>

\* A worker that looks for an image takes the next, finds none, or is turned away.
LEMMA TakeIs ==
  ASSUME NEW l \in Loops, NEW w \in Workers, WorkerTake(l, w)
  PROVE  /\ worker[l][w].pc = "ask" /\ Continues(l, w)
         /\ Takes(l, w) \/ FindsNone(l, w)
         /\ UNCHANGED <<memory, load, runtime, active, disk, writes, mine, used, happened>>
  BY DEF WorkerTake, Takes, FindsNone, NextImage

\* What taking an image does to the loop and to the worker.
LEMMA TakesDoes ==
  ASSUME TypeInv, NEW l \in Loops, NEW w \in Workers, Takes(l, w)
  PROVE  /\ Marked(l) /\ loop'[l].left = loop[l].left \ {NextImage(l)}
         /\ loop'[l].thrown = loop[l].thrown /\ loop'[l].broken = loop[l].broken
         /\ WorkerShape' /\ OnlyWorker(l, w)
         /\ worker'[l][w].pc = "request" /\ worker'[l][w].img = NextImage(l) /\ worker'[l][w].ver = 0
PROOF
  <1> DEFINE r == [Resting EXCEPT !.pc = "request", !.img = NextImage(l)]
             s == loop[l].left \ {NextImage(l)}
  <1>1. loop' = [loop EXCEPT ![l].left = s] /\ worker' = [worker EXCEPT ![l][w] = r]
    BY DEF Takes
  <1>2. DOMAIN r = WorkerFields /\ r.pc = "request" /\ r.img = NextImage(l) /\ r.ver = 0
    BY RestingIs
  <1>3. s \subseteq loop[l].left
    OBVIOUS
  <1> HIDE DEF r, s
  <1>4. WorkerShape' /\ OnlyWorker(l, w) /\ worker'[l][w] = r
    BY <1>1, <1>2, WorkerRecordDoes DEF TypeInv
  <1>5. /\ Marked(l) /\ loop'[l].left = s /\ loop'[l].thrown = loop[l].thrown /\ loop'[l].broken = loop[l].broken
    BY <1>1, <1>3 DEF TypeInv, Shape, LoopShape, LoopFields, Marked, OnlyLoop, Stays
  <1> QED
    BY <1>2, <1>4, <1>5 DEF s

\* WorkerTake keeps the types.
LEMMA TakeKeepsTypes ==
  ASSUME TypeInv, NEW l \in Loops, NEW w \in Workers, WorkerTake(l, w)
  PROVE  TypeInv'
PROOF
  <1>0. /\ worker[l][w].pc = "ask" /\ (Takes(l, w) \/ FindsNone(l, w))
        /\ UNCHANGED <<memory, load, runtime, active, disk, writes, mine, used, happened>>
    BY TakeIs
  <1>1. loop[l].pc = "batch" /\ loop[l].turn \in Turns
    BY <1>0, InBatch
  <1>2. MemoryT' /\ RuntimeT'
    BY <1>0, PartsStay
  <1>3. CASE FindsNone(l, w)
    <2>1. Marked(l) /\ CountsT'
      BY <1>0, <1>3, UnmarkedToo DEF TypeInv, FindsNone, CountsT
    <2>2. WorkerShape' /\ OnlyWorker(l, w) /\ worker'[l][w] = Resting
      <3>1. DOMAIN Resting = WorkerFields
        BY RestingIs
      <3> QED
        BY <1>3, <3>1, WorkerRecordDoes DEF TypeInv, FindsNone
    <2>3. WorkerT(l, w)'
      BY <2>2, RestingIs DEF WorkerT
    <2> QED
      BY <1>0, <1>1, <1>2, <2>1, <2>2, <2>3, QuietWorkerKeepsTypes
  <1>4. CASE Takes(l, w)
    <2>1. /\ Marked(l) /\ WorkerShape' /\ OnlyWorker(l, w) /\ worker'[l][w].pc = "request"
      BY <1>4, TakesDoes
    <2>2. WorkerT(l, w)'
      BY <1>1, <2>1 DEF WorkerT, Marked
    <2>3. NextImage(l) \in Images
      BY <1>4, NextImageIs DEF Takes
    <2>4. CountsT'
      BY <1>0, <1>1, <1>4, <2>3 DEF TypeInv, CountsT, Takes
    <2> QED
      BY <1>0, <1>1, <1>2, <2>1, <2>2, <2>4, QuietWorkerKeepsTypes
  <1> QED
    BY <1>0, <1>3, <1>4

\* What stopping does to the loop and to the worker.
LEMMA StopDoes ==
  ASSUME Shape, NEW l \in Loops, NEW w \in Workers, WorkerStop(l, w)
  PROVE  /\ Marked(l) /\ loop'[l].thrown = loop[l].thrown /\ loop'[l].broken = loop[l].broken
         /\ loop'[l].left = loop[l].left
         /\ WorkerShape' /\ OnlyWorker(l, w) /\ worker'[l][w].pc \in {"done", "ask"}
PROOF
  <1> DEFINE r == IF worker[l][w].pc = "ask" THEN Resting ELSE [Resting EXCEPT !.pc = "ask", !.asking = Asking(l)]
  <1>1. Interrupt(l) /\ worker' = [worker EXCEPT ![l][w] = r]
    BY DEF WorkerStop
  <1>2. DOMAIN r = WorkerFields /\ r.pc \in {"done", "ask"}
    BY RestingIs
  <1> HIDE DEF r
  <1>3. WorkerShape' /\ OnlyWorker(l, w) /\ worker'[l][w] = r
    BY <1>1, <1>2, WorkerRecordDoes
  <1> QED
    BY <1>1, <1>2, <1>3, InterruptDoes

\* WorkerStop keeps the types.
LEMMA StopKeepsTypes ==
  ASSUME TypeInv, NEW l \in Loops, NEW w \in Workers, WorkerStop(l, w)
  PROVE  TypeInv'
PROOF
  <1>0. /\ worker[l][w].pc \in {"ask", "answered"} /\ Evict(worker[l][w].asking = "yes")
        /\ UNCHANGED <<memory, load, active, disk, writes, mine, asked, used, happened>>
    BY DEF WorkerStop
  <1>1. loop[l].pc = "batch"
    BY <1>0, InBatch
  <1>2. /\ Marked(l) /\ WorkerShape' /\ OnlyWorker(l, w) /\ worker'[l][w].pc \in {"done", "ask"}
    BY StopDoes DEF TypeInv
  <1>3. WorkerT(l, w)'
    BY <1>1, <1>2 DEF WorkerT, Marked
  <1>4. MemoryT' /\ CountsT'
    BY <1>0, PartsStay
  <1>5. RuntimeT'
    BY <1>0, EvictKeeps DEF TypeInv
  <1> QED
    BY <1>0, <1>1, <1>2, <1>3, <1>4, <1>5, QuietWorkerKeepsTypes

\* What an answer does to the worker.
LEMMA AnsweredDoes ==
  ASSUME Shape, NEW l \in Loops, NEW w \in Workers, WorkerAnswered(l, w)
  PROVE  /\ WorkerShape' /\ OnlyWorker(l, w) /\ worker'[l][w].pc = "answered"
         /\ worker'[l][w].out \in {"success", "error"}
         /\ worker'[l][w].img = worker[l][w].img /\ worker'[l][w].ver = worker[l][w].ver
PROOF
  <1>1. PICK out \in {"success", "error"} :
           worker' = [worker EXCEPT ![l][w] = [@ EXCEPT !.pc = "answered", !.out = out, !.asking = Asking(l)]]
    BY DEF WorkerAnswered
  <1> DEFINE r == [worker[l][w] EXCEPT !.pc = "answered", !.out = out, !.asking = Asking(l)]
  <1>2. worker' = [worker EXCEPT ![l][w] = r]
    BY <1>1 DEF Shape, WorkerShape
  <1>3. /\ DOMAIN r = WorkerFields /\ r.pc = "answered" /\ r.out = out
        /\ r.img = worker[l][w].img /\ r.ver = worker[l][w].ver
    BY DEF Shape, WorkerShape, WorkerFields
  <1> HIDE DEF r
  <1>4. WorkerShape' /\ OnlyWorker(l, w) /\ worker'[l][w] = r
    BY <1>2, <1>3, WorkerRecordDoes
  <1> QED
    BY <1>3, <1>4

\* WorkerAnswered keeps the types.
LEMMA AnsweredKeepsTypes ==
  ASSUME TypeInv, NEW l \in Loops, NEW w \in Workers, WorkerAnswered(l, w)
  PROVE  TypeInv'
PROOF
  <1>0. /\ worker[l][w].pc = "request"
        /\ UNCHANGED <<memory, load, runtime, active, loop, disk, writes, mine, asked, used, happened>>
    BY DEF WorkerAnswered
  <1>1. loop[l].pc = "batch"
    BY <1>0, InBatch
  <1>2. /\ Marked(l) /\ WorkerShape' /\ OnlyWorker(l, w) /\ worker'[l][w].pc = "answered"
        /\ worker'[l][w].out \in {"success", "error"}
    BY <1>0, AnsweredDoes, UnmarkedToo DEF TypeInv
  <1>3. WorkerT(l, w)'
    BY <1>0, <1>1, <1>2 DEF WorkerT, Marked
  <1>4. MemoryT' /\ CountsT' /\ RuntimeT'
    BY <1>0, PartsStay
  <1> QED
    BY <1>0, <1>1, <1>2, <1>3, <1>4, QuietWorkerKeepsTypes
\* The conversation with the answer that a worker holds.
WithAnswer(l, w) ==
    LET SetImage(turn) == [turn EXCEPT !.img[worker[l][w].img] = worker[l][w].out]
    IN  Edited(list[loop[l].conv], loop[l].turn, SetImage)

\* A conversation with an answer put in is a conversation.
LEMMA WithAnswerIs ==
  ASSUME TypeInv, NEW l \in Loops, NEW w \in Workers, worker[l][w].pc = "answered", Pending(l, w)
  PROVE  /\ list[loop[l].conv] \in Conversation /\ WithAnswer(l, w) \in Conversation
         /\ WithAnswer(l, w).ver = list[loop[l].conv].ver + 1
PROOF
  <1> DEFINE conv == list[loop[l].conv]
             ts == [k \in DOMAIN conv.turns |->
                      IF conv.turns[k].id = loop[l].turn
                      THEN [conv.turns[k] EXCEPT !.img[worker[l][w].img] = worker[l][w].out]
                      ELSE conv.turns[k]]
  <1>1. conv \in Conversation
    BY InBatch DEF Pending, Has, TypeInv, MemoryT, ItemsT
  <1>2. WithAnswer(l, w) = [ver |-> conv.ver + 1, turns |-> ts]
    BY DEF WithAnswer, Edited
  <1>3. \A k \in DOMAIN conv.turns : conv.turns[k] \in Turn
    BY <1>1 DEF Conversation
  <1>4. worker[l][w].out \in {"success", "error"}
    BY DEF TypeInv, WorkerT
  <1>5. \A k \in DOMAIN conv.turns : ts[k] \in Turn
    BY <1>3, <1>4, ImageSet
  <1>6. conv.ver + 1 \in Nat /\ ts = [k \in DOMAIN conv.turns |-> ts[k]]
    BY <1>1 DEF Conversation
  <1> HIDE DEF ts
  <1>7. [ver |-> conv.ver + 1, turns |-> ts] \in Conversation
    BY <1>1, <1>5, <1>6, MadeConversation
  <1> QED
    BY <1>1, <1>2, <1>7

\* What putting an answer in does to the screen and to the worker.
LEMMA AnswerPutDoes ==
  ASSUME Shape, NEW l \in Loops, NEW w \in Workers, WorkerPut(l, w)
  PROVE  /\ worker[l][w].pc = "answered" /\ Continues(l, w) /\ Pending(l, w)
         /\ Put(loop[l].mount, loop[l].conv, WithAnswer(l, w))
         /\ UNCHANGED <<load, runtime, active, loop, disk, writes, mine, asked, used, happened>>
         /\ WorkerShape' /\ OnlyWorker(l, w) /\ worker'[l][w].pc = "chained"
         /\ worker'[l][w].ver = WithAnswer(l, w).ver
         /\ worker'[l][w].out = worker[l][w].out
PROOF
  <1> DEFINE v == WithAnswer(l, w).ver
             r == [worker[l][w] EXCEPT !.pc = "chained"]
             s == [r EXCEPT !.ver = v]
  <1>1. /\ worker[l][w].pc = "answered" /\ Continues(l, w) /\ Pending(l, w)
        /\ Put(loop[l].mount, loop[l].conv, WithAnswer(l, w))
        /\ worker' = [worker EXCEPT ![l][w].pc = "chained", ![l][w].ver = v]
        /\ UNCHANGED <<load, runtime, active, loop, disk, writes, mine, asked, used, happened>>
    BY DEF WorkerPut, WithAnswer
  <1> HIDE DEF v
  <1>2. worker' = [worker EXCEPT ![l][w] = s]
    BY <1>1 DEF Shape, WorkerShape
  <1>3. DOMAIN s = WorkerFields /\ s.pc = "chained" /\ s.ver = v /\ s.out = worker[l][w].out
    BY DEF Shape, WorkerShape, WorkerFields
  <1> HIDE DEF s
  <1>4. WorkerShape' /\ OnlyWorker(l, w) /\ worker'[l][w] = s
    BY <1>2, <1>3, WorkerRecordDoes
  <1> QED
    BY <1>1, <1>3, <1>4 DEF v

\* WorkerPut keeps the types.
LEMMA AnswerPutKeepsTypes ==
  ASSUME TypeInv, NEW l \in Loops, NEW w \in Workers, WorkerPut(l, w)
  PROVE  TypeInv'
PROOF
  <1>0. /\ worker[l][w].pc = "answered" /\ Pending(l, w)
        /\ Put(loop[l].mount, loop[l].conv, WithAnswer(l, w))
        /\ UNCHANGED <<load, runtime, active, loop, disk, writes, mine, asked, used, happened>>
        /\ WorkerShape' /\ OnlyWorker(l, w) /\ worker'[l][w].pc = "chained"
    BY AnswerPutDoes DEF TypeInv
  <1>1. loop[l].pc = "batch" /\ loop[l].conv \in Convs
    BY <1>0, InBatch
  <1>2. Marked(l)
    BY <1>0, UnmarkedToo DEF TypeInv
  <1>3. WorkerT(l, w)'
    BY <1>0, <1>1, <1>2 DEF WorkerT, Marked
  <1>4. CountsT' /\ RuntimeT'
    BY <1>0, PartsStay
  <1>5. MemoryT'
    <2>1. WithAnswer(l, w) \in Conversation
      BY <1>0, WithAnswerIs
    <2> QED
      BY <1>0, <1>1, <2>1, PutDoes DEF TypeInv
  <1> QED
    BY <1>0, <1>1, <1>2, <1>3, <1>4, <1>5, QuietWorkerKeepsTypes

\* WorkerLate keeps the types.
LEMMA LateKeepsTypes ==
  ASSUME TypeInv, NEW l \in Loops, NEW w \in Workers, WorkerLate(l, w)
  PROVE  TypeInv'
PROOF
  <1>0. /\ worker[l][w].pc = "answered" /\ Interrupt(l) /\ Step(l, w, "ask")
        /\ UNCHANGED <<memory, load, runtime, active, disk, writes, mine, asked, used, happened>>
    BY DEF WorkerLate
  <1>1. loop[l].pc = "batch"
    BY <1>0, InBatch
  <1>2. Marked(l) /\ WorkerShape' /\ OnlyWorker(l, w) /\ worker'[l][w].pc = "ask"
    BY <1>0, InterruptDoes, StepDoes DEF TypeInv
  <1>3. WorkerT(l, w)'
    BY <1>1, <1>2 DEF WorkerT, Marked
  <1>4. MemoryT' /\ CountsT' /\ RuntimeT'
    BY <1>0, PartsStay
  <1> QED
    BY <1>0, <1>1, <1>2, <1>3, <1>4, QuietWorkerKeepsTypes

\* What a save that failed does to the worker that waited for it.
LEMMA SaveFailedDoes ==
  ASSUME Shape, NEW l \in Loops, NEW w \in Workers, SaveFailed(l, w)
  PROVE  /\ Marked(l) /\ loop'[l].broken = TRUE /\ loop'[l].left = loop[l].left
         /\ WorkerShape' /\ OnlyWorker(l, w)
         /\ worker[l][w].out = "success" => worker'[l][w].pc = "ask" /\ loop'[l].thrown = loop[l].thrown
         /\ worker[l][w].out # "success" => worker'[l][w].pc = "done" /\ loop'[l].thrown = TRUE
PROOF
  <1>1. CASE worker[l][w].out = "success"
    <2>1. /\ loop' = [loop EXCEPT ![l].broken = TRUE, ![l].interrupted = TRUE] /\ Step(l, w, "ask")
      BY <1>1 DEF SaveFailed
    <2>2. Marked(l) /\ loop'[l].broken = TRUE /\ loop'[l].left = loop[l].left /\ loop'[l].thrown = loop[l].thrown
      BY <2>1 DEF Shape, LoopShape, LoopFields, Marked, OnlyLoop, Stays
    <2> QED
      BY <1>1, <2>1, <2>2, StepDoes
  <1>2. CASE worker[l][w].out # "success"
    <2>1. /\ loop' = [loop EXCEPT ![l].broken = TRUE, ![l].thrown = TRUE]
          /\ worker' = [worker EXCEPT ![l][w] = Resting]
      BY <1>2 DEF SaveFailed
    <2>2. Marked(l) /\ loop'[l].broken = TRUE /\ loop'[l].left = loop[l].left /\ loop'[l].thrown = TRUE
      BY <2>1 DEF Shape, LoopShape, LoopFields, Marked, OnlyLoop, Stays
    <2>3. DOMAIN Resting = WorkerFields /\ Resting.pc = "done"
      BY RestingIs
    <2> QED
      BY <1>2, <2>1, <2>2, <2>3, WorkerRecordDoes
  <1> QED
    BY <1>1, <1>2

\* WorkerChainBroken keeps the types.
LEMMA ChainBrokenKeepsTypes ==
  ASSUME TypeInv, NEW l \in Loops, NEW w \in Workers, WorkerChainBroken(l, w)
  PROVE  TypeInv'
PROOF
  <1>0. /\ worker[l][w].pc = "chained" /\ SaveFailed(l, w)
        /\ UNCHANGED <<memory, load, runtime, active, disk, writes, mine, asked, used, happened>>
    BY DEF WorkerChainBroken
  <1>1. loop[l].pc = "batch"
    BY <1>0, InBatch
  <1>2. Marked(l) /\ WorkerShape' /\ OnlyWorker(l, w) /\ worker'[l][w].pc \in {"ask", "done"}
    BY <1>0, SaveFailedDoes DEF TypeInv
  <1>3. WorkerT(l, w)'
    BY <1>1, <1>2 DEF WorkerT, Marked
  <1>4. MemoryT' /\ CountsT' /\ RuntimeT'
    BY <1>0, PartsStay
  <1> QED
    BY <1>0, <1>1, <1>2, <1>3, <1>4, QuietWorkerKeepsTypes

\* A worker that saves the conversation, and one that finds it replaced.
Saves(l, w) ==
    LET c == loop[l].conv IN
    /\ list[c] # None /\ list[c].ver = worker[l][w].ver
    /\ writes' = Save(c, list[c], [kind |-> "worker", l |-> l, w |-> w])
    /\ worker' = [worker EXCEPT ![l][w].pc = "saving"]
FindsReplaced(l, w) ==
    /\ list[loop[l].conv] = None \/ list[loop[l].conv].ver # worker[l][w].ver
    /\ Step(l, w, "ask") /\ UNCHANGED writes

\* A worker that saves is first in the chain of saves and appends one write.
LEMMA SaveIs ==
  ASSUME NEW l \in Loops, NEW w \in Workers, WorkerSave(l, w)
  PROVE  /\ worker[l][w].pc = "chained" /\ ~loop[l].broken /\ \A v \in Workers : worker[l][v].pc # "saving"
         /\ Saves(l, w) \/ FindsReplaced(l, w)
         /\ UNCHANGED <<memory, load, runtime, active, loop, disk, mine, asked, used, happened>>
  BY DEF WorkerSave, Saves, FindsReplaced

\* What it changes of itself.
LEMMA SavingDoes ==
  ASSUME Shape, NEW l \in Loops, NEW w \in Workers, worker' = [worker EXCEPT ![l][w].pc = "saving"]
  PROVE  /\ WorkerShape' /\ OnlyWorker(l, w) /\ worker'[l][w].pc = "saving"
         /\ worker'[l][w].ver = worker[l][w].ver /\ worker'[l][w].out = worker[l][w].out
  BY DEF Shape, WorkerShape, WorkerFields, OnlyWorker

\* WorkerSave keeps the types.
LEMMA WorkerSaveKeepsTypes ==
  ASSUME TypeInv, NEW l \in Loops, NEW w \in Workers, WorkerSave(l, w)
  PROVE  TypeInv'
PROOF
  <1> DEFINE b == [kind |-> "worker", l |-> l, w |-> w]
             c == loop[l].conv
  <1>0. /\ worker[l][w].pc = "chained" /\ (Saves(l, w) \/ FindsReplaced(l, w))
        /\ UNCHANGED <<memory, load, runtime, active, loop, disk, mine, asked, used, happened>>
    BY SaveIs
  <1>1. loop[l].pc = "batch" /\ c \in Convs
    BY <1>0, InBatch
  <1>2. Marked(l)
    BY <1>0, UnmarkedToo DEF TypeInv
  <1>3. MemoryT' /\ CountsT' /\ RuntimeT' /\ LoadT' /\ DiskT'
    BY <1>0, PartsStay
  <1>4. CASE FindsReplaced(l, w)
    <2>1. WorkerShape' /\ OnlyWorker(l, w) /\ worker'[l][w].pc = "ask"
      BY <1>4, StepDoes DEF TypeInv, FindsReplaced
    <2>2. WorkerT(l, w)'
      BY <1>1, <1>2, <2>1 DEF WorkerT, Marked
    <2> QED
      BY <1>0, <1>1, <1>2, <1>3, <1>4, <2>1, <2>2, QuietWorkerKeepsTypes DEF FindsReplaced
  <1>5. CASE Saves(l, w)
    <2>1. list[c] \in Conversation /\ writes' = Save(c, list[c], b)
          /\ worker' = [worker EXCEPT ![l][w].pc = "saving"]
      BY <1>1, <1>5 DEF Saves, TypeInv, MemoryT, ItemsT
    <2>2. WorkerShape' /\ OnlyWorker(l, w) /\ worker'[l][w].pc = "saving"
      BY <2>1, SavingDoes DEF TypeInv
    <2>3. WorkerT(l, w)' /\ WorkerStillWaits(l, w)
      BY <1>0, <1>1, <1>2, <2>2 DEF WorkerT, Marked, WorkerStillWaits
    <2>4. LoopsT' /\ (\A k \in Loops : StillWaits(k)) /\ \A k \in Loops, v \in Workers : WorkerStillWaits(k, v)
      BY <1>1, <1>2, <2>2, <2>3, WorkerMoves
    <2>5. b \in Bys /\ b.kind = "worker" /\ b.l = l /\ b.w = w
      BY DEF Bys
    <2> HIDE DEF b
    <2>6. PICK x \in Writes : Saved(x, c, list[c], b)
      BY <1>1, <2>1, <2>5, SaveDoes
    <2>7. Awaited(b)' /\ ~Awaited(b)
      BY <1>0, <2>2, <2>5 DEF Awaited
    <2>8. PendingT'
      BY <2>4, <2>6, <2>7, PendingGrows DEF TypeInv, Awaited, Saved
    <2> QED
      BY <1>3, <2>4, <2>8 DEF TypeInv, LoopsT
  <1> QED
    BY <1>0, <1>4, <1>5
-----------------------------------------------------------------------------
(* The store.                                                              *)

\* A write that is carried out, or that fails half-way, keeps the types of the store.
LEMMA StoreTypes ==
  ASSUME DiskT, NEW x \in Writes
  PROVE  /\ Ok(x) => DiskT'
         /\ Broken(x) => DiskT'
PROOF
  <1>0. x.op \in {"save", "all", "delete", "clear"} /\ x.items \in ItemsT /\ (x.op = "delete" => x.conv \in Convs)
    BY WriteIs
  <1>1. \A c \in Convs : Merged(c, x.items[c]) \in Conversation \cup {None}
    BY <1>0 DEF DiskT, ItemsT, Merged, Newest
  <1>2. NoItems \in ItemsT
    BY DEF NoItems, ItemsT
  <1>3. ASSUME Ok(x) PROVE DiskT'
    <2>1. CASE x.op \in {"save", "all"}
      <3>1. stored' = [c \in Convs |-> Merged(c, x.items[c])] /\ UNCHANGED gone
        BY <1>3, <2>1 DEF Ok
      <3> QED
        BY <1>1, <3>1 DEF DiskT, ItemsT
    <2>2. CASE x.op = "delete"
      <3>1. gone' = gone \cup {x.conv} /\ stored' = [stored EXCEPT ![x.conv] = None]
        BY <1>3, <2>2 DEF Ok
      <3> QED
        BY <1>0, <2>2, <3>1 DEF DiskT, ItemsT
    <2>3. CASE x.op = "clear"
      <3>1. gone' = gone \cup {c \in Convs : stored[c] # None} /\ stored' = NoItems
        BY <1>3, <2>3 DEF Ok
      <3> QED
        BY <1>2, <3>1 DEF DiskT
    <2> QED
      BY <1>0, <2>1, <2>2, <2>3
  <1>4. ASSUME Broken(x) PROVE DiskT'
    BY <1>0, <1>4 DEF DiskT, Broken
  <1> QED
    BY <1>3, <1>4

\* What is read of the store, and what is recovered of that, are lists of conversations.
LEMMA VisibleIs ==
  ASSUME DiskT
  PROVE  Visible \in ItemsT /\ Recovered(Visible) \in ItemsT
PROOF
  <1>1. Visible \in ItemsT
    BY DEF DiskT, ItemsT, Visible
  <1>2. ASSUME NEW c \in Convs PROVE Over(Visible[c], Recover) \in Conversation \cup {None}
    <2>1. CASE Visible[c] = None
      BY <2>1 DEF Over
    <2>2. CASE Visible[c] # None
      BY <1>1, <2>2, ConversationsMade DEF ItemsT
    <2> QED
      BY <2>1, <2>2
  <1> QED
    BY <1>1, <1>2 DEF Recovered, ItemsT

\* A conversation of which the images are given up is a conversation.
LEMMA MarkAbortedIs == \A x \in Conversation \cup {None} : MarkAborted(x) \in Conversation \cup {None}
PROOF
  <1> TAKE x \in Conversation \cup {None}
  <1>1. x = None => MarkAborted(x) = None
    BY DEF MarkAborted, Over
  <1>2. x \in Conversation => MarkAborted(x) \in Conversation
    BY ConversationsMade DEF MarkAborted
  <1> QED
    BY <1>1, <1>2

\* The types of what a waiter changes, and the others still wait.
ResumeKeeps(b) ==
    /\ MemoryT' /\ LoadT' /\ draining' \in BOOLEAN /\ LoopsT'
    /\ \A k \in Loops : StillWaits(k) \/ b = [kind |-> "loop", l |-> k]
    /\ \A k \in Loops, v \in Workers : WorkerStillWaits(k, v) \/ b = [kind |-> "worker", l |-> k, w |-> v]

\* A loop that its write resumes keeps the types.
LEMMA LoopResumes ==
  ASSUME TypeInv, NEW b \in Bys, Awaited(b), NEW ok \in BOOLEAN, Resume(b, ok), b.kind = "loop"
  PROVE  ResumeKeeps(b)
PROOF
  <1> DEFINE l == b.l
  <1>0. /\ l \in Loops /\ b = [kind |-> "loop", l |-> l] /\ loop[l].pc \in SavingPcs
    BY ByIs DEF Awaited
  <1>1. /\ \/ loop' = [loop EXCEPT ![l].pc = "ended", ![l].thrown = ~ok]
           \/ \E p \in {"failing", "started", "quota"} : At(l, p)
        /\ UNCHANGED <<memory, load, draining, worker>>
    BY DEF Resume
  <1>2. \E p \in {"ended", "failing", "started", "quota"} :
           LoopShape' /\ OnlyLoop(l) /\ Stays(l) /\ loop'[l].left = loop[l].left /\ loop'[l].pc = p
    BY <1>0, <1>1, AtDoes, PcThrownDoes DEF TypeInv
  <1>3. LoopsT' /\ (\A k \in Loops \ {l} : StillWaits(k)) /\ \A k \in Loops, v \in Workers : WorkerStillWaits(k, v)
    BY <1>0, <1>1, <1>2, RunGoesOn DEF LoopPcs, Running, SavingPcs
  <1>4. MemoryT' /\ LoadT' /\ draining' \in BOOLEAN
    BY <1>1, PartsStay DEF TypeInv, RuntimeT
  <1> QED
    BY <1>0, <1>3, <1>4 DEF ResumeKeeps

\* A worker that its write resumes keeps the types.
LEMMA WorkerResumes ==
  ASSUME TypeInv, NEW b \in Bys, Awaited(b), NEW ok \in BOOLEAN, Resume(b, ok), b.kind = "worker"
  PROVE  ResumeKeeps(b)
PROOF
  <1> DEFINE l == b.l
             w == b.w
  <1>0. /\ l \in Loops /\ w \in Workers /\ b = [kind |-> "worker", l |-> l, w |-> w] /\ worker[l][w].pc = "saving"
    BY ByIs DEF Awaited
  <1>1. /\ (Step(l, w, "ask") /\ UNCHANGED loop) \/ SaveFailed(l, w)
        /\ UNCHANGED <<memory, load, draining>>
    BY DEF Resume
  <1>2. loop[l].pc = "batch"
    BY <1>0, InBatch
  <1>3. Marked(l) /\ WorkerShape' /\ OnlyWorker(l, w) /\ worker'[l][w].pc \in {"ask", "done"}
    <2>1. CASE Step(l, w, "ask") /\ UNCHANGED loop
      BY <1>0, <2>1, StepDoes, UnmarkedToo DEF TypeInv
    <2>2. CASE SaveFailed(l, w)
      <3> HIDE DEF l, w
      <3> QED
        BY <1>0, <2>2, SaveFailedDoes DEF TypeInv
    <2> QED
      BY <1>1, <2>1, <2>2
  <1>4. WorkerT(l, w)'
    BY <1>2, <1>3 DEF WorkerT, Marked
  <1>5. /\ LoopsT' /\ (\A k \in Loops : StillWaits(k))
        /\ \A k \in Loops, v \in Workers : k # l \/ v # w => WorkerStillWaits(k, v)
    BY <1>0, <1>2, <1>3, <1>4, WorkerMoves
  <1>6. MemoryT' /\ LoadT' /\ draining' \in BOOLEAN
    BY <1>1, PartsStay DEF TypeInv, RuntimeT
  <1> QED
    BY <1>0, <1>5, <1>6 DEF ResumeKeeps

\* A submit, a load, a deletion or a clearing that its write resumes keeps the types.
LEMMA OthersResume ==
  ASSUME TypeInv, NEW b \in Bys, NEW ok \in BOOLEAN, Resume(b, ok), b.kind \in {"submit", "load", "delete", "clear"}
  PROVE  ResumeKeeps(b)
PROOF
  <1>0. MemoryT /\ LoadT /\ draining \in BOOLEAN
    BY DEF TypeInv, RuntimeT
  <1>1. CASE b.kind = "submit"
    <2>1. b.m \in Mounts /\ UNCHANGED <<memory, load, worker>>
          /\ (TryDrain(b.m) \/ UNCHANGED <<draining, loop>>)
      BY <1>1, ByIs DEF Resume
    <2>2. /\ LoopsT' /\ draining' \in BOOLEAN /\ (\A k \in Loops : StillWaits(k))
          /\ \A k \in Loops, v \in Workers : WorkerStillWaits(k, v)
      <3>1. CASE TryDrain(b.m)
        BY <2>1, <3>1, TryDrainKeeps
      <3>2. CASE UNCHANGED <<draining, loop>>
        BY <1>0, <2>1, <3>2, LoopsStay DEF LoopsT
      <3> QED
        BY <2>1, <3>1, <3>2
    <2> QED
      BY <2>1, <2>2, PartsStay DEF ResumeKeeps
  <1>2. ASSUME MemoryT', LoadT', UNCHANGED <<draining, loop, worker>> PROVE ResumeKeeps(b)
    BY <1>0, <1>2, LoopsStay DEF ResumeKeeps, LoopsT
  <1>3. CASE b.kind = "load"
    <2>1. /\ \/ load' = [load EXCEPT !.pc = "off"] /\ (Show(b.m, load.items) \/ UNCHANGED memory)
             \/ UNCHANGED <<memory, load>>
          /\ UNCHANGED <<draining, loop, worker>>
      BY <1>3 DEF Resume
    <2>2. load.items \in ItemsT
      BY <1>0 DEF LoadT
    <2>3. MemoryT'
      BY <1>0, <2>1, <2>2, ShowDoes, PartsStay
    <2>4. LoadT'
      BY <1>0, <2>1 DEF LoadT
    <2> QED
      BY <1>2, <2>1, <2>3, <2>4
  <1>4. CASE b.kind = "delete"
    <2>1. UNCHANGED memory \/ Put(b.m, b.conv, MarkAborted(b.before))
      BY <1>4 DEF Resume
    <2>2. UNCHANGED <<load, draining, loop, worker>>
      BY <1>4 DEF Resume
    <2>3. b.conv \in Convs /\ MarkAborted(b.before) \in Conversation \cup {None}
      BY <1>4, ByIs, MarkAbortedIs
    <2>4. MemoryT' /\ LoadT'
      BY <1>0, <2>1, <2>2, <2>3, PutDoes, PartsStay
    <2> QED
      BY <1>2, <2>2, <2>4
  <1>5. CASE b.kind = "clear"
    <2> DEFINE items == [c \in Convs |-> MarkAborted(b.before[c])]
    <2>1. UNCHANGED memory \/ Show(b.m, items)
      BY <1>5 DEF Resume
    <2>2. UNCHANGED <<load, draining, loop, worker>>
      BY <1>5 DEF Resume
    <2>3. items \in ItemsT
      BY <1>5, ByIs, MarkAbortedIs DEF ItemsT
    <2> HIDE DEF items
    <2>4. MemoryT' /\ LoadT'
      BY <1>0, <2>1, <2>2, <2>3, ShowDoes, PartsStay
    <2> QED
      BY <1>2, <2>2, <2>4
  <1> QED
    BY <1>1, <1>3, <1>4, <1>5

\* Counting a hazard keeps the types of the counts.
LEMMA HazardCounts ==
  ASSUME TypeInv, NEW h, Hazard(h), UNCHANGED <<asked, used>>
  PROVE  CountsT'
  BY DEF TypeInv, CountsT, Hazard

\* The first write of the queue is awaited.
LEMMA HeadIs ==
  ASSUME PendingT, writes # <<>>
  PROVE  Head(writes) \in Writes /\ Head(writes).by \in Bys /\ Awaited(Head(writes).by)
PROOF
  <1>1. Head(writes) = writes[1] /\ 1 \in DOMAIN writes /\ Head(writes) \in Writes
    BY DEF PendingT
  <1> QED
    BY <1>1, WriteIs DEF PendingT, WriteAwaited

\* WriteDone and WriteFailed keep the types.
LEMMA WriteOverKeepsTypes ==
  ASSUME TypeInv, WriteDone \/ WriteFailed
  PROVE  TypeInv'
PROOF
  <1> DEFINE x == Head(writes)
             b == x.by
  <1>0. /\ writes # <<>> /\ writes' = Tail(writes) /\ (Ok(x) \/ Broken(x)) /\ \E ok \in BOOLEAN : Resume(b, ok)
        /\ UNCHANGED <<live, control, aborted, active, mine, asked, used>>
    BY DEF WriteDone, WriteFailed
  <1>1. x \in Writes /\ b \in Bys /\ Awaited(b)
    BY <1>0, HeadIs DEF TypeInv
  <1>2. DiskT'
    BY <1>0, <1>1, StoreTypes DEF TypeInv
  <1>3. CountsT'
    <2>1. WriteDone => UNCHANGED <<asked, used, happened>>
      BY DEF WriteDone
    <2>2. WriteFailed => Hazard("failure")
      BY DEF WriteFailed
    <2> QED
      BY <1>0, <2>1, <2>2, PartsStay, HazardCounts
  <1>4. ResumeKeeps(b)
    BY <1>0, <1>1, LoopResumes, WorkerResumes, OthersResume, ByIs
  <1>5. PendingT'
    BY <1>0, <1>4, PendingShrinks DEF TypeInv, ResumeKeeps
  <1>6. RuntimeT'
    BY <1>0, <1>4 DEF TypeInv, RuntimeT, ResumeKeeps
  <1> QED
    BY <1>2, <1>3, <1>4, <1>5, <1>6 DEF TypeInv, LoopsT, ResumeKeeps

\* DrainEffect keeps the types.
LEMMA DrainEffectKeepsTypes ==
  ASSUME TypeInv, DrainEffect
  PROVE  TypeInv'
PROOF
  <1>0. /\ page.mount # 0 /\ page' = [page EXCEPT !.due = FALSE] /\ TryDrain(page.mount)
        /\ UNCHANGED <<list, ref, load, live, control, aborted, active, worker, disk, writes, mine, asked, used, happened>>
    BY DEF DrainEffect
  <1>1. page.mount \in Mounts
    BY <1>0, QueueAssumption DEF TypeInv, MemoryT, Mounts
  <1>2. /\ LoopsT' /\ draining' \in BOOLEAN /\ (\A k \in Loops : StillWaits(k))
        /\ \A k \in Loops, v \in Workers : WorkerStillWaits(k, v)
    BY <1>0, <1>1, TryDrainKeeps
  <1>3. MemoryT'
    <2>1. page' = [mount |-> page.mount, due |-> FALSE, opened |-> page.opened]
      BY <1>0 DEF TypeInv, MemoryT
    <2> QED
      BY <1>0, <2>1 DEF TypeInv, MemoryT
  <1>4. PendingT'
    BY <1>0, <1>2, PendingStays DEF TypeInv
  <1>5. RuntimeT'
    BY <1>0, <1>2 DEF TypeInv, RuntimeT
  <1> QED
    BY <1>0, <1>2, <1>3, <1>4, <1>5, PartsStay DEF TypeInv, LoopsT
-----------------------------------------------------------------------------
(* The page and the session.                                               *)

\* A step that leaves the loops, the workers and the store alone.
LEMMA PageStepKeepsTypes ==
  ASSUME TypeInv, UNCHANGED <<loop, worker, disk, writes>>, MemoryT', LoadT', RuntimeT', CountsT'
  PROVE  TypeInv'
PROOF
  <1>1. LoopsT' /\ (\A k \in Loops : StillWaits(k)) /\ \A k \in Loops, v \in Workers : WorkerStillWaits(k, v)
    BY LoopsStay DEF LoopsT
  <1>2. PendingT'
    BY <1>1, PendingStays DEF TypeInv
  <1> QED
    BY <1>1, <1>2, PartsStay DEF TypeInv, LoopsT

\* ... and one that appends a write that nobody of them waits for.
LEMMA PageWriteKeepsTypes ==
  ASSUME TypeInv, NEW x \in Writes, x.by.kind \notin {"loop", "worker"}, writes' = Append(writes, x),
         UNCHANGED <<loop, worker, disk>>, MemoryT', LoadT', RuntimeT', CountsT'
  PROVE  TypeInv'
PROOF
  <1>1. LoopsT' /\ (\A k \in Loops : StillWaits(k)) /\ \A k \in Loops, v \in Workers : WorkerStillWaits(k, v)
    BY LoopsStay DEF LoopsT
  <1>2. Awaited(x.by)'
    BY DEF Awaited
  <1>3. PendingT'
    BY <1>1, <1>2, PendingGrows DEF TypeInv
  <1> QED
    BY <1>1, <1>3, PartsStay DEF TypeInv, LoopsT

\* The empty list is a list of conversations.
LEMMA ItemsOf == NoItems \in ItemsT
  BY DEF NoItems, ItemsT

\* The fields of the page.
LEMMA PageIs ==
  ASSUME MemoryT
  PROVE  /\ page = [mount |-> page.mount, due |-> page.due, opened |-> page.opened]
         /\ page.mount # 0 => page.mount \in Mounts
         /\ [page EXCEPT !.mount = 0, !.due = FALSE] = [mount |-> 0, due |-> FALSE, opened |-> page.opened]
         /\ [page EXCEPT !.mount = 0, !.due = FALSE] \in [mount : 0 .. MaxMounts, due : BOOLEAN, opened : 0 .. MaxMounts]
PROOF
  <1>1. page = [mount |-> page.mount, due |-> page.due, opened |-> page.opened] /\ page.mount \in 0 .. MaxMounts
        /\ page.opened \in 0 .. MaxMounts
    BY DEF MemoryT
  <1>2. 0 \in 0 .. MaxMounts /\ (page.mount # 0 => page.mount \in Mounts)
    BY <1>1, QueueAssumption DEF Mounts
  <1>3. ASSUME NEW m, NEW d
        PROVE  [page EXCEPT !.mount = m, !.due = d] = [mount |-> m, due |-> d, opened |-> page.opened]
    <2> DEFINE p == [page EXCEPT !.mount = m]
    <2>1. p = [mount |-> m, due |-> page.due, opened |-> page.opened]
      BY <1>1
    <2>2. [page EXCEPT !.mount = m, !.due = d] = [p EXCEPT !.due = d]
      OBVIOUS
    <2> HIDE DEF p
    <2> QED
      BY <2>1, <2>2
  <1> QED
    BY <1>1, <1>2, <1>3

\* Open keeps the types.
LEMMA OpenKeepsTypes ==
  ASSUME TypeInv, Open
  PROVE  TypeInv'
PROOF
  <1> DEFINE m == page.opened + 1
  <1>0. /\ m \in Mounts /\ page' = [mount |-> m, due |-> TRUE, opened |-> m] /\ ref' = [ref EXCEPT ![m] = list]
        /\ live' = TRUE /\ load' \in {[pc |-> "reading", items |-> NoItems], [pc |-> "off", items |-> NoItems]}
        /\ UNCHANGED <<list, draining, control, aborted, active, loop, worker, disk, writes, mine, asked, used, happened>>
    BY DEF Open
  <1>1. MemoryT'
    BY <1>0, QueueAssumption DEF TypeInv, MemoryT, Mounts
  <1>2. LoadT'
    BY <1>0, ItemsOf DEF LoadT
  <1>3. RuntimeT'
    BY <1>0 DEF TypeInv, RuntimeT
  <1> QED
    BY <1>0, <1>1, <1>2, <1>3, PartsStay, PageStepKeepsTypes

\* What loadHistory shows or saves.
History == IF LiveWork THEN Visible ELSE Recovered(Visible)

\* LoadHistory shows what the store has, or recovers it and saves what it recovered.
LEMMA LoadHistoryIs ==
  ASSUME LoadHistory
  PROVE  /\ load.pc = "reading"
         /\ \/ History = Visible /\ Show(page.mount, Visible) /\ UNCHANGED writes
               /\ load' = [pc |-> "off", items |-> NoItems]
            \/ History # Visible /\ UNCHANGED memory /\ load' = [pc |-> "saving", items |-> History]
               /\ writes' = Append(writes, [op |-> "all", conv |-> None, items |-> History,
                                            by |-> [kind |-> "load", m |-> page.mount]])
         /\ UNCHANGED <<runtime, active, loop, worker, disk, mine, asked, used, happened>>
  BY DEF LoadHistory, History

\* LoadHistory keeps the types.
LEMMA LoadHistoryKeepsTypes ==
  ASSUME TypeInv, LoadHistory
  PROVE  TypeInv'
PROOF
  <1> DEFINE x == [op |-> "all", conv |-> None, items |-> History, by |-> [kind |-> "load", m |-> page.mount]]
  <1>0. UNCHANGED <<runtime, active, loop, worker, disk, mine, asked, used, happened>>
    BY LoadHistoryIs
  <1>1. Visible \in ItemsT /\ History \in ItemsT
    BY VisibleIs DEF TypeInv, History
  <1>2. RuntimeT' /\ CountsT'
    BY <1>0, PartsStay
  <1>3. CASE Show(page.mount, Visible) /\ UNCHANGED writes /\ load' = [pc |-> "off", items |-> NoItems]
    <2>1. MemoryT' /\ LoadT'
      BY <1>1, <1>3, ShowDoes, ItemsOf DEF TypeInv, LoadT
    <2> QED
      BY <1>0, <1>2, <1>3, <2>1, PageStepKeepsTypes
  <1>4. CASE UNCHANGED memory /\ load' = [pc |-> "saving", items |-> History] /\ writes' = Append(writes, x)
    <2>1. MemoryT' /\ LoadT'
      BY <1>1, <1>4, PartsStay DEF LoadT
    <2>2. x \in Writes /\ x.by.kind = "load"
      BY <1>1 DEF Writes, Bys, TypeInv, MemoryT
    <2> HIDE DEF x
    <2> QED
      BY <1>0, <1>2, <1>4, <2>1, <2>2, PageWriteKeepsTypes
  <1> QED
    BY <1>3, <1>4, LoadHistoryIs

\* Leave keeps the types.
LEMMA LeaveKeepsTypes ==
  ASSUME TypeInv, Leave
  PROVE  TypeInv'
PROOF
  <1>0. /\ page' = [page EXCEPT !.mount = 0, !.due = FALSE] /\ load' = [pc |-> "off", items |-> NoItems]
        /\ Hazard("leave")
        /\ UNCHANGED <<list, ref, runtime, active, loop, worker, disk, writes, mine, asked, used>>
    BY DEF Leave
  <1>1. MemoryT'
    BY <1>0, PageIs DEF TypeInv, MemoryT
  <1>2. LoadT'
    BY <1>0, ItemsOf DEF LoadT
  <1> QED
    BY <1>0, <1>1, <1>2, PartsStay, HazardCounts, PageStepKeepsTypes

\* The turn that is submitted, and the conversation with it.
NewTurn == [id |-> used.turns + 1, status |-> "queued", img |-> [i \in Count(used.turns + 1) |-> "loading"]]
WithTurn(c) ==
    IF list[c] = None THEN [ver |-> 1, turns |-> <<NewTurn>>]
    ELSE [ver |-> list[c].ver + 1, turns |-> Append(list[c].turns, NewTurn)]

\* Submit extends a conversation or begins one.
LEMMA SubmitIs ==
  ASSUME NEW c \in Convs, Submit(c)
  PROVE  /\ Waits /\ page.mount # 0 /\ (Settled \/ Hasty) /\ used.turns + 1 \in Turns
         /\ \/ list[c] # None /\ used' = [used EXCEPT !.turns = used.turns + 1]
            \/ c = used.convs + 1 /\ used' = [convs |-> c, turns |-> used.turns + 1]
         /\ Put(page.mount, c, WithTurn(c))
         /\ writes' = Save(c, WithTurn(c), [kind |-> "submit", m |-> page.mount])
         /\ UNCHANGED <<load, runtime, active, loop, worker, disk, mine, asked>>
PROOF
  <1> DEFINE t == used.turns + 1
             turn == [id |-> t, status |-> "queued", img |-> [i \in Count(t) |-> "loading"]]
             conv == IF list[c] = None THEN [ver |-> 1, turns |-> <<turn>>]
                     ELSE [ver |-> list[c].ver + 1, turns |-> Append(list[c].turns, turn)]
  <1>1. conv = WithTurn(c)
    BY DEF WithTurn, NewTurn
  <1>2. /\ Waits /\ page.mount # 0 /\ (Settled \/ Hasty) /\ t \in Turns
        /\ \/ list[c] # None /\ used' = [used EXCEPT !.turns = t]
           \/ c = used.convs + 1 /\ used' = [convs |-> c, turns |-> t]
        /\ Put(page.mount, c, conv)
        /\ writes' = Save(c, conv, [kind |-> "submit", m |-> page.mount])
        /\ UNCHANGED <<load, runtime, active, loop, worker, disk, mine, asked>>
    BY DEF Submit
  <1> HIDE DEF conv
  <1> QED
    BY <1>1, <1>2

\* A conversation with a new turn is a conversation.
LEMMA WithTurnIs ==
  ASSUME MemoryT, NEW c \in Convs, used.turns + 1 \in Turns
  PROVE  NewTurn \in Turn /\ WithTurn(c) \in Conversation
PROOF
  <1>1. NewTurn \in Turn
    BY TurnIs DEF NewTurn, Statuses, ImageStatus
  <1>2. list[c] # None => list[c].ver + 1 \in Nat /\ list[c].turns \in Seq(Turn)
    BY DEF MemoryT, ItemsT, Conversation
  <1>3. <<NewTurn>> \in Seq(Turn) /\ (list[c] # None => Append(list[c].turns, NewTurn) \in Seq(Turn))
    BY <1>1, <1>2
  <1> QED
    BY <1>1, <1>2, <1>3 DEF WithTurn, Conversation

\* Submit keeps the types.
LEMMA SubmitKeepsTypes ==
  ASSUME TypeInv, NEW c \in Convs, Submit(c)
  PROVE  TypeInv'
PROOF
  <1> DEFINE b == [kind |-> "submit", m |-> page.mount]
  <1>0. /\ page.mount # 0 /\ (Settled \/ Hasty) /\ used.turns + 1 \in Turns
        /\ \/ list[c] # None /\ used' = [used EXCEPT !.turns = used.turns + 1]
           \/ c = used.convs + 1 /\ used' = [convs |-> c, turns |-> used.turns + 1]
        /\ Put(page.mount, c, WithTurn(c)) /\ writes' = Save(c, WithTurn(c), b)
        /\ UNCHANGED <<load, runtime, active, loop, worker, disk, mine, asked>>
    BY SubmitIs
  <1>1. WithTurn(c) \in Conversation
    BY <1>0, WithTurnIs DEF TypeInv
  <1>2. MemoryT'
    BY <1>0, <1>1, PutDoes DEF TypeInv
  <1>3. b \in Bys /\ b.kind = "submit"
    BY <1>0, PageIs DEF Bys, TypeInv
  <1>4. PICK x \in Writes : Saved(x, c, WithTurn(c), b)
    BY <1>0, <1>1, <1>3, SaveDoes
  <1>5. CountsT'
    <2>1. used' \in [convs : 0 .. MaxConvs, turns : 0 .. MaxTurns]
      BY <1>0 DEF TypeInv, CountsT, Convs, Turns
    <2>2. happened' \subseteq Hazards
      BY <1>0 DEF TypeInv, CountsT, Settled, Hasty, Hazard
    <2> QED
      BY <1>0, <2>1, <2>2 DEF TypeInv, CountsT
  <1>6. LoadT' /\ RuntimeT'
    BY <1>0, PartsStay
  <1> QED
    BY <1>0, <1>2, <1>3, <1>4, <1>5, <1>6, PageWriteKeepsTypes DEF Saved

\* Delete keeps the types.
LEMMA DeleteKeepsTypes ==
  ASSUME TypeInv, NEW c \in Convs, Delete(c)
  PROVE  TypeInv'
PROOF
  <1> DEFINE x == [op |-> "delete", conv |-> c, items |-> NoItems,
                   by |-> [kind |-> "delete", m |-> page.mount, conv |-> c, before |-> list[c]]]
  <1>0. /\ page.mount # 0 /\ list[c] # None /\ Hazard("delete")
        /\ aborted' = aborted \cup ({control[c]} \ {None}) /\ control' = [control EXCEPT ![c] = None]
        /\ Put(page.mount, c, None) /\ writes' = Append(writes, x)
        /\ UNCHANGED <<load, live, draining, active, loop, worker, disk, mine, asked, used>>
    BY DEF Delete
  <1>1. x \in Writes /\ x.by.kind = "delete"
    <2>1. x.by \in Bys
      BY <1>0, PageIs DEF Bys, TypeInv, MemoryT, ItemsT
    <2> QED
      BY <2>1, ItemsOf DEF Writes
  <1> HIDE DEF x
  <1>2. MemoryT'
    BY <1>0, PutDoes DEF TypeInv
  <1>3. RuntimeT'
    BY <1>0 DEF TypeInv, RuntimeT
  <1>4. CountsT' /\ LoadT'
    BY <1>0, HazardCounts, PartsStay
  <1> QED
    BY <1>0, <1>1, <1>2, <1>3, <1>4, PageWriteKeepsTypes

\* Clear keeps the types.
LEMMA ClearKeepsTypes ==
  ASSUME TypeInv, Clear
  PROVE  TypeInv'
PROOF
  <1> DEFINE x == [op |-> "clear", conv |-> None, items |-> NoItems,
                   by |-> [kind |-> "clear", m |-> page.mount, before |-> list]]
  <1>0. /\ page.mount # 0 /\ Hazard("clear")
        /\ aborted' = aborted \cup Held /\ control' = [k \in Convs |-> None]
        /\ Show(page.mount, NoItems) /\ writes' = Append(writes, x)
        /\ UNCHANGED <<load, live, draining, active, loop, worker, disk, mine, asked, used>>
    BY DEF Clear
  <1>1. x \in Writes /\ x.by.kind = "clear"
    <2>1. x.by \in Bys
      BY <1>0, PageIs DEF Bys, TypeInv, MemoryT
    <2> QED
      BY <2>1, ItemsOf DEF Writes
  <1> HIDE DEF x
  <1>2. MemoryT'
    BY <1>0, ItemsOf, ShowDoes DEF TypeInv
  <1>3. RuntimeT'
    BY <1>0 DEF TypeInv, RuntimeT, Held
  <1>4. CountsT' /\ LoadT'
    BY <1>0, HazardCounts, PartsStay
  <1> QED
    BY <1>0, <1>1, <1>2, <1>3, <1>4, PageWriteKeepsTypes

\* SignOut, Notice, LogOut and SignIn keep the types.
LEMMA SessionStepsKeepTypes ==
  ASSUME TypeInv, SignOut \/ Notice \/ LogOut \/ SignIn
  PROVE  TypeInv'
PROOF
  <1>0. UNCHANGED <<loop, worker, disk, writes>> /\ UNCHANGED <<asked, used, active>>
    BY DEF SignOut, Notice, LogOut, SignIn
  <1>1. CASE SignOut
    <2>1. RuntimeT' /\ CountsT'
      BY <1>1, HazardCounts DEF SignOut, TypeInv, RuntimeT, runtime
    <2> QED
      BY <1>0, <1>1, <2>1, PartsStay, PageStepKeepsTypes DEF SignOut
  <1>2. CASE Notice
    <2>1. RuntimeT'
      BY <1>2, EvictKeeps DEF Notice, TypeInv
    <2> QED
      BY <1>0, <1>2, <2>1, PartsStay, PageStepKeepsTypes DEF Notice
  <1>3. CASE LogOut
    <2>1. RuntimeT' /\ CountsT'
      BY <1>3, HazardCounts DEF LogOut, TypeInv, RuntimeT, Deactivate, Held
    <2>2. MemoryT'
      BY <1>3, PageIs DEF LogOut, TypeInv, MemoryT
    <2>3. LoadT'
      BY <1>3, ItemsOf DEF LogOut, LoadT
    <2> QED
      BY <1>0, <2>1, <2>2, <2>3, PageStepKeepsTypes
  <1>4. CASE SignIn
    <2>1. RuntimeT'
      BY <1>4 DEF SignIn, TypeInv, RuntimeT, runtime
    <2> QED
      BY <1>0, <1>4, <2>1, PartsStay, PageStepKeepsTypes DEF SignIn
  <1> QED
    BY <1>1, <1>2, <1>3, <1>4

\* The state of a tab that has just been loaded.
Loaded ==
    /\ list = NoItems /\ ref = [m \in Mounts |-> NoItems]
    /\ page \in [mount : 0 .. MaxMounts, due : BOOLEAN, opened : 0 .. MaxMounts] /\ page.mount = 0
    /\ mine \in BOOLEAN
    /\ load = [pc |-> "off", items |-> NoItems]
    /\ live = TRUE /\ draining = FALSE /\ active = {}
    /\ control = [c \in Convs |-> None] /\ aborted = {}
    /\ loop = [l \in Loops |-> Off]
    /\ worker = [l \in Loops |-> [w \in Workers |-> Resting]]
    /\ writes = <<>>

LoadedTypes == MemoryT /\ LoadT /\ RuntimeT /\ LoopsT /\ PendingT

\* A document that was just loaded has its types.
LEMMA LoadedIs ==
  Loaded => LoadedTypes
PROOF
  <1> SUFFICES ASSUME Loaded PROVE LoadedTypes
    OBVIOUS
  <1>1. MemoryT /\ LoadT
    BY ItemsOf DEF Loaded, MemoryT, LoadT
  <1>2. RuntimeT
    BY DEF Loaded, RuntimeT
  <1>3. Shape
    BY OffIs, RestingIs DEF Loaded, Shape, LoopShape, WorkerShape
  <1>4. \A k \in Loops : loop[k].pc = "off" /\ loop[k].left = {}
    BY OffIs DEF Loaded
  <1>5. \A k \in Loops, v \in Workers : worker[k][v].pc = "done"
    BY RestingIs DEF Loaded
  <1>6. LoopsT
    BY <1>3, <1>4, <1>5 DEF LoopsT, LoopT, LoopPcs, Running, WorkerT
  <1>7. PendingT
    BY DEF Loaded, PendingT
  <1> QED
    BY <1>1, <1>2, <1>6, <1>7 DEF LoadedTypes

\* Reload keeps the types.
LEMMA ReloadKeepsTypes ==
  ASSUME TypeInv, Reload
  PROVE  TypeInv'
PROOF
  <1>0. /\ page' = [page EXCEPT !.mount = 0, !.due = FALSE] /\ Hazard("reload")
        /\ IF writes = <<>> THEN UNCHANGED disk ELSE Broken(Head(writes))
        /\ UNCHANGED <<mine, asked, used>>
    BY DEF Reload
  <1>1. Loaded'
    BY <1>0, PageIs DEF Reload, Loaded, TypeInv, RuntimeT
  <1>3. LoadedTypes'
    BY <1>1, LoadedIs, PTL
  <1>4. DiskT'
    BY <1>0, HeadIs, StoreTypes, PartsStay DEF TypeInv
  <1>5. CountsT'
    BY <1>0, HazardCounts
  <1> QED
    BY <1>3, <1>4, <1>5 DEF TypeInv, LoopsT, LoadedTypes

\* The types hold initially.
LEMMA InitHasTypes == Init => TypeInv
PROOF
  <1> SUFFICES ASSUME Init PROVE TypeInv
    OBVIOUS
  <1>1. Loaded
    BY QueueAssumption DEF Init, Loaded
  <1>3. LoadedTypes
    BY <1>1, LoadedIs
  <1>4. DiskT /\ CountsT
    BY ItemsOf, QueueAssumption DEF Init, DiskT, CountsT
  <1> QED
    BY <1>3, <1>4 DEF TypeInv, LoopsT, LoadedTypes

\* Every step keeps the types.
LEMMA StepKeepsTypes == TypeInv /\ [Next]_vars => TypeInv'
PROOF
  <1> SUFFICES ASSUME TypeInv, [Next]_vars PROVE TypeInv'
    OBVIOUS
  <1>1. ASSUME NEW l \in Loops, LoopPick(l) \/ LoopEnd(l) \/ LoopStep(l) PROVE TypeInv'
    BY <1>1, PickKeepsTypes, EndKeepsTypes, EnterKeepsTypes, AwayQuotaDisownedKeepTypes, BatchKeepsTypes,
       JoinKeepsTypes, FinalFailKeepTypes DEF LoopStep
  <1>2. ASSUME NEW l \in Loops, NEW w \in Workers, WorkerStep(l, w) PROVE TypeInv'
    BY <1>2, TakeKeepsTypes, StopKeepsTypes, AnsweredKeepsTypes, AnswerPutKeepsTypes, LateKeepsTypes,
       WorkerSaveKeepsTypes, ChainBrokenKeepsTypes DEF WorkerStep
  <1>3. ASSUME NEW c \in Convs, Submit(c) \/ Delete(c) PROVE TypeInv'
    BY <1>3, SubmitKeepsTypes, DeleteKeepsTypes
  <1>4. CASE WriteDone \/ WriteFailed \/ DrainEffect \/ LoadHistory
    BY <1>4, WriteOverKeepsTypes, DrainEffectKeepsTypes, LoadHistoryKeepsTypes
  <1>5. CASE Open \/ Leave \/ Clear
    BY <1>5, OpenKeepsTypes, LeaveKeepsTypes, ClearKeepsTypes
  <1>6. CASE SignOut \/ Notice \/ LogOut \/ SignIn \/ Reload
    BY <1>6, SessionStepsKeepTypes, ReloadKeepsTypes
  <1>7. CASE UNCHANGED vars
    <2>1. UNCHANGED <<loop, worker, disk, writes>> /\ UNCHANGED <<memory, load, runtime, active, mine, asked, used, happened>>
      BY <1>7 DEF vars
    <2> QED
      BY <2>1, PartsStay, PageStepKeepsTypes
  <1> QED
    BY <1>1, <1>2, <1>3, <1>4, <1>5, <1>6, <1>7 DEF Next, Continue, Progress, User

\* The types of the queue hold in every state.
THEOREM QueueTyped == Spec => []TypeOK
PROOF
  <1>1. Spec => []TypeInv
    BY InitHasTypes, StepKeepsTypes, PTL DEF Spec
  <1> QED
    BY <1>1, TypesAreChecked, PTL
-----------------------------------------------------------------------------
(* The runs: a loop that runs has its conversation in use.                 *)

On(l) == loop[l].pc # "off"
InUse == \A l \in Loops : Running(l) => loop[l].conv \in active
UsedByRuns == \A c \in active : \E l \in Loops : Running(l) /\ loop[l].conv = c
ControlsRun(c) == control[c] # None => Running(control[c]) /\ loop[control[c]].conv = c
ControlsRuns == \A c \in Convs : ControlsRun(c)
DrainingIsOn == draining => \E l \in Loops : On(l)

RunsInv == OneRunEach /\ InUse /\ UsedByRuns /\ ControlsRuns /\ DrainingIsOn

SameRun(k) ==
    /\ Running(k)' <=> Running(k)
    /\ Running(k) => loop'[k].conv = loop[k].conv /\ loop'[k].turn = loop[k].turn
SameRuns == \A k \in Loops : SameRun(k)
StillOn == \A k \in Loops : On(k) => On(k)'

\* A step that keeps who runs what, and adds nothing to the runtime's registry, keeps the invariant
\* of runs.
LEMMA RunsKept ==
  ASSUME TypeInv, RunsInv, SameRuns, UNCHANGED active, \A c \in Convs : control'[c] \in {control[c], None},
         draining' => (draining /\ StillOn) \/ \E k \in Loops : On(k)'
  PROVE  RunsInv'
PROOF
  <1>1. OneRunEach' /\ InUse' /\ UsedByRuns'
    BY DEF RunsInv, OneRunEach, InUse, UsedByRuns, SameRuns, SameRun
  <1>2. ControlsRuns'
    <2> SUFFICES ASSUME NEW c \in Convs PROVE ControlsRun(c)'
      BY DEF ControlsRuns
    <2>1. ControlsRun(c) /\ control'[c] \in {control[c], None} /\ control[c] \in Loops \cup {None}
      BY DEF RunsInv, ControlsRuns, TypeInv, RuntimeT
    <2>2. control'[c] # None => SameRun(control[c])
      BY <2>1 DEF SameRuns
    <2> QED
      BY <2>1, <2>2 DEF ControlsRun, SameRun, Running
  <1>3. DrainingIsOn'
    BY DEF RunsInv, DrainingIsOn, StillOn
  <1> QED
    BY <1>1, <1>2, <1>3 DEF RunsInv

\* When one loop moves and keeps its run, everybody does.
LEMMA OthersRun ==
  ASSUME NEW l \in Loops, OnlyLoop(l), SameRun(l), On(l) => On(l)'
  PROVE  SameRuns /\ StillOn
  BY DEF SameRuns, SameRun, StillOn, OnlyLoop, Running, On

\* A loop that is marked keeps its run.
LEMMA MarkedRuns ==
  ASSUME NEW l \in Loops, Marked(l)
  PROVE  SameRuns /\ StillOn
PROOF
  <1>1. SameRun(l) /\ (On(l) => On(l)')
    BY DEF Marked, Stays, SameRun, Running, On
  <1> QED
    BY <1>1, OthersRun DEF Marked

\* A loop that stays with its turn keeps its run.
LEMMA StaysRuns ==
  ASSUME NEW l \in Loops, OnlyLoop(l), Stays(l), loop[l].pc # "off", loop'[l].pc # "off",
         Running(l) <=> Running(l)'
  PROVE  SameRuns /\ StillOn
  BY OthersRun DEF SameRun, Stays, On

\* A drain starts no run, and only a loop that is on is behind it.
LEMMA TryDrainRuns ==
  ASSUME Shape, NEW m, TryDrain(m)
  PROVE  SameRuns /\ StillOn /\ (draining' => draining \/ \E k \in Loops : On(k)')
PROOF
  <1>1. CASE UNCHANGED <<draining, loop>>
    BY <1>1 DEF SameRuns, SameRun, StillOn, Running, On
  <1>2. ASSUME NEW l \in Loops, Starts(l, m)
        PROVE  SameRuns /\ StillOn /\ \E k \in Loops : On(k)'
    <2>1. SameRun(l) /\ On(l)'
      BY <1>2 DEF Starts, SameRun, Running, On
    <2> QED
      BY <1>2, <2>1, OthersRun DEF Starts
  <1> QED
    BY <1>1, <1>2, TryDrainDoes

\* A write that is over starts no run, and only a loop that is on is behind a drain.
LEMMA ResumeRuns ==
  ASSUME TypeInv, NEW b \in Bys, Awaited(b), NEW ok \in BOOLEAN, Resume(b, ok)
  PROVE  SameRuns /\ StillOn /\ (draining' => draining \/ \E k \in Loops : On(k)')
PROOF
  <1>1. CASE b.kind = "loop"
    <2>0. /\ b.l \in Loops /\ loop[b.l].pc \in SavingPcs
          /\ \/ loop' = [loop EXCEPT ![b.l].pc = "ended", ![b.l].thrown = ~ok]
             \/ \E p \in {"failing", "started", "quota"} : At(b.l, p)
          /\ UNCHANGED draining
      BY <1>1, ByIs DEF Resume, Awaited
    <2>1. OnlyLoop(b.l) /\ Stays(b.l) /\ loop'[b.l].pc \in {"ended", "failing", "started", "quota"}
      BY <2>0, AtDoes, PcThrownDoes DEF TypeInv
    <2>2. SameRuns /\ StillOn
      BY <2>0, <2>1, StaysRuns DEF Running, SavingPcs
    <2> QED
      BY <2>0, <2>2
  <1>2. CASE b.kind = "worker"
    <2>0. /\ b.l \in Loops /\ b.w \in Workers
          /\ UNCHANGED loop \/ SaveFailed(b.l, b.w)
          /\ UNCHANGED draining
      BY <1>2, ByIs DEF Resume
    <2>1. Marked(b.l)
      BY <2>0, SaveFailedDoes, UnmarkedToo DEF TypeInv
    <2> QED
      BY <2>0, <2>1, MarkedRuns
  <1>3. CASE b.kind = "submit"
    <2>1. TryDrain(b.m) \/ UNCHANGED <<draining, loop>>
      BY <1>3 DEF Resume
    <2>2. CASE UNCHANGED <<draining, loop>>
      BY <2>2 DEF SameRuns, SameRun, StillOn, Running, On
    <2> QED
      BY <2>1, <2>2, TryDrainRuns DEF TypeInv
  <1>4. CASE b.kind \in {"load", "delete", "clear"}
    <2>1. UNCHANGED <<draining, loop>>
      BY <1>4 DEF Resume
    <2> QED
      BY <2>1 DEF SameRuns, SameRun, StillOn, Running, On
  <1> QED
    BY <1>1, <1>2, <1>3, <1>4, ByIs

\* The steps of the loops and the workers that neither begin nor end a run.
MidRun(l) ==
    \/ LoopTurnedAway(l) \/ LoopBatch(l) \/ LoopDisowned(l)
    \/ LoopJoin(l) \/ LoopFinal(l) \/ LoopFail(l) \/ LoopQuota(l) \/ \E w \in Workers : WorkerStep(l, w)

\* A step in the middle of a run keeps who runs what.
LEMMA MidRunGoesOn ==
  ASSUME TypeInv, NEW l \in Loops, MidRun(l)
  PROVE  SameRuns /\ StillOn
PROOF
  <1>0. Shape
    BY DEF TypeInv
  <1>1. ASSUME NEW p, loop' = [loop EXCEPT ![l].pc = p] \/ At(l, p) \/ loop' = [loop EXCEPT ![l].pc = p, ![l].thrown = FALSE],
               loop[l].pc # "off", p # "off", Running(l) <=> p \notin {"off", "pick", "enter"}
        PROVE  SameRuns /\ StillOn
    <2>1. OnlyLoop(l) /\ Stays(l) /\ loop'[l].pc = p
      BY <1>0, <1>1, PcDoes, AtDoes, PcThrownDoes
    <2>2. Running(l)' <=> p \notin {"off", "pick", "enter"}
      BY <2>1 DEF Running
    <2> QED
      BY <1>1, <2>1, <2>2, StaysRuns
  <1>2. CASE LoopTurnedAway(l)
    BY <1>1, <1>2 DEF LoopTurnedAway, Running
  <1>3. CASE LoopBatch(l)
    <2>1. loop[l].pc # "off" /\ Running(l) /\ loop' = [loop EXCEPT ![l].pc = "batch"]
      BY <1>3 DEF LoopBatch, Running
    <2>2. OnlyLoop(l) /\ Stays(l) /\ loop'[l].pc = "batch"
      BY <1>0, <2>1, PcDoes
    <2>3. Running(l)' /\ loop'[l].pc # "off"
      BY <2>2 DEF Running
    <2> QED
      BY <2>1, <2>2, <2>3, StaysRuns
  <1>4. CASE LoopDisowned(l)
    <2>1. loop[l].pc # "off" /\ Running(l) /\ loop' = [loop EXCEPT ![l].pc = "ended"]
      BY <1>4 DEF LoopDisowned, Running
    <2>2. OnlyLoop(l) /\ Stays(l) /\ loop'[l].pc = "ended"
      BY <1>0, <2>1, PcDoes
    <2>3. Running(l)' /\ loop'[l].pc # "off"
      BY <2>2 DEF Running
    <2> QED
      BY <2>1, <2>2, <2>3, StaysRuns
  <1>5. CASE LoopJoin(l)
    <2>1. loop[l].pc = "batch" /\ \E p \in {"failing", "final", "ended"} : At(l, p) \/ loop' = [loop EXCEPT ![l].pc = p]
      BY <1>5 DEF LoopJoin
    <2> QED
      BY <1>1, <2>1 DEF Running
  <1>6. CASE LoopFinal(l) \/ LoopFail(l)
    <2>1. /\ loop[l].pc \in {"final", "failing"}
          /\ \E p \in {"quota", "ended", "finishing", "failed"} :
                At(l, p) \/ loop' = [loop EXCEPT ![l].pc = p, ![l].thrown = FALSE]
      BY <1>6 DEF LoopFinal, LoopFail, SettleTurn
    <2> QED
      BY <1>1, <2>1 DEF Running
  <1>7. CASE LoopQuota(l)
    <2>1. loop[l].pc # "off" /\ Running(l) /\ loop' = [loop EXCEPT ![l].pc = "ended"]
      BY <1>7 DEF LoopQuota, Running
    <2>2. OnlyLoop(l) /\ Stays(l) /\ loop'[l].pc = "ended"
      BY <1>0, <2>1, PcDoes
    <2>3. Running(l)' /\ loop'[l].pc # "off"
      BY <2>2 DEF Running
    <2> QED
      BY <2>1, <2>2, <2>3, StaysRuns
  <1>8. ASSUME NEW w \in Workers, WorkerStep(l, w)
        PROVE  Marked(l)
    <2>1. CASE WorkerTake(l, w)
      BY <1>0, <2>1, TakeIs, TakesDoes, UnmarkedToo DEF FindsNone
    <2>2. CASE WorkerStop(l, w)
      BY <1>0, <2>2, StopDoes
    <2>3. CASE WorkerAnswered(l, w)
      BY <1>0, <2>3, UnmarkedToo DEF WorkerAnswered
    <2>4. CASE WorkerPut(l, w)
      BY <1>0, <2>4, UnmarkedToo DEF WorkerPut
    <2>5. CASE WorkerLate(l, w)
      BY <1>0, <2>5, InterruptDoes DEF WorkerLate
    <2>6. CASE WorkerSave(l, w)
      BY <1>0, <2>6, UnmarkedToo DEF WorkerSave
    <2>7. CASE WorkerChainBroken(l, w)
      BY <1>0, <2>7, SaveFailedDoes DEF WorkerChainBroken
    <2> QED
      BY <1>8, <2>1, <2>2, <2>3, <2>4, <2>5, <2>6, <2>7 DEF WorkerStep
  <1>9. CASE \E w \in Workers : WorkerStep(l, w)
    BY <1>8, <1>9, MarkedRuns
  <1> QED
    BY <1>2, <1>3, <1>4, <1>5, <1>6, <1>7, <1>9 DEF MidRun

\* Evicting only takes runs out of the registry.
LEMMA EvictOnlyShrinks ==
  ASSUME RuntimeT, NEW a, Evict(a) \/ Deactivate
  PROVE  (\A c \in Convs : control'[c] \in {control[c], None}) /\ (draining' => draining)
  BY DEF Evict, Deactivate, runtime, RuntimeT

\* A step in the middle of a run puts nothing into the registry.
LEMMA MidRunShrinks ==
  ASSUME TypeInv, NEW l \in Loops, MidRun(l)
  PROVE  (\A c \in Convs : control'[c] \in {control[c], None}) /\ (draining' => draining) /\ UNCHANGED active
PROOF
  <1>1. UNCHANGED active /\ (UNCHANGED runtime \/ \E a : Evict(a))
    <2>1. CASE \E w \in Workers : WorkerStep(l, w)
      BY <2>1 DEF WorkerStep, WorkerTake, WorkerStop, WorkerAnswered, WorkerPut, WorkerLate, WorkerSave, WorkerChainBroken
    <2>2. CASE LoopTurnedAway(l) \/ LoopBatch(l) \/ LoopDisowned(l) \/ LoopJoin(l) \/ LoopQuota(l)
      BY <2>2 DEF LoopTurnedAway, LoopBatch, LoopDisowned, LoopJoin, LoopQuota
    <2>3. CASE LoopFinal(l) \/ LoopFail(l)
      BY <2>3 DEF LoopFinal, LoopFail, SettleTurn
    <2> QED
      BY <2>1, <2>2, <2>3 DEF MidRun
  <1>2. UNCHANGED runtime => (\A c \in Convs : control'[c] \in {control[c], None}) /\ (draining' => draining)
    BY DEF runtime
  <1> QED
    BY <1>1, <1>2, EvictOnlyShrinks DEF TypeInv

\* LoopEnter runs a conversation that nobody runs.
LEMMA EnterKeepsRuns ==
  ASSUME TypeInv, RunsInv, NEW l \in Loops, LoopEnter(l)
  PROVE  RunsInv'
PROOF
  <1> DEFINE c == loop[l].conv
  <1>0. /\ loop[l].pc = "enter" /\ c \in Convs /\ c \notin active /\ active' = active \cup {c}
        /\ control' = [control EXCEPT ![c] = l] /\ UNCHANGED draining
    BY DEF LoopEnter, Startable, TypeInv, LoopT
  <1>1. OnlyLoop(l) /\ loop'[l].conv = c /\ loop'[l].pc \in {"ended", "starting"}
    BY EnterSets DEF TypeInv
  <1>2. Running(l)' /\ ~Running(l) /\ On(l)'
    BY <1>0, <1>1 DEF Running, On
  <1>3. \A k \in Loops \ {l} : (Running(k)' <=> Running(k)) /\ loop'[k].conv = loop[k].conv /\ (On(k)' <=> On(k))
    BY <1>1 DEF OnlyLoop, Running, On
  <1>4. OneRunEach' /\ InUse' /\ UsedByRuns'
    BY <1>0, <1>1, <1>2, <1>3 DEF RunsInv, OneRunEach, InUse, UsedByRuns
  <1>5. ControlsRuns'
    <2> SUFFICES ASSUME NEW d \in Convs, control'[d] # None PROVE ControlsRun(d)'
      BY DEF ControlsRuns, ControlsRun
    <2>1. CASE d = c
      <3>1. control'[d] = l
        BY <1>0, <2>1 DEF TypeInv, RuntimeT
      <3> QED
        BY <1>1, <1>2, <2>1, <3>1 DEF ControlsRun, Running
    <2>2. CASE d # c
      <3>1. control'[d] = control[d] /\ control[d] \in Loops /\ Running(control[d]) /\ loop[control[d]].conv = d
        BY <1>0, <2>2 DEF TypeInv, RuntimeT, RunsInv, ControlsRuns, ControlsRun
      <3>2. Running(control[d])' /\ loop'[control[d]].conv = d
        BY <1>2, <1>3, <3>1
      <3> QED
        BY <3>1, <3>2 DEF ControlsRun, Running
    <2> QED
      BY <2>1, <2>2
  <1>6. DrainingIsOn'
    BY <1>2 DEF DrainingIsOn
  <1> QED
    BY <1>4, <1>5, <1>6 DEF RunsInv

\* LoopEnd takes out the run that it ends.
LEMMA EndKeepsRuns ==
  ASSUME TypeInv, RunsInv, NEW l \in Loops, LoopEnd(l)
  PROVE  RunsInv'
PROOF
  <1> DEFINE c == loop[l].conv
  <1>0. /\ loop[l].pc = "ended" /\ c \in Convs /\ active' = active \ {c}
        /\ control' = [control EXCEPT ![c] = IF control[c] = l THEN None ELSE control[c]]
        /\ draining' = (draining /\ ~loop[l].thrown)
    BY DEF LoopEnd, TypeInv, LoopT
  <1>1. OnlyLoop(l) /\ loop'[l].pc = (IF loop[l].thrown THEN "off" ELSE "pick")
    BY EndSets DEF TypeInv
  <1>2. ~Running(l)' /\ Running(l) /\ (~loop[l].thrown => On(l)')
    BY <1>0, <1>1 DEF Running, On
  <1>3. \A k \in Loops \ {l} : (Running(k)' <=> Running(k)) /\ loop'[k].conv = loop[k].conv /\ (On(k)' <=> On(k))
    BY <1>1 DEF OnlyLoop, Running, On
  <1>4. OneRunEach' /\ InUse' /\ UsedByRuns'
    BY <1>0, <1>1, <1>2, <1>3 DEF RunsInv, OneRunEach, InUse, UsedByRuns
  <1>5. ControlsRuns'
    <2> SUFFICES ASSUME NEW d \in Convs, control'[d] # None PROVE ControlsRun(d)'
      BY DEF ControlsRuns, ControlsRun
    <2>1. control'[d] = control[d] /\ control[d] \in Loops /\ Running(control[d]) /\ loop[control[d]].conv = d
      BY <1>0 DEF TypeInv, RuntimeT, RunsInv, ControlsRuns, ControlsRun
    <2>2. control[d] # l
      <3>1. control[d] = l => d = c /\ control'[c] = None
        BY <1>0, <2>1 DEF TypeInv, RuntimeT
      <3> QED
        BY <3>1
    <2>3. Running(control[d])' /\ loop'[control[d]].conv = d
      BY <1>3, <2>1, <2>2
    <2> QED
      BY <2>1, <2>3 DEF ControlsRun, Running
  <1>6. DrainingIsOn'
    BY <1>0, <1>2 DEF DrainingIsOn
  <1> QED
    BY <1>4, <1>5, <1>6 DEF RunsInv

\* LoopPick runs nothing yet.
LEMMA PickKeepsRuns ==
  ASSUME TypeInv, RunsInv, NEW l \in Loops, LoopPick(l)
  PROVE  RunsInv'
PROOF
  <1>0. UNCHANGED <<control, active>> /\ loop[l].pc = "pick"
    BY DEF LoopPick
  <1>1. CASE \E c \in Convs : loop' = [loop EXCEPT ![l].pc = "enter", ![l].conv = c, ![l].asking = live]
    <2>1. OnlyLoop(l) /\ loop'[l].pc = "enter"
      BY <1>1, PickSets DEF TypeInv
    <2>2. SameRun(l) /\ On(l)'
      BY <1>0, <2>1 DEF SameRun, Running, On
    <2> QED
      BY <1>0, <2>1, <2>2, OthersRun, RunsKept
  <1>2. CASE loop' = [loop EXCEPT ![l] = Off] /\ draining' = FALSE
    <2>1. OnlyLoop(l) /\ loop'[l].pc = "off"
      BY <1>2, OffIs, RecordDoes DEF TypeInv
    <2>2. SameRuns
      BY <1>0, <2>1 DEF SameRuns, SameRun, Running, OnlyLoop
    <2> QED
      BY <1>0, <1>2, <2>2, RunsKept
  <1> QED
    BY <1>1, <1>2 DEF LoopPick

\* Nothing runs in a document that was just loaded.
LEMMA LoadedRuns == Loaded => RunsInv
PROOF
  <1> SUFFICES ASSUME Loaded PROVE RunsInv
    OBVIOUS
  <1>1. \A l \in Loops : ~Running(l)
    BY OffIs DEF Loaded, Running
  <1>2. control = [c \in Convs |-> None] /\ active = {} /\ draining = FALSE
    BY DEF Loaded
  <1> QED
    BY <1>1, <1>2 DEF RunsInv, OneRunEach, InUse, UsedByRuns, ControlsRuns, ControlsRun, DrainingIsOn

\* Reload loads a document.
LEMMA ReloadLoads ==
  ASSUME TypeInv, Reload
  PROVE  Loaded'
PROOF
  <1>1. page' = [page EXCEPT !.mount = 0, !.due = FALSE] /\ UNCHANGED mine
    BY DEF Reload
  <1> QED
    BY <1>1, PageIs DEF Reload, Loaded, TypeInv, RuntimeT

\* The page, the user and the session leave the runs as they are.
PageStep ==
    \/ LoadHistory \/ Open \/ Leave \/ Clear \/ SignOut \/ Notice \/ LogOut \/ SignIn
    \/ \E c \in Convs : Submit(c) \/ Delete(c)

\* The steps of the page and of its user start no run.
LEMMA PageStepsKeepRuns ==
  ASSUME TypeInv, RunsInv, PageStep
  PROVE  RunsInv'
PROOF
  <1>1. UNCHANGED <<loop, active>>
    BY DEF PageStep, LoadHistory, Open, Leave, Clear, SignOut, Notice, LogOut, SignIn, Submit, Delete
  <1>2. (\A c \in Convs : control'[c] \in {control[c], None}) /\ (draining' => draining)
    <2>1. CASE LoadHistory \/ Open \/ Leave \/ SignOut \/ SignIn \/ \E c \in Convs : Submit(c)
      <3>1. UNCHANGED <<control, draining>>
        <4>1. CASE LoadHistory
          BY <4>1, LoadHistoryIs DEF runtime
        <4>2. CASE Open \/ Leave \/ SignOut \/ SignIn
          BY <4>2 DEF Open, Leave, SignOut, SignIn, runtime
        <4>3. CASE \E c \in Convs : Submit(c)
          BY <4>3, SubmitIs DEF runtime
        <4> QED
          BY <2>1, <4>1, <4>2, <4>3
      <3> QED
        BY <3>1
    <2>2. CASE Notice \/ LogOut
      BY <2>2, EvictOnlyShrinks DEF Notice, LogOut, TypeInv
    <2>3. CASE Clear \/ \E c \in Convs : Delete(c)
      <3>1. control \in [Convs -> Loops \cup {None}]
        BY DEF TypeInv, RuntimeT
      <3>2. CASE Clear
        BY <3>2 DEF Clear
      <3>3. ASSUME NEW d \in Convs, Delete(d)
            PROVE  (\A c \in Convs : control'[c] \in {control[c], None}) /\ (draining' => draining)
        <4>1. control' = [control EXCEPT ![d] = None] /\ UNCHANGED draining
          BY <3>3 DEF Delete
        <4> QED
          BY <3>1, <4>1
      <3> QED
        BY <2>3, <3>2, <3>3
    <2> QED
      BY <2>1, <2>2, <2>3 DEF PageStep
  <1>3. SameRuns /\ StillOn
    BY <1>1 DEF SameRuns, SameRun, StillOn, Running, On
  <1> QED
    BY <1>1, <1>2, <1>3, RunsKept

\* The steps of the queue by what they do to runs.
LEMMA NextCases ==
  ASSUME [Next]_vars
  PROVE  \/ \E l \in Loops : LoopPick(l) \/ LoopEnter(l) \/ LoopEnd(l) \/ MidRun(l)
         \/ WriteDone \/ WriteFailed \/ DrainEffect \/ PageStep \/ Reload \/ UNCHANGED vars
  BY DEF Next, Continue, Progress, User, LoopStep, MidRun, PageStep

\* Every step keeps the invariant of runs.
LEMMA StepKeepsRuns == TypeInv /\ RunsInv /\ [Next]_vars => RunsInv'
PROOF
  <1> SUFFICES ASSUME TypeInv, RunsInv, [Next]_vars PROVE RunsInv'
    OBVIOUS
  <1>1. ASSUME NEW l \in Loops, LoopPick(l) \/ LoopEnter(l) \/ LoopEnd(l) PROVE RunsInv'
    BY <1>1, PickKeepsRuns, EnterKeepsRuns, EndKeepsRuns
  <1>2. ASSUME NEW l \in Loops, MidRun(l) PROVE RunsInv'
    BY <1>2, MidRunGoesOn, MidRunShrinks, RunsKept
  <1>3. CASE WriteDone \/ WriteFailed
    <2>1. /\ writes # <<>> /\ \E ok \in BOOLEAN : Resume(Head(writes).by, ok)
          /\ UNCHANGED <<control, active>>
      BY <1>3 DEF WriteDone, WriteFailed
    <2>2. Head(writes).by \in Bys /\ Awaited(Head(writes).by)
      BY <2>1, HeadIs DEF TypeInv
    <2>3. SameRuns /\ StillOn /\ (draining' => draining \/ \E k \in Loops : On(k)')
      BY <2>1, <2>2, ResumeRuns
    <2> QED
      BY <2>1, <2>3, RunsKept
  <1>4. CASE DrainEffect
    <2>1. TryDrain(page.mount) /\ UNCHANGED <<control, active>>
      BY <1>4 DEF DrainEffect
    <2> QED
      BY <2>1, TryDrainRuns, RunsKept DEF TypeInv
  <1>5. CASE PageStep
    BY <1>5, PageStepsKeepRuns
  <1>6. CASE Reload
    BY <1>6, ReloadLoads, LoadedRuns, PTL
  <1>7. CASE UNCHANGED vars
    <2>1. UNCHANGED <<loop, control, active, draining>>
      BY <1>7 DEF vars, runtime
    <2>2. SameRuns /\ StillOn
      BY <2>1 DEF SameRuns, SameRun, StillOn, Running, On
    <2> QED
      BY <2>1, <2>2, RunsKept
  <1> QED
    BY <1>1, <1>2, <1>3, <1>4, <1>5, <1>6, <1>7, NextCases

\* The document was just loaded initially.
LEMMA InitLoads == Init => Loaded
  BY QueueAssumption DEF Init, Loaded

\* A conversation is run by one loop at a time, which the runtime knows of.
THEOREM RunsAreHeld == Spec => [](TypeInv /\ RunsInv)
PROOF
  <1>1. Init => TypeInv /\ RunsInv
    BY InitHasTypes, InitLoads, LoadedRuns
  <1> QED
    BY <1>1, StepKeepsTypes, StepKeepsRuns, PTL DEF Spec
-----------------------------------------------------------------------------
(* What the steps do to the conversations and to the writes.               *)

IdsOf(conv) == IF conv = None THEN {} ELSE {conv.turns[k].id : k \in DOMAIN conv.turns}
QueuedOf(conv) ==
    IF conv = None THEN {}
    ELSE {conv.turns[k].id : k \in {j \in DOMAIN conv.turns : conv.turns[j].status = "queued"}}

\* A conversation with some of its turns changed.
EditOf(new, old) ==
    /\ new \in Conversation /\ old \in Conversation /\ new.ver = old.ver + 1
    /\ IdsOf(new) = IdsOf(old) /\ QueuedOf(new) \subseteq QueuedOf(old)

\* Turns are changed one by one: the conversation keeps its turns, and what was not queued is not queued.
LEMMA EditedIs ==
  ASSUME NEW conv \in Conversation, NEW new \in Conversation, new.ver = conv.ver + 1,
         DOMAIN new.turns = DOMAIN conv.turns,
         \A k \in DOMAIN conv.turns :
            /\ new.turns[k].id = conv.turns[k].id
            /\ new.turns[k].status = "queued" => conv.turns[k].status = "queued"
  PROVE  EditOf(new, conv)
PROOF
  <1>1. new # None /\ conv # None
    BY NoneIsNoConversation
  <1>2. IdsOf(new) = IdsOf(conv)
    BY <1>1 DEF IdsOf
  <1>3. QueuedOf(new) \subseteq QueuedOf(conv)
    BY <1>1 DEF QueuedOf
  <1> QED
    BY <1>2, <1>3 DEF EditOf

\* The turns that the steps of a run make.
LEMMA TurnsKeepTheirPlace ==
  ASSUME NEW x \in Turn
  PROVE  /\ Generating(x).id = x.id /\ Generating(x).status = "generating"
         /\ Failed(x).id = x.id /\ Failed(x).status = "error"
         /\ Cancelled(x).id = x.id /\ (Cancelled(x).status = "queued" => x.status = "queued")
         /\ Cancelled(x).status # "queued"
         /\ Finished(x).id = x.id /\ Finished(x).status # "queued"
         /\ Recover(x).id = x.id /\ Recover(x).status # "queued"
PROOF
  <1>0. /\ x = [id |-> x.id, status |-> x.status, img |-> x.img]
        /\ x.id \in Turns /\ x.status \in Statuses /\ x.img \in [Count(x.id) -> ImageStatus]
    BY TurnIs
  <1>1. Generating(x).id = x.id /\ Generating(x).status = "generating"
    BY <1>0 DEF Generating
  <1>2. Failed(x).id = x.id /\ Failed(x).status = "error"
    <2> DEFINE y == [x EXCEPT !.status = "error"]
    <2>1. y.id = x.id /\ y.status = "error" /\ DOMAIN y = {"id", "status", "img"}
      BY <1>0
    <2>2. Failed(x) = [y EXCEPT !.img = Without(x)]
      BY DEF Failed
    <2> HIDE DEF y
    <2> QED
      BY <2>1, <2>2
  <1>3. Finished(x).id = x.id /\ Finished(x).status # "queued"
    <2> DEFINE s == Outcome(Without(x))
               y == [x EXCEPT !.status = s]
    <2>0. s # "queued"
      BY OutcomeIs
    <2> HIDE DEF s
    <2>1. y.id = x.id /\ y.status = s /\ DOMAIN y = {"id", "status", "img"}
      BY <1>0
    <2>2. Finished(x) = [y EXCEPT !.img = Without(x)]
      BY DEF Finished, s
    <2> HIDE DEF y
    <2> QED
      BY <2>0, <2>1, <2>2
  <1> QED
    BY <1>1, <1>2, <1>3 DEF Cancelled, Recover, Unfinished

\* The edits of a run.
LEMMA EditsAre ==
  ASSUME NEW conv \in Conversation, NEW t
  PROVE  /\ EditOf(Edited(conv, t, Generating), conv)
         /\ t \notin QueuedOf(Edited(conv, t, Generating))
         /\ EditOf(Edited(conv, t, Cancelled), conv)
         /\ EditOf(Edited(conv, t, Finished), conv)
         /\ EditOf(Edited(conv, t, Failed), conv)
PROOF
  <1>0. \A k \in DOMAIN conv.turns : conv.turns[k] \in Turn
    BY DEF Conversation
  <1>1. EditOf(Edited(conv, t, Generating), conv) /\ t \notin QueuedOf(Edited(conv, t, Generating))
    <2> DEFINE ts == [k \in DOMAIN conv.turns |-> IF conv.turns[k].id = t THEN Generating(conv.turns[k]) ELSE conv.turns[k]]
    <2>1. Edited(conv, t, Generating) = [ver |-> conv.ver + 1, turns |-> ts]
      BY DEF Edited
    <2>2. \A k \in DOMAIN conv.turns :
             /\ ts[k].id = conv.turns[k].id
             /\ ts[k].status = "queued" => conv.turns[k].status = "queued" /\ ts[k].id # t
      BY <1>0, TurnsKeepTheirPlace
    <2>3. DOMAIN ts = DOMAIN conv.turns
      OBVIOUS
    <2> HIDE DEF ts
    <2> DEFINE new == Edited(conv, t, Generating)
    <2>4. new.ver = conv.ver + 1 /\ new.turns = ts
      BY <2>1
    <2>5. new \in Conversation
      BY ConversationsMade
    <2> HIDE DEF new
    <2>6. EditOf(new, conv)
      BY <2>2, <2>3, <2>4, <2>5, EditedIs
    <2>7. t \notin QueuedOf(new)
      BY <2>2, <2>3, <2>4 DEF QueuedOf
    <2> QED
      BY <2>6, <2>7 DEF new
  <1>2. EditOf(Edited(conv, t, Cancelled), conv)
    <2> DEFINE ts == [k \in DOMAIN conv.turns |-> IF conv.turns[k].id = t THEN Cancelled(conv.turns[k]) ELSE conv.turns[k]]
    <2>1. Edited(conv, t, Cancelled) = [ver |-> conv.ver + 1, turns |-> ts]
      BY DEF Edited
    <2>2. \A k \in DOMAIN conv.turns :
             /\ ts[k].id = conv.turns[k].id
             /\ ts[k].status = "queued" => conv.turns[k].status = "queued"
      BY <1>0, TurnsKeepTheirPlace
    <2>3. DOMAIN ts = DOMAIN conv.turns
      OBVIOUS
    <2> HIDE DEF ts
    <2> DEFINE new == Edited(conv, t, Cancelled)
    <2>4. new.ver = conv.ver + 1 /\ new.turns = ts
      BY <2>1
    <2>5. new \in Conversation
      BY ConversationsMade
    <2> HIDE DEF new
    <2>6. EditOf(new, conv)
      BY <2>2, <2>3, <2>4, <2>5, EditedIs
    <2> QED
      BY <2>6 DEF new
  <1>3. EditOf(Edited(conv, t, Finished), conv)
    <2> DEFINE ts == [k \in DOMAIN conv.turns |-> IF conv.turns[k].id = t THEN Finished(conv.turns[k]) ELSE conv.turns[k]]
    <2>1. Edited(conv, t, Finished) = [ver |-> conv.ver + 1, turns |-> ts]
      BY DEF Edited
    <2>2. \A k \in DOMAIN conv.turns :
             /\ ts[k].id = conv.turns[k].id
             /\ ts[k].status = "queued" => conv.turns[k].status = "queued"
      BY <1>0, TurnsKeepTheirPlace
    <2>3. DOMAIN ts = DOMAIN conv.turns
      OBVIOUS
    <2> HIDE DEF ts
    <2> DEFINE new == Edited(conv, t, Finished)
    <2>4. new.ver = conv.ver + 1 /\ new.turns = ts
      BY <2>1
    <2>5. new \in Conversation
      BY ConversationsMade
    <2> HIDE DEF new
    <2>6. EditOf(new, conv)
      BY <2>2, <2>3, <2>4, <2>5, EditedIs
    <2> QED
      BY <2>6 DEF new
  <1>4. EditOf(Edited(conv, t, Failed), conv)
    <2> DEFINE ts == [k \in DOMAIN conv.turns |-> IF conv.turns[k].id = t THEN Failed(conv.turns[k]) ELSE conv.turns[k]]
    <2>1. Edited(conv, t, Failed) = [ver |-> conv.ver + 1, turns |-> ts]
      BY DEF Edited
    <2>2. \A k \in DOMAIN conv.turns :
             /\ ts[k].id = conv.turns[k].id
             /\ ts[k].status = "queued" => conv.turns[k].status = "queued"
      BY <1>0, TurnsKeepTheirPlace
    <2>3. DOMAIN ts = DOMAIN conv.turns
      OBVIOUS
    <2> HIDE DEF ts
    <2> DEFINE new == Edited(conv, t, Failed)
    <2>4. new.ver = conv.ver + 1 /\ new.turns = ts
      BY <2>1
    <2>5. new \in Conversation
      BY ConversationsMade
    <2> HIDE DEF new
    <2>6. EditOf(new, conv)
      BY <2>2, <2>3, <2>4, <2>5, EditedIs
    <2> QED
      BY <2>6 DEF new
  <1> QED
    BY <1>1, <1>2, <1>3, <1>4

\* Conversations that are recovered, or brought back, have nothing queued.
LEMMA OverIs ==
  ASSUME NEW conv \in Conversation \cup {None}
  PROVE  /\ IdsOf(Over(conv, Recover)) = IdsOf(conv) /\ QueuedOf(Over(conv, Recover)) = {}
         /\ IdsOf(MarkAborted(conv)) = IdsOf(conv) /\ QueuedOf(MarkAborted(conv)) = {}
         /\ Over(conv, Recover) = None <=> conv = None
         /\ MarkAborted(conv) = None <=> conv = None
         /\ conv # None => Over(conv, Recover).ver >= conv.ver
         /\ Over(Over(conv, Recover), Recover) = Over(conv, Recover)
PROOF
  <1>1. CASE conv = None \/ \A k \in DOMAIN conv.turns : ~Unfinished(conv.turns[k])
    <2>1. Over(conv, Recover) = conv /\ MarkAborted(conv) = conv
      BY <1>1 DEF Over, MarkAborted
    <2>2. QueuedOf(conv) = {}
      BY <1>1 DEF QueuedOf, Unfinished
    <2>3. conv # None => conv.ver >= conv.ver
      BY DEF Conversation
    <2> QED
      BY <2>1, <2>2, <2>3
  <1>2. CASE conv \in Conversation /\ \E k \in DOMAIN conv.turns : Unfinished(conv.turns[k])
    <2>0. conv # None /\ conv.ver \in Nat /\ \A k \in DOMAIN conv.turns : conv.turns[k] \in Turn
      BY <1>2, NoneIsNoConversation DEF Conversation
    <2>1. ASSUME NEW ts, DOMAIN ts = DOMAIN conv.turns,
                 [ver |-> conv.ver + 1, turns |-> ts] \in Conversation,
                 \A k \in DOMAIN conv.turns : ts[k].id = conv.turns[k].id /\ ts[k].status # "queued"
          PROVE  LET new == [ver |-> conv.ver + 1, turns |-> ts]
                 IN  new # None /\ IdsOf(new) = IdsOf(conv) /\ QueuedOf(new) = {}
      <3> DEFINE new == [ver |-> conv.ver + 1, turns |-> ts]
      <3>1. new # None /\ new.turns = ts
        BY <2>1, NoneIsNoConversation
      <3> HIDE DEF new
      <3>2. IdsOf(new) = IdsOf(conv)
        BY <2>0, <2>1, <3>1 DEF IdsOf
      <3>3. QueuedOf(new) = {}
        BY <2>1, <3>1 DEF QueuedOf
      <3> QED
        BY <3>1, <3>2, <3>3 DEF new
    <2>2. /\ IdsOf(Over(conv, Recover)) = IdsOf(conv) /\ QueuedOf(Over(conv, Recover)) = {}
          /\ Over(conv, Recover) # None /\ Over(conv, Recover).ver >= conv.ver
          /\ Over(Over(conv, Recover), Recover) = Over(conv, Recover)
      <3> DEFINE ts == [k \in DOMAIN conv.turns |-> Recover(conv.turns[k])]
      <3>1. Over(conv, Recover) = [ver |-> conv.ver + 1, turns |-> ts]
        BY <1>2, <2>0 DEF Over
      <3>2. DOMAIN ts = DOMAIN conv.turns /\ [ver |-> conv.ver + 1, turns |-> ts] \in Conversation
        BY <1>2, <3>1, ConversationsMade
      <3>3. \A k \in DOMAIN conv.turns : ts[k].id = conv.turns[k].id /\ ts[k].status # "queued" /\ ~Unfinished(ts[k])
        <4> TAKE k \in DOMAIN conv.turns
        <4>1. ts[k] = Recover(conv.turns[k]) /\ conv.turns[k] \in Turn
          BY <2>0
        <4>2. ts[k].id = conv.turns[k].id /\ ts[k].status # "queued"
          BY <4>1, TurnsKeepTheirPlace
        <4>3. ~Unfinished(ts[k])
          <5>1. CASE ~Unfinished(conv.turns[k])
            BY <4>1, <5>1 DEF Recover
          <5>2. CASE Unfinished(conv.turns[k])
            <6> DEFINE x == conv.turns[k]
                       s == Outcome(Without(x))
                       y == [x EXCEPT !.status = s]
            <6>1. s \in {"success", "error"}
              BY OutcomeIs
            <6>2. x = [id |-> x.id, status |-> x.status, img |-> x.img]
              BY <4>1, TurnIs
            <6>3. ts[k] = [y EXCEPT !.img = Without(x)]
              BY <4>1, <5>2 DEF Recover, Finished
            <6> HIDE DEF x, s
            <6>4. y.status = s /\ DOMAIN y = {"id", "status", "img"}
              BY <6>2
            <6> HIDE DEF y
            <6>5. ts[k].status = s
              BY <6>3, <6>4
            <6> QED
              BY <6>1, <6>5 DEF Unfinished
          <5> QED
            BY <5>1, <5>2
        <4> QED
          BY <4>2, <4>3
      <3> HIDE DEF ts
      <3>4. LET new == [ver |-> conv.ver + 1, turns |-> ts]
            IN  new # None /\ IdsOf(new) = IdsOf(conv) /\ QueuedOf(new) = {}
        BY <2>1, <3>2, <3>3
      <3>5. Over(conv, Recover).ver >= conv.ver
        BY <2>0, <3>1
      <3>6. Over(Over(conv, Recover), Recover) = Over(conv, Recover)
        <4> DEFINE new == Over(conv, Recover)
        <4>1. \A k \in DOMAIN new.turns : ~Unfinished(new.turns[k])
          BY <3>1, <3>2, <3>3
        <4> HIDE DEF new
        <4>2. Over(new, Recover) = new
          BY <4>1 DEF Over
        <4> QED
          BY <4>2 DEF new
      <3> QED
        BY <3>1, <3>4, <3>5, <3>6
    <2>3. /\ IdsOf(MarkAborted(conv)) = IdsOf(conv) /\ QueuedOf(MarkAborted(conv)) = {}
          /\ MarkAborted(conv) # None
      <3> DEFINE ts == [k \in DOMAIN conv.turns |-> Cancelled(conv.turns[k])]
      <3>1. MarkAborted(conv) = [ver |-> conv.ver + 1, turns |-> ts]
        BY <1>2, <2>0 DEF Over, MarkAborted
      <3>2. DOMAIN ts = DOMAIN conv.turns /\ [ver |-> conv.ver + 1, turns |-> ts] \in Conversation
        BY <1>2, <3>1, ConversationsMade DEF MarkAborted
      <3>3. \A k \in DOMAIN conv.turns : ts[k].id = conv.turns[k].id /\ ts[k].status # "queued"
        BY <2>0, TurnsKeepTheirPlace
      <3> HIDE DEF ts
      <3>4. LET new == [ver |-> conv.ver + 1, turns |-> ts]
            IN  new # None /\ IdsOf(new) = IdsOf(conv) /\ QueuedOf(new) = {}
        BY <2>1, <3>2, <3>3
      <3> QED
        BY <3>1, <3>4
    <2> QED
      BY <2>0, <2>2, <2>3
  <1> QED
    BY <1>1, <1>2

\* Putting an answer in edits a conversation that is shown.
LEMMA WithAnswerEdits ==
  ASSUME TypeInv, NEW l \in Loops, NEW w \in Workers, worker[l][w].pc = "answered", Pending(l, w)
  PROVE  EditOf(WithAnswer(l, w), list[loop[l].conv])
PROOF
  <1> DEFINE conv == list[loop[l].conv]
             new == WithAnswer(l, w)
             i == worker[l][w].img
             out == worker[l][w].out
             ts == [k \in DOMAIN conv.turns |->
                      IF conv.turns[k].id = loop[l].turn THEN [conv.turns[k] EXCEPT !.img[i] = out] ELSE conv.turns[k]]
  <1>1. conv \in Conversation /\ new \in Conversation /\ new.ver = conv.ver + 1
    BY WithAnswerIs
  <1>2. new.turns = ts
    BY DEF WithAnswer, Edited
  <1>3. \A k \in DOMAIN conv.turns : conv.turns[k] \in Turn
    BY <1>1 DEF Conversation
  <1>4. out \in {"success", "error"}
    BY DEF TypeInv, WorkerT
  <1>5. ASSUME NEW k \in DOMAIN conv.turns
        PROVE  ts[k].id = conv.turns[k].id /\ ts[k].status = conv.turns[k].status
    <2> DEFINE x == conv.turns[k]
    <2>1. x = [id |-> x.id, status |-> x.status, img |-> x.img]
      BY <1>3, TurnIs
    <2> HIDE DEF x
    <2>2. [x EXCEPT !.img[i] = out].id = x.id /\ [x EXCEPT !.img[i] = out].status = x.status
      BY <2>1
    <2>3. ts[k] = IF x.id = loop[l].turn THEN [x EXCEPT !.img[i] = out] ELSE x
      BY DEF x
    <2>4. ts[k].id = x.id /\ ts[k].status = x.status
      BY <2>2, <2>3
    <2> QED
      BY <2>4 DEF x
  <1>6. DOMAIN ts = DOMAIN conv.turns
    OBVIOUS
  <1> HIDE DEF ts, new, conv
  <1>7. EditOf(new, conv)
    BY <1>1, <1>2, <1>5, <1>6, EditedIs
  <1> QED
    BY <1>7 DEF new, conv

\* A run leaves the conversations and the writes alone, ...
Silent == UNCHANGED <<memory, writes>>
\* ... changes its conversation and saves it, ...
Rewrites(l, conv) ==
    LET c == loop[l].conv IN
    /\ EditOf(conv, list[c]) /\ Put(loop[l].mount, c, conv)
    /\ writes' = Save(c, conv, [kind |-> "loop", l |-> l])
\* ... cancels its turn in memory, ...
Cancels(l, conv) ==
    LET c == loop[l].conv IN
    /\ l \in aborted /\ EditOf(conv, list[c]) /\ Put(loop[l].mount, c, conv)
    /\ UNCHANGED writes
\* ... puts an answer into its conversation, which a worker will save, ...
Answers(l, w) ==
    LET c == loop[l].conv
        conv == WithAnswer(l, w)
    IN
    /\ EditOf(conv, list[c]) /\ Put(loop[l].mount, c, conv)
    /\ UNCHANGED <<writes, loop>>
    /\ worker[l][w].pc = "answered" /\ worker'[l][w].pc = "chained" /\ worker'[l][w].ver = conv.ver
\* ... or saves its conversation as it is.
Stores(l, w) ==
    LET c == loop[l].conv IN
    /\ list[c] \in Conversation /\ list[c].ver = worker[l][w].ver /\ UNCHANGED <<memory, loop>>
    /\ writes' = Save(c, list[c], [kind |-> "worker", l |-> l, w |-> w])
    /\ worker[l][w].pc = "chained" /\ worker'[l][w].pc = "saving"

RunDoes(l) ==
    \/ Silent
    \/ \E conv \in Conversation : Rewrites(l, conv) \/ Cancels(l, conv)
    \/ \E w \in Workers : Answers(l, w) \/ Stores(l, w)

RunStep(l) == LoopPick(l) \/ LoopEnter(l) \/ LoopEnd(l) \/ MidRun(l)
Elsewhere == <<load, disk, mine, used, happened>>

\* What a step of a run does to the screen and to the queue of writes, action by action.
LEMMA RunStepDoes ==
  ASSUME TypeInv, NEW l \in Loops, RunStep(l)
  PROVE  UNCHANGED Elsewhere /\ RunDoes(l)
PROOF
  <1> DEFINE c == loop[l].conv
  <1>0. Shape /\ (list[c] # None /\ c \in Convs => list[c] \in Conversation)
    BY DEF TypeInv, MemoryT, ItemsT
  <1>1. CASE LoopPick(l) \/ LoopEnd(l)
    BY <1>1 DEF LoopPick, LoopEnd, Elsewhere, RunDoes, Silent
  <1>2. CASE LoopEnter(l)
    <2> DEFINE conv == Edited(list[c], EnteredTurn(l).id, Generating)
    <2>1. UNCHANGED Elsewhere /\ c \in Convs
      BY <1>2 DEF LoopEnter, Elsewhere, TypeInv, LoopT
    <2>2. CASE list[c] = None
      BY <1>2, <2>1, <2>2 DEF LoopEnter, RunDoes, Silent
    <2>3. CASE list[c] # None
      <3>1. Put(loop[l].mount, c, conv) /\ writes' = Save(c, conv, [kind |-> "loop", l |-> l])
        BY <1>2, <2>3 DEF LoopEnter, EnteredTurn
      <3>2. EditOf(conv, list[c])
        BY <1>0, <2>1, <2>3, EditsAre
      <3> HIDE DEF conv
      <3>3. conv \in Conversation /\ Rewrites(l, conv)
        BY <3>1, <3>2 DEF Rewrites, EditOf
      <3> QED
        BY <2>1, <3>3 DEF RunDoes
    <2> QED
      BY <2>2, <2>3
  <1>3. CASE LoopTurnedAway(l) \/ LoopBatch(l) \/ LoopDisowned(l) \/ LoopQuota(l)
    BY <1>3 DEF LoopTurnedAway, LoopBatch, LoopDisowned, LoopQuota, Elsewhere, RunDoes, Silent
  <1>4. CASE LoopJoin(l)
    <2> DEFINE conv == Edited(list[c], loop[l].turn, Cancelled)
    <2>1. UNCHANGED Elsewhere /\ UNCHANGED writes /\ c \in Convs
      BY <1>4 DEF LoopJoin, Elsewhere, TypeInv, LoopT
    <2>2. UNCHANGED memory \/ (l \in aborted /\ list[c] # None /\ Put(loop[l].mount, c, conv))
      BY <1>4 DEF LoopJoin
    <2>3. CASE UNCHANGED memory
      BY <2>1, <2>3 DEF RunDoes, Silent
    <2>4. CASE l \in aborted /\ list[c] # None /\ Put(loop[l].mount, c, conv)
      <3>2. EditOf(conv, list[c])
        BY <1>0, <2>1, <2>4, EditsAre
      <3> HIDE DEF conv
      <3>3. conv \in Conversation /\ Cancels(l, conv)
        BY <2>1, <2>4, <3>2 DEF Cancels, EditOf
      <3> QED
        BY <2>1, <3>3 DEF RunDoes
    <2> QED
      BY <2>2, <2>3, <2>4
  <1>5. ASSUME NEW pc, NEW next, NEW conv, SettlesAs(l, pc, next, conv), c \in Convs,
               list[c] # None => EditOf(conv, list[c])
        PROVE  UNCHANGED Elsewhere /\ RunDoes(l)
    <2>1. UNCHANGED Elsewhere
      BY <1>5 DEF SettlesAs, Elsewhere
    <2>2. CASE list[c] = None
      BY <1>5, <2>1, <2>2 DEF SettlesAs, RunDoes, Silent
    <2>3. CASE list[c] # None
      <3>1. conv \in Conversation /\ Rewrites(l, conv)
        BY <1>5, <2>3 DEF SettlesAs, Rewrites, EditOf
      <3> QED
        BY <2>1, <3>1 DEF RunDoes
    <2> QED
      BY <2>2, <2>3
  <1>6. CASE LoopFinal(l) \/ LoopFail(l)
    <2>1. c \in Convs
      BY <1>6 DEF LoopFinal, LoopFail, SettleTurn, TypeInv, LoopT
    <2>2. list[c] # None => /\ EditOf(Edited(list[c], loop[l].turn, Finished), list[c])
                            /\ EditOf(Edited(list[c], loop[l].turn, Failed), list[c])
      BY <1>0, <2>1, EditsAre
    <2> QED
      BY <1>5, <1>6, <2>1, <2>2, SettledIs
  <1>7. ASSUME NEW w \in Workers, WorkerStep(l, w)
        PROVE  UNCHANGED Elsewhere /\ RunDoes(l)
    <2>1. CASE WorkerTake(l, w) \/ WorkerStop(l, w) \/ WorkerAnswered(l, w) \/ WorkerLate(l, w) \/ WorkerChainBroken(l, w)
      BY <2>1 DEF WorkerTake, WorkerStop, WorkerAnswered, WorkerLate, WorkerChainBroken, Elsewhere, RunDoes, Silent
    <2>2. CASE WorkerPut(l, w)
      <3>1. UNCHANGED Elsewhere /\ Answers(l, w)
        BY <1>0, <2>2, AnswerPutDoes, WithAnswerEdits DEF Elsewhere, Answers
      <3> QED
        BY <3>1 DEF RunDoes
    <2>3. CASE WorkerSave(l, w)
      <3>1. /\ UNCHANGED Elsewhere /\ UNCHANGED <<memory, loop>> /\ worker[l][w].pc = "chained"
            /\ Saves(l, w) \/ FindsReplaced(l, w)
        BY <2>3, SaveIs DEF Elsewhere
      <3>2. CASE FindsReplaced(l, w)
        BY <3>1, <3>2 DEF FindsReplaced, RunDoes, Silent
      <3>3. CASE Saves(l, w)
        <4>1. c \in Convs
          BY <3>1, InBatch
        <4>2. Stores(l, w)
          BY <1>0, <3>1, <3>3, <4>1, SavingDoes DEF Saves, Stores
        <4> QED
          BY <3>1, <4>2 DEF RunDoes
      <3> QED
        BY <3>1, <3>2, <3>3
    <2> QED
      BY <1>7, <2>1, <2>2, <2>3 DEF WorkerStep
  <1> QED
    BY <1>1, <1>2, <1>3, <1>4, <1>6, <1>7 DEF RunStep, MidRun

\* The writes that are appended by a run.
LEMMA SaveIsWrite ==
  ASSUME NEW c \in Convs, NEW conv \in Conversation, NEW b \in Bys, b.kind \in {"loop", "worker", "submit"},
         writes' = Save(c, conv, b)
  PROVE  \E x \in Writes : /\ writes' = Append(writes, x) /\ x.by = b /\ x.op = "save"
                           /\ x.items[c] = conv /\ \A d \in Convs \ {c} : x.items[d] = None
PROOF
  <1>1. PICK x \in Writes : Saved(x, c, conv, b)
    BY SaveDoes
  <1>2. x.items[c] = conv /\ \A d \in Convs \ {c} : x.items[d] = None
    BY <1>1 DEF Saved, NoItems
  <1> QED
    BY <1>1, <1>2 DEF Saved

\* What a run makes of the conversations and the writes, whatever it does.
SaveBy(x, c, kinds) ==
    /\ x.op = "save" /\ x.by.kind \in kinds /\ x.items[c] = list'[c] /\ list'[c] \in Conversation
    /\ \A d \in Convs \ {c} : x.items[d] = None
RunLeaves(l) ==
    LET c == loop[l].conv IN
    /\ page'.mount = page.mount /\ page'.opened = page.opened
    /\ \/ UNCHANGED <<list, ref>>
       \/ /\ list'[c] \in Conversation /\ EditOf(list'[c], list[c]) /\ c \in Convs
          /\ list' = [list EXCEPT ![c] = list'[c]]
          /\ \A m \in Mounts : ref'[m] = IF m = loop[l].mount \/ m = page.mount THEN list' ELSE ref[m]
    /\ \/ UNCHANGED writes
       \/ \E x \in Writes : writes' = Append(writes, x) /\ SaveBy(x, c, {"loop", "worker"}) /\ c \in Convs

\* What a step of a run leaves to wait for, action by action.
LEMMA RunStepLeaves ==
  ASSUME TypeInv, NEW l \in Loops, RunStep(l)
  PROVE  UNCHANGED Elsewhere /\ RunLeaves(l)
PROOF
  <1> DEFINE c == loop[l].conv
             b == [kind |-> "loop", l |-> l]
  <1>0. UNCHANGED Elsewhere /\ RunDoes(l)
    BY RunStepDoes
  <1>1. CASE Silent
    BY <1>0, <1>1 DEF Silent, memory, RunLeaves
  <1>2. ASSUME NEW conv, EditOf(conv, list[c]), Put(loop[l].mount, c, conv), c \in Convs
        PROVE  /\ page'.mount = page.mount /\ page'.opened = page.opened
               /\ list'[c] = conv /\ list' = [list EXCEPT ![c] = list'[c]]
               /\ \A k \in Mounts : ref'[k] = IF k = loop[l].mount \/ k = page.mount THEN list' ELSE ref[k]
    <2> DEFINE m == loop[l].mount
    <2>1. list \in ItemsT /\ conv \in Conversation \cup {None} /\ MemoryT /\ Put(m, c, conv) /\ c \in Convs
      BY <1>2 DEF TypeInv, MemoryT, EditOf
    <2> HIDE DEF c, m
    <2>2. list' = [list EXCEPT ![c] = conv]
      BY <2>1 DEF Put, Show
    <2>4. page'.mount = page.mount /\ page'.opened = page.opened
      BY <2>1, PutDoes
    <2>3. \A k \in Mounts : ref'[k] = IF k = m \/ k = page.mount THEN list' ELSE ref[k]
      BY <2>1, PutDoes
    <2> QED
      BY <2>1, <2>2, <2>3, <2>4 DEF ItemsT, m
  <1>3. b \in Bys /\ b.kind = "loop" /\ \A w \in Workers : [kind |-> "worker", l |-> l, w |-> w] \in Bys
    BY DEF Bys
  <1>4. Running(l) \/ loop[l].pc = "enter" => c \in Convs
    BY DEF TypeInv, LoopT, Running
  <1>5. c \notin Convs => Silent
    <2>1. loop[l].pc \in {"off", "pick"} => Silent
      <3>1. ASSUME NEW w \in Workers, worker[l][w].pc # "done" PROVE loop[l].pc = "batch"
        BY <3>1 DEF TypeInv, WorkerT
      <3>2. CASE LoopPick(l)
        BY <3>2 DEF LoopPick, Silent
      <3>3. loop[l].pc \in {"off", "pick"} => ~LoopEnter(l) /\ ~LoopEnd(l)
        BY DEF LoopEnter, LoopEnd
      <3>4. loop[l].pc \in {"off", "pick"} => /\ ~LoopTurnedAway(l) /\ ~LoopBatch(l) /\ ~LoopDisowned(l) /\ ~LoopJoin(l)
                                              /\ ~LoopFinal(l) /\ ~LoopFail(l) /\ ~LoopQuota(l)
        BY DEF LoopTurnedAway, LoopBatch, LoopDisowned, LoopJoin, LoopFinal, LoopFail, SettleTurn, LoopQuota
      <3>5. ASSUME loop[l].pc \in {"off", "pick"}, NEW w \in Workers PROVE ~WorkerStep(l, w)
        <4>1. worker[l][w].pc = "done"
          BY <3>1, <3>5
        <4> QED
          BY <4>1 DEF WorkerStep, WorkerTake, WorkerStop, WorkerAnswered, WorkerPut, WorkerLate, WorkerSave, WorkerChainBroken
      <3> QED
        BY <3>2, <3>3, <3>4, <3>5 DEF RunStep, MidRun
    <2> QED
      BY <1>4, <2>1 DEF Running
  <1>6. CASE c \in Convs
    <2> HIDE DEF b
    <2>1. ASSUME NEW conv \in Conversation, Rewrites(l, conv) PROVE RunLeaves(l)
      <3>1. PICK x \in Writes : /\ writes' = Append(writes, x) /\ x.by = b /\ x.op = "save"
                                /\ x.items[c] = conv /\ \A d \in Convs \ {c} : x.items[d] = None
        BY <1>3, <1>6, <2>1, SaveIsWrite DEF Rewrites, b
      <3> QED
        BY <1>2, <1>3, <1>6, <2>1, <3>1 DEF Rewrites, RunLeaves, SaveBy
    <2>2. ASSUME NEW conv \in Conversation, Cancels(l, conv) PROVE RunLeaves(l)
      BY <1>2, <1>6, <2>2 DEF Cancels, RunLeaves
    <2>3. ASSUME NEW w \in Workers, Answers(l, w) PROVE RunLeaves(l)
      <3>1. WithAnswer(l, w) \in Conversation
        BY <2>3 DEF Answers, EditOf
      <3> QED
        BY <1>2, <1>6, <2>3, <3>1 DEF Answers, RunLeaves
    <2>4. ASSUME NEW w \in Workers, Stores(l, w) PROVE RunLeaves(l)
      <3> DEFINE v == [kind |-> "worker", l |-> l, w |-> w]
      <3>0. v \in Bys /\ v.kind = "worker" /\ list[c] \in Conversation /\ UNCHANGED memory /\ writes' = Save(c, list[c], v)
        BY <1>3, <2>4 DEF Stores
      <3> HIDE DEF v
      <3>1. PICK x \in Writes : /\ writes' = Append(writes, x) /\ x.by = v /\ x.op = "save"
                                /\ x.items[c] = list[c] /\ \A d \in Convs \ {c} : x.items[d] = None
        BY <1>6, <3>0, SaveIsWrite
      <3> QED
        BY <1>6, <3>0, <3>1 DEF RunLeaves, SaveBy, memory
    <2> QED
      BY <1>0, <1>1, <2>1, <2>2, <2>3, <2>4 DEF RunDoes
  <1> QED
    BY <1>0, <1>1, <1>5, <1>6
-----------------------------------------------------------------------------
(* What each step means for the history: the conversations, their refs and *)
(* the writes on their way.                                                *)

Busy(l) == loop[l].pc \notin {"off", "pick"}

\* A run goes on with its conversation, or begins with one that the list has.
Picks(l) ==
    /\ loop[l].pc = "pick" /\ loop'[l].pc = "enter"
    /\ loop'[l].conv \in Convs /\ HasQueued(list[loop'[l].conv])
RunMoves(l) ==
    /\ OnlyLoop(l)
    /\ \A k \in Loops \ {l}, v \in Workers : worker'[k][v] = worker[k][v]
    /\ Busy(l) \/ LoopPick(l)
    /\ Busy(l)' => (Busy(l) /\ loop'[l].conv = loop[l].conv) \/ Picks(l)
    /\ ~loop[l].broken /\ (\A v \in Workers : ~WorkerChainBroken(l, v)) => ~loop'[l].broken

\* A loop that is not busy only picks.
LEMMA RestingOnlyPicks ==
  ASSUME TypeInv, NEW l \in Loops, RunStep(l)
  PROVE  Busy(l) \/ LoopPick(l)
PROOF
  <1> SUFFICES ASSUME ~Busy(l), ~LoopPick(l) PROVE FALSE
    OBVIOUS
  <1>0. loop[l].pc \in {"off", "pick"}
    BY DEF Busy
  <1>1. ~LoopEnter(l) /\ ~LoopEnd(l)
    BY <1>0 DEF LoopEnter, LoopEnd
  <1>2. /\ ~LoopTurnedAway(l) /\ ~LoopBatch(l) /\ ~LoopDisowned(l) /\ ~LoopJoin(l)
        /\ ~LoopFinal(l) /\ ~LoopFail(l) /\ ~LoopQuota(l)
    BY <1>0 DEF LoopTurnedAway, LoopBatch, LoopDisowned, LoopJoin, LoopFinal, LoopFail, SettleTurn, LoopQuota
  <1>3. ASSUME NEW w \in Workers PROVE ~WorkerStep(l, w)
    <2>1. worker[l][w].pc = "done"
      BY <1>0 DEF TypeInv, WorkerT
    <2> QED
      BY <2>1 DEF WorkerStep, WorkerTake, WorkerStop, WorkerAnswered, WorkerPut, WorkerLate, WorkerSave, WorkerChainBroken
  <1> QED
    BY <1>1, <1>2, <1>3 DEF RunStep, MidRun

\* What the step of a worker does to its loop.
LEMMA WorkerLeavesLoop ==
  ASSUME TypeInv, NEW l \in Loops, NEW w \in Workers, WorkerStep(l, w)
  PROVE  /\ Marked(l) /\ OnlyWorker(l, w)
         /\ ~WorkerChainBroken(l, w) => loop'[l].broken = loop[l].broken
PROOF
  <1>0. Shape /\ DOMAIN Resting = WorkerFields
    BY RestingIs DEF TypeInv
  <1>1. CASE WorkerTake(l, w)
    <2>1. CASE Takes(l, w)
      BY <2>1, TakesDoes
    <2>2. CASE FindsNone(l, w)
      BY <1>0, <2>2, UnmarkedToo, WorkerRecordDoes DEF FindsNone
    <2> QED
      BY <1>1, <2>1, <2>2, TakeIs
  <1>2. CASE WorkerStop(l, w)
    BY <1>0, <1>2, StopDoes
  <1>3. CASE WorkerAnswered(l, w)
    BY <1>0, <1>3, AnsweredDoes, UnmarkedToo DEF WorkerAnswered
  <1>4. CASE WorkerPut(l, w)
    BY <1>0, <1>4, AnswerPutDoes, UnmarkedToo
  <1>5. CASE WorkerLate(l, w)
    BY <1>0, <1>5, InterruptDoes, StepDoes DEF WorkerLate
  <1>6. CASE WorkerSave(l, w)
    <2>1. UNCHANGED loop /\ (Saves(l, w) \/ FindsReplaced(l, w))
      BY <1>6, SaveIs
    <2>2. OnlyWorker(l, w)
      BY <1>0, <2>1, SavingDoes, StepDoes DEF Saves, FindsReplaced
    <2> QED
      BY <1>0, <2>1, <2>2, UnmarkedToo
  <1>7. CASE WorkerChainBroken(l, w)
    BY <1>0, <1>7, SaveFailedDoes DEF WorkerChainBroken
  <1> QED
    BY <1>1, <1>2, <1>3, <1>4, <1>5, <1>6, <1>7 DEF WorkerStep

\* Where a step of a run takes its loop, action by action.
LEMMA RunStepMoves ==
  ASSUME TypeInv, NEW l \in Loops, RunStep(l)
  PROVE  RunMoves(l)
PROOF
  <1>0. Shape /\ (Busy(l) \/ LoopPick(l))
    BY RestingOnlyPicks DEF TypeInv
  <1>1. ASSUME OnlyLoop(l), Stays(l), loop'[l].broken = loop[l].broken \/ loop'[l].broken = FALSE, Busy(l),
               \A k \in Loops \ {l}, v \in Workers : worker'[k][v] = worker[k][v]
        PROVE  RunMoves(l)
    BY <1>1 DEF RunMoves, Stays
  <1>2. CASE LoopPick(l)
    <2>0. UNCHANGED worker /\ loop[l].pc = "pick"
      BY <1>2 DEF LoopPick
    <2>1. CASE \E c \in Convs : Eligible(c) /\ loop' = [loop EXCEPT ![l].pc = "enter", ![l].conv = c, ![l].asking = live]
      <3>1. PICK c \in Convs : Eligible(c) /\ loop' = [loop EXCEPT ![l].pc = "enter", ![l].conv = c, ![l].asking = live]
        BY <2>1
      <3>2. OnlyLoop(l) /\ loop'[l].pc = "enter" /\ loop'[l].conv = c /\ loop'[l].broken = loop[l].broken
        BY <1>0, <3>1, PickSets
      <3>3. Picks(l)
        BY <2>0, <3>1, <3>2 DEF Picks, Eligible
      <3> QED
        BY <1>2, <2>0, <3>2, <3>3 DEF RunMoves
    <2>2. CASE loop' = [loop EXCEPT ![l] = Off]
      <3>1. OnlyLoop(l) /\ loop'[l].pc = "off" /\ loop'[l].broken = FALSE
        BY <1>0, <2>2, OffIs, RecordDoes
      <3> QED
        BY <1>2, <2>0, <3>1 DEF RunMoves, Busy
    <2> QED
      BY <1>2, <2>1, <2>2 DEF LoopPick
  <1>3. CASE LoopEnter(l)
    <2>1. UNCHANGED worker /\ Busy(l)
      BY <1>3 DEF LoopEnter, Busy
    <2> QED
      BY <1>0, <1>1, <1>3, <2>1, EnterSets DEF Stays, RunMoves
  <1>4. CASE LoopEnd(l)
    <2>1. UNCHANGED worker /\ Busy(l)
      BY <1>4 DEF LoopEnd, Busy
    <2>2. OnlyLoop(l) /\ loop'[l].pc \in {"off", "pick"} /\ loop'[l].broken = FALSE
      BY <1>0, <1>4, EndSets
    <2> QED
      BY <2>1, <2>2 DEF RunMoves, Busy
  <1>5. ASSUME NEW p, loop' = [loop EXCEPT ![l].pc = p] \/ At(l, p) \/ loop' = [loop EXCEPT ![l].pc = p, ![l].thrown = FALSE],
               UNCHANGED worker, Busy(l)
        PROVE  RunMoves(l)
    <2>1. OnlyLoop(l) /\ Stays(l) /\ loop'[l].broken = loop[l].broken
      BY <1>0, <1>5, PcDoes, AtDoes, PcThrownDoes
    <2>2. \A k \in Loops \ {l}, v \in Workers : worker'[k][v] = worker[k][v]
      BY <1>5
    <2> QED
      BY <1>1, <1>5, <2>1, <2>2
  <1>6. CASE LoopTurnedAway(l) \/ LoopDisowned(l) \/ LoopQuota(l)
    <2>1. UNCHANGED worker /\ Busy(l) /\ \E p \in {"pick", "ended"} : loop' = [loop EXCEPT ![l].pc = p]
      BY <1>6 DEF LoopTurnedAway, LoopDisowned, LoopQuota, Busy
    <2> QED
      BY <1>5, <2>1
  <1>7. CASE LoopBatch(l)
    <2>1. Busy(l)
      BY <1>7 DEF LoopBatch, Busy
    <2> QED
      BY <1>0, <1>1, <1>7, <2>1, BatchDoes
  <1>8. CASE LoopJoin(l)
    <2>1. UNCHANGED worker /\ Busy(l) /\ \E p \in {"failing", "final", "ended"} : At(l, p) \/ loop' = [loop EXCEPT ![l].pc = p]
      BY <1>8 DEF LoopJoin, Busy
    <2> QED
      BY <1>5, <2>1
  <1>9. CASE LoopFinal(l) \/ LoopFail(l)
    <2>1. /\ UNCHANGED worker /\ Busy(l)
          /\ \E p \in {"quota", "ended", "finishing", "failed"} :
                At(l, p) \/ loop' = [loop EXCEPT ![l].pc = p, ![l].thrown = FALSE]
      BY <1>9 DEF LoopFinal, LoopFail, SettleTurn, Busy
    <2> QED
      BY <1>5, <2>1
  <1>10. ASSUME NEW w \in Workers, WorkerStep(l, w) PROVE RunMoves(l)
    <2>1. Marked(l) /\ OnlyWorker(l, w) /\ (~WorkerChainBroken(l, w) => loop'[l].broken = loop[l].broken)
      BY <1>10, WorkerLeavesLoop
    <2>2. Busy(l)
      <3>1. worker[l][w].pc # "done"
        BY <1>10 DEF WorkerStep, WorkerTake, WorkerStop, WorkerAnswered, WorkerPut, WorkerLate, WorkerSave, WorkerChainBroken
      <3> QED
        BY <3>1, InBatch DEF Busy
    <2> QED
      BY <2>1, <2>2 DEF RunMoves, Marked, Stays, OnlyWorker, Busy
  <1> QED
    BY <1>2, <1>3, <1>4, <1>6, <1>7, <1>8, <1>9, <1>10 DEF RunStep, MidRun
\* The writes on their way.
InQueue == {writes[k] : k \in DOMAIN writes}

\* The writes of a queue that grows.
LEMMA QueueGrows ==
  ASSUME PendingT, NEW x \in Writes, writes' = Append(writes, x)
  PROVE  /\ InQueue' = InQueue \cup {x}
         /\ DOMAIN writes = 1 .. Len(writes) /\ DOMAIN writes' = 1 .. Len(writes) + 1 /\ Len(writes) \in Nat
         /\ \A k \in DOMAIN writes : writes'[k] = writes[k]
         /\ writes'[Len(writes) + 1] = x
PROOF
  <1>1. /\ DOMAIN writes = 1 .. Len(writes) /\ DOMAIN writes' = 1 .. Len(writes) + 1 /\ Len(writes) \in Nat
        /\ \A k \in DOMAIN writes : writes'[k] = writes[k]
        /\ writes'[Len(writes) + 1] = x
    BY DEF PendingT
  <1>2. InQueue' = InQueue \cup {x}
    BY <1>1 DEF InQueue
  <1> QED
    BY <1>1, <1>2

\* The writes of a queue of which the first is over.
LEMMA QueueShrinks ==
  ASSUME PendingT, writes # <<>>, writes' = Tail(writes)
  PROVE  /\ InQueue' \subseteq InQueue /\ Head(writes) \in InQueue /\ Head(writes) = writes[1] /\ 1 \in DOMAIN writes
         /\ InQueue = InQueue' \cup {Head(writes)}
         /\ \A k \in DOMAIN writes' : k \in Nat /\ k + 1 \in DOMAIN writes /\ k + 1 > 1 /\ writes'[k] = writes[k + 1]
         /\ \A k \in DOMAIN writes : k \in Nat /\ (k # 1 => k - 1 \in DOMAIN writes' /\ writes[k] = writes'[k - 1])
PROOF
  <1>1. /\ Head(writes) = writes[1] /\ 1 \in DOMAIN writes
        /\ \A k \in DOMAIN writes' : k \in Nat /\ k + 1 \in DOMAIN writes /\ k + 1 > 1 /\ writes'[k] = writes[k + 1]
        /\ \A k \in DOMAIN writes : k \in Nat /\ (k # 1 => k - 1 \in DOMAIN writes' /\ writes[k] = writes'[k - 1])
    BY DEF PendingT
  <1>2. InQueue' \subseteq InQueue /\ Head(writes) \in InQueue
    BY <1>1 DEF InQueue
  <1>3. InQueue \subseteq InQueue' \cup {Head(writes)}
    <2> SUFFICES ASSUME NEW k \in DOMAIN writes PROVE writes[k] \in InQueue' \cup {Head(writes)}
      BY DEF InQueue
    <2>1. CASE k = 1
      BY <1>1, <2>1
    <2>2. CASE k # 1
      <3>1. k - 1 \in DOMAIN writes' /\ writes[k] = writes'[k - 1]
        BY <1>1, <2>2
      <3> QED
        BY <3>1 DEF InQueue
    <2> QED
      BY <2>1, <2>2
  <1> QED
    BY <1>1, <1>2, <1>3

\* What a step leaves of the conversations.
SameMount == page'.mount = page.mount /\ page'.opened = page.opened
Shown(m, items) ==
    /\ list' = items /\ SameMount
    /\ \A k \in Mounts : ref'[k] = IF k = m \/ k = page.mount THEN items ELSE ref[k]
Unshown == UNCHANGED <<list, ref>> /\ SameMount
SameBusy == \A l \in Loops : (Busy(l)' <=> Busy(l)) /\ (Busy(l) => loop'[l].conv = loop[l].conv)
Grows == happened \subseteq happened' /\ used'.convs >= used.convs

\* Steps that leave the history alone.
SitsStill == DrainEffect \/ SignOut \/ SignIn \/ Notice \/ UNCHANGED vars
Unmoved == Unshown /\ UNCHANGED <<load, writes, disk, used, worker>> /\ SameBusy /\ Grows

\* A drain makes nobody busy and breaks nobody's chain of saves.
LEMMA TryDrainBusy ==
  ASSUME Shape, NEW m, TryDrain(m)
  PROVE  /\ SameBusy
         /\ \A l \in Loops : loop'[l].broken => loop[l].broken
         /\ \A l \in Loops : Running(l)' <=> Running(l)
PROOF
  <1>1. CASE UNCHANGED loop
    BY <1>1 DEF SameBusy, Busy, Running
  <1>2. ASSUME NEW l \in Loops, Starts(l, m)
        PROVE  /\ SameBusy
               /\ \A k \in Loops : loop'[k].broken => loop[k].broken
               /\ \A k \in Loops : Running(k)' <=> Running(k)
    BY <1>2 DEF Starts, OnlyLoop, SameBusy, Busy, Running
  <1> QED
    BY <1>1, <1>2, TryDrainDoes

\* The conversations and turns in use are within their bounds.
LEMMA UsedAre ==
  ASSUME TypeInv
  PROVE  used.convs \in 0 .. MaxConvs /\ used.turns \in 0 .. MaxTurns /\ MaxConvs \in Nat /\ MaxTurns \in Nat
         /\ (UNCHANGED used => used'.convs >= used.convs)
  BY QueueAssumption DEF TypeInv, CountsT

\* A step that is not about the history leaves screen, queue and store alone.
LEMMA SitsStillIs ==
  ASSUME TypeInv, SitsStill
  PROVE  Unmoved
PROOF
  <1>0. UNCHANGED used => used'.convs >= used.convs
    BY UsedAre
  <1>1. CASE DrainEffect
    <2>1. page' = [page EXCEPT !.due = FALSE] /\ TryDrain(page.mount)
          /\ UNCHANGED <<list, ref, load, worker, disk, writes, used, happened>>
      BY <1>1 DEF DrainEffect
    <2>2. page'.mount = page.mount /\ page'.opened = page.opened
      BY <2>1 DEF TypeInv, MemoryT
    <2> QED
      BY <1>0, <2>1, <2>2, TryDrainBusy DEF Unmoved, Unshown, SameMount, Grows, TypeInv
  <1>2. CASE SignOut \/ SignIn \/ Notice
    <2>1. UNCHANGED <<memory, load, loop, worker, disk, writes, used>> /\ happened \subseteq happened'
      BY <1>2 DEF SignOut, SignIn, Notice, Hazard
    <2> QED
      BY <1>0, <2>1 DEF Unmoved, Unshown, SameMount, Grows, memory, SameBusy, Busy
  <1>3. CASE UNCHANGED vars
    BY <1>0, <1>3 DEF vars, Unmoved, Unshown, SameMount, Grows, memory, SameBusy, Busy
  <1> QED
    BY <1>1, <1>2, <1>3 DEF SitsStill

\* The page is left by the route or by logging out.
GoesAway == Leave \/ LogOut
LeavesPage ==
    /\ UNCHANGED <<list, ref, writes, disk, loop, worker, used>>
    /\ page'.mount = 0 /\ page'.opened = page.opened /\ load'.pc = "off" /\ load'.items = NoItems
    /\ Grows /\ happened' \cap {"leave", "logout"} # {}

\* Leaving the page, and ending a session, take the list off the screen at most.
LEMMA GoesAwayIs ==
  ASSUME TypeInv, GoesAway
  PROVE  LeavesPage
PROOF
  <1>0. UNCHANGED used => used'.convs >= used.convs
    BY UsedAre
  <1>1. /\ page' = [page EXCEPT !.mount = 0, !.due = FALSE] /\ load' = [pc |-> "off", items |-> NoItems]
        /\ UNCHANGED <<list, ref, writes, disk, loop, worker, used>>
        /\ happened \subseteq happened' /\ happened' \cap {"leave", "logout"} # {}
    BY DEF GoesAway, Leave, LogOut, Hazard
  <1>2. page'.mount = 0 /\ page'.opened = page.opened
    BY <1>1, PageIs DEF TypeInv
  <1> QED
    BY <1>0, <1>1, <1>2 DEF LeavesPage, Grows

\* The first write is over.
WriteEnds(ok) ==
    /\ writes # <<>> /\ writes' = Tail(writes) /\ Resume(Head(writes).by, ok)
    /\ (ok /\ Ok(Head(writes)) /\ UNCHANGED happened) \/ (~ok /\ Broken(Head(writes)) /\ "failure" \in happened')
    /\ Grows /\ UNCHANGED used /\ Waits

\* A write that is over is carried out, or fails, and resumes whoever awaits it.
LEMMA WriteEndsIs ==
  ASSUME TypeInv, WriteDone \/ WriteFailed
  PROVE  \E ok \in BOOLEAN : WriteEnds(ok)
PROOF
  <1>0. UNCHANGED used => used'.convs >= used.convs
    BY UsedAre
  <1>1. WriteDone => WriteEnds(TRUE)
    BY <1>0 DEF WriteDone, WriteEnds, Grows
  <1>2. WriteFailed => WriteEnds(FALSE)
    BY <1>0 DEF WriteFailed, WriteEnds, Grows, Hazard
  <1> QED
    BY <1>1, <1>2

ForScreen(b) == b.kind = "load" /\ b.m = page.mount
Brought(b, ok) ==
    /\ SameBusy
    /\ ForScreen(b) => load'.pc = "off" /\ load'.items = load.items /\ (ok => Shown(b.m, load.items)) /\ (~ok => Unshown)
    /\ ~ForScreen(b) => UNCHANGED load
    /\ b.kind = "delete" /\ ~ok => Shown(b.m, [list EXCEPT ![b.conv] = MarkAborted(b.before)])
    /\ b.kind = "clear" /\ ~ok => Shown(b.m, [c \in Convs |-> MarkAborted(b.before[c])])
    /\ b.kind \in {"loop", "worker", "submit"} \/ (b.kind = "load" /\ ~ForScreen(b)) => Unshown
    /\ b.kind \in {"delete", "clear"} /\ ok => Unshown

\* What a write that is over brings to whoever awaits it.
LEMMA ResumeBrings ==
  ASSUME TypeInv, NEW b \in Bys, Awaited(b), NEW ok \in BOOLEAN, Resume(b, ok)
  PROVE  Brought(b, ok)
PROOF
  <1>0. MemoryT /\ LoadT /\ Shape
    BY DEF TypeInv
  <1>1. UNCHANGED memory => Unshown
    BY DEF memory, Unshown, SameMount
  <1>2. UNCHANGED loop => SameBusy
    BY DEF SameBusy, Busy
  <1>3. CASE b.kind = "loop"
    <2>0. /\ b.l \in Loops /\ loop[b.l].pc \in SavingPcs
          /\ \/ loop' = [loop EXCEPT ![b.l].pc = "ended", ![b.l].thrown = ~ok]
             \/ \E p \in {"failing", "started", "quota"} : At(b.l, p)
          /\ UNCHANGED <<memory, load>>
      BY <1>3, ByIs DEF Resume, Awaited
    <2>1. OnlyLoop(b.l) /\ Stays(b.l) /\ loop'[b.l].pc \in {"ended", "failing", "started", "quota"}
      BY <1>0, <2>0, AtDoes, PcThrownDoes
    <2>2. SameBusy
      BY <2>0, <2>1 DEF SameBusy, Busy, OnlyLoop, Stays, SavingPcs
    <2> QED
      BY <1>1, <1>3, <2>0, <2>2 DEF Brought, ForScreen
  <1>4. CASE b.kind = "worker"
    <2>0. /\ b.l \in Loops /\ b.w \in Workers /\ (UNCHANGED loop \/ SaveFailed(b.l, b.w))
          /\ UNCHANGED <<memory, load>>
      BY <1>4, ByIs DEF Resume
    <2>1. Marked(b.l)
      BY <1>0, <2>0, SaveFailedDoes, UnmarkedToo
    <2>2. SameBusy
      BY <2>0, <2>1 DEF SameBusy, Busy, Marked, OnlyLoop, Stays
    <2> QED
      BY <1>1, <1>4, <2>0, <2>2 DEF Brought, ForScreen
  <1>5. CASE b.kind = "submit"
    <2>1. (TryDrain(b.m) \/ UNCHANGED <<draining, loop>>) /\ UNCHANGED <<memory, load>>
      BY <1>5 DEF Resume
    <2>2. SameBusy
      BY <1>0, <1>2, <2>1, TryDrainBusy
    <2> QED
      BY <1>1, <1>5, <2>1, <2>2 DEF Brought, ForScreen
  <1>6. CASE b.kind = "load"
    <2>0. load.items \in ItemsT
      BY <1>0 DEF LoadT
    <2>1. CASE b.m = page.mount
      <3>1. load' = [load EXCEPT !.pc = "off"] /\ (IF ok THEN Show(b.m, load.items) ELSE UNCHANGED memory)
            /\ UNCHANGED loop
        BY <1>6, <2>1 DEF Resume
      <3>2. load'.pc = "off" /\ load'.items = load.items
        BY <1>0, <3>1 DEF LoadT
      <3>3. ok => Shown(b.m, load.items)
        BY <1>0, <2>0, <3>1, ShowDoes DEF Shown, SameMount
      <3> QED
        BY <1>1, <1>2, <1>6, <2>1, <3>1, <3>2, <3>3 DEF Brought, ForScreen
    <2>2. CASE b.m # page.mount
      <3>1. UNCHANGED <<memory, load, loop>>
        BY <1>6, <2>2 DEF Resume
      <3> QED
        BY <1>1, <1>2, <1>6, <2>2, <3>1 DEF Brought, ForScreen
    <2> QED
      BY <2>1, <2>2
  <1>7. CASE b.kind = "delete"
    <2>1. (ok => UNCHANGED memory) /\ (~ok => Put(b.m, b.conv, MarkAborted(b.before))) /\ UNCHANGED <<load, loop>>
      BY <1>7 DEF Resume
    <2>2. b.conv \in Convs /\ MarkAborted(b.before) \in Conversation \cup {None}
      BY <1>7, ByIs, MarkAbortedIs
    <2>3. ~ok => Shown(b.m, [list EXCEPT ![b.conv] = MarkAborted(b.before)])
      BY <1>0, <2>1, <2>2, PutDoes DEF Shown, SameMount
    <2> QED
      BY <1>1, <1>2, <1>7, <2>1, <2>3 DEF Brought, ForScreen
  <1>8. CASE b.kind = "clear"
    <2> DEFINE items == [c \in Convs |-> MarkAborted(b.before[c])]
    <2>1. (ok => UNCHANGED memory) /\ (~ok => Show(b.m, items)) /\ UNCHANGED <<load, loop>>
      BY <1>8 DEF Resume
    <2>2. items \in ItemsT
      BY <1>8, ByIs, MarkAbortedIs DEF ItemsT
    <2> HIDE DEF items
    <2>3. ~ok => Shown(b.m, items)
      BY <1>0, <2>1, <2>2, ShowDoes DEF Shown, SameMount
    <2> QED
      BY <1>1, <1>2, <1>8, <2>1, <2>3 DEF Brought, ForScreen, items
  <1> QED
    BY <1>3, <1>4, <1>5, <1>6, <1>7, <1>8, ByIs

\* The user submits, deletes and clears: the page shows it and appends a write.
SubmitDoes(c, x) ==
    /\ page.mount # 0 /\ page.mount \in Mounts /\ (Settled \/ Hasty) /\ used.turns + 1 \in Turns /\ used'.turns = used.turns + 1
    /\ (list[c] # None /\ used'.convs = used.convs) \/ (c = used.convs + 1 /\ used'.convs = c)
    /\ WithTurn(c) \in Conversation /\ Shown(page.mount, [list EXCEPT ![c] = WithTurn(c)]) /\ list'[c] = WithTurn(c)
    /\ writes' = Append(writes, x) /\ x.op = "save" /\ x.by.kind = "submit" /\ x.by.m = page.mount
    /\ x.items[c] = WithTurn(c) /\ \A d \in Convs \ {c} : x.items[d] = None
    /\ Grows /\ Waits /\ UNCHANGED <<load, loop, worker, disk, runtime, active, mine, asked>>
DeleteDoes(c, x) ==
    /\ page.mount # 0 /\ page.mount \in Mounts /\ load.pc = "off" /\ list[c] \in Conversation
    /\ Shown(page.mount, [list EXCEPT ![c] = None]) /\ list'[c] = None
    /\ writes' = Append(writes, x) /\ x.op = "delete" /\ x.conv = c /\ x.items = NoItems
    /\ x.by.kind = "delete" /\ x.by.m = page.mount /\ x.by.conv = c /\ x.by.before = list[c]
    /\ aborted' = aborted \cup ({control[c]} \ {None}) /\ control' = [control EXCEPT ![c] = None]
    /\ Grows /\ "delete" \in happened' /\ UNCHANGED <<load, live, draining, active, loop, worker, disk, mine, asked, used>>
ClearDoes(x) ==
    /\ page.mount # 0 /\ page.mount \in Mounts /\ load.pc = "off" /\ list # NoItems /\ Shown(page.mount, NoItems)
    /\ writes' = Append(writes, x) /\ x.op = "clear" /\ x.items = NoItems
    /\ x.by.kind = "clear" /\ x.by.m = page.mount /\ x.by.before = list
    /\ aborted' = aborted \cup Held /\ control' = [k \in Convs |-> None]
    /\ Grows /\ "clear" \in happened' /\ UNCHANGED <<load, live, draining, active, loop, worker, disk, mine, asked, used>>

\* Submit shows a conversation and appends its save.
LEMMA SubmitSaves ==
  ASSUME TypeInv, NEW c \in Convs, Submit(c)
  PROVE  \E x \in Writes : SubmitDoes(c, x)
PROOF
  <1> DEFINE b == [kind |-> "submit", m |-> page.mount]
  <1>0. /\ page.mount # 0 /\ (Settled \/ Hasty) /\ used.turns + 1 \in Turns
        /\ \/ list[c] # None /\ used' = [used EXCEPT !.turns = used.turns + 1]
           \/ c = used.convs + 1 /\ used' = [convs |-> c, turns |-> used.turns + 1]
        /\ Put(page.mount, c, WithTurn(c)) /\ writes' = Save(c, WithTurn(c), b) /\ Waits
        /\ UNCHANGED <<load, loop, worker, disk, runtime, active, mine, asked>>
    BY SubmitIs
  <1>1. WithTurn(c) \in Conversation /\ page.mount \in Mounts
    BY <1>0, WithTurnIs, PageIs DEF TypeInv
  <1>2. b \in Bys /\ b.kind = "submit" /\ b.m = page.mount
    BY <1>1 DEF Bys
  <1> HIDE DEF b
  <1>3. PICK x \in Writes : /\ writes' = Append(writes, x) /\ x.by = b /\ x.op = "save"
                            /\ x.items[c] = WithTurn(c) /\ \A d \in Convs \ {c} : x.items[d] = None
    BY <1>0, <1>1, <1>2, SaveIsWrite
  <1>4. Shown(page.mount, [list EXCEPT ![c] = WithTurn(c)]) /\ list'[c] = WithTurn(c)
    <2>1. MemoryT
      BY DEF TypeInv
    <2>2. list' = [list EXCEPT ![c] = WithTurn(c)]
      BY <1>0 DEF Put, Show
    <2>3. Shown(page.mount, list')
      BY <1>0, <1>1, <2>1, PutDoes DEF Shown, SameMount
    <2> QED
      BY <2>1, <2>2, <2>3 DEF MemoryT, ItemsT
  <1>5. /\ used'.turns = used.turns + 1
        /\ (list[c] # None /\ used'.convs = used.convs) \/ (c = used.convs + 1 /\ used'.convs = c)
    BY <1>0 DEF TypeInv, CountsT
  <1>6. Grows
    <2>1. happened \subseteq happened'
      BY <1>0 DEF Settled, Hasty, Hazard
    <2>2. used'.convs >= used.convs
      BY <1>5, UsedAre
    <2> QED
      BY <2>1, <2>2 DEF Grows
  <1> QED
    BY <1>0, <1>1, <1>2, <1>3, <1>4, <1>5, <1>6 DEF SubmitDoes

\* Delete takes a conversation off the screen and appends its deletion.
LEMMA DeleteSaves ==
  ASSUME TypeInv, NEW c \in Convs, Delete(c)
  PROVE  \E x \in Writes : DeleteDoes(c, x)
PROOF
  <1> DEFINE b == [kind |-> "delete", m |-> page.mount, conv |-> c, before |-> list[c]]
             r == [op |-> "delete", conv |-> c, items |-> NoItems, by |-> b]
  <1>0. /\ page.mount # 0 /\ load.pc = "off" /\ list[c] # None /\ Hazard("delete")
        /\ Put(page.mount, c, None) /\ writes' = Append(writes, r)
        /\ aborted' = aborted \cup ({control[c]} \ {None}) /\ control' = [control EXCEPT ![c] = None]
        /\ UNCHANGED <<load, live, draining, active, loop, worker, disk, mine, asked, used>>
    BY DEF Delete
  <1>1. list[c] \in Conversation /\ page.mount \in Mounts
    BY <1>0, PageIs DEF TypeInv, MemoryT, ItemsT
  <1>2. /\ r \in Writes /\ r.op = "delete" /\ r.conv = c /\ r.items = NoItems
        /\ r.by.kind = "delete" /\ r.by.m = page.mount /\ r.by.conv = c /\ r.by.before = list[c]
    BY <1>1, ItemsOf DEF Writes, Bys
  <1> HIDE DEF r
  <1>3. Shown(page.mount, [list EXCEPT ![c] = None]) /\ list'[c] = None
    <2>1. MemoryT
      BY DEF TypeInv
    <2>2. list' = [list EXCEPT ![c] = None]
      BY <1>0 DEF Put, Show
    <2>3. Shown(page.mount, list')
      BY <1>0, <2>1, PutDoes DEF Shown, SameMount
    <2> QED
      BY <2>1, <2>2, <2>3 DEF MemoryT, ItemsT
  <1>4. Grows /\ "delete" \in happened'
    BY <1>0, UsedAre DEF Grows, Hazard
  <1> QED
    BY <1>0, <1>1, <1>2, <1>3, <1>4 DEF DeleteDoes

\* Clear empties the screen and appends one write.
LEMMA ClearSaves ==
  ASSUME TypeInv, Clear
  PROVE  \E x \in Writes : ClearDoes(x)
PROOF
  <1> DEFINE b == [kind |-> "clear", m |-> page.mount, before |-> list]
             r == [op |-> "clear", conv |-> None, items |-> NoItems, by |-> b]
  <1>0. /\ page.mount # 0 /\ load.pc = "off" /\ list # NoItems /\ Hazard("clear")
        /\ Show(page.mount, NoItems) /\ writes' = Append(writes, r)
        /\ aborted' = aborted \cup Held /\ control' = [k \in Convs |-> None]
        /\ UNCHANGED <<load, live, draining, active, loop, worker, disk, mine, asked, used>>
    BY DEF Clear
  <1>1. list \in ItemsT /\ page.mount \in Mounts
    BY <1>0, PageIs DEF TypeInv, MemoryT
  <1>2. /\ r \in Writes /\ r.op = "clear" /\ r.items = NoItems
        /\ r.by.kind = "clear" /\ r.by.m = page.mount /\ r.by.before = list
    BY <1>1, ItemsOf DEF Writes, Bys
  <1> HIDE DEF r
  <1>3. Shown(page.mount, NoItems)
    BY <1>0, ItemsOf, ShowDoes DEF Shown, SameMount, TypeInv
  <1>4. Grows /\ "clear" \in happened'
    BY <1>0, UsedAre DEF Grows, Hazard
  <1> QED
    BY <1>0, <1>1, <1>2, <1>3, <1>4 DEF ClearDoes

\* The history is shown, or saved first when it had to be recovered.
HistoryShown ==
    History = Visible /\ Shown(page.mount, Visible) /\ UNCHANGED writes /\ load'.pc = "off" /\ load'.items = NoItems
HistorySaved(x) ==
    /\ History # Visible /\ UNCHANGED memory /\ load'.pc = "saving" /\ load'.items = History
    /\ writes' = Append(writes, x) /\ x.op = "all" /\ x.items = History /\ x.by.kind = "load" /\ x.by.m = page.mount

\* LoadHistory shows the list at once, or after the save of what it recovered.
LEMMA HistoryComes ==
  ASSUME TypeInv, LoadHistory
  PROVE  HistoryShown \/ \E x \in Writes : HistorySaved(x)
PROOF
  <1>1. Visible \in ItemsT /\ History \in ItemsT
    BY VisibleIs DEF TypeInv, History
  <1>2. CASE /\ History = Visible /\ Show(page.mount, Visible) /\ UNCHANGED writes
             /\ load' = [pc |-> "off", items |-> NoItems]
    BY <1>1, <1>2, ShowDoes DEF HistoryShown, Shown, SameMount, TypeInv
  <1>3. CASE /\ History # Visible /\ UNCHANGED memory /\ load' = [pc |-> "saving", items |-> History]
             /\ writes' = Append(writes, [op |-> "all", conv |-> None, items |-> History,
                                          by |-> [kind |-> "load", m |-> page.mount]])
    <2> DEFINE r == [op |-> "all", conv |-> None, items |-> History, by |-> [kind |-> "load", m |-> page.mount]]
    <2>1. r \in Writes /\ r.op = "all" /\ r.items = History /\ r.by.kind = "load" /\ r.by.m = page.mount
      BY <1>1 DEF Writes, Bys, TypeInv, MemoryT
    <2>2. writes' = Append(writes, r)
      BY <1>3
    <2> HIDE DEF r
    <2>3. HistorySaved(r)
      BY <1>3, <2>1, <2>2 DEF HistorySaved
    <2> QED
      BY <2>1, <2>3
  <1> QED
    BY <1>2, <1>3, LoadHistoryIs
-----------------------------------------------------------------------------
(* The mounts: the one on screen is the last one and has the conversations *)
(* of the runtime; the history that it read is written once.               *)

Deletions == happened \cap {"delete", "clear"} # {}
LoadOf(x, m) == x.by.kind = "load" /\ x.by.m = m

\* Each kind of write has its operation.
WriteKind(x) ==
    /\ x.op = "delete" <=> x.by.kind = "delete"
    /\ x.op = "clear" <=> x.by.kind = "clear"
    /\ x.op = "all" <=> x.by.kind = "load"
    /\ x.op \in {"delete", "clear"} => Deletions /\ x.items = NoItems
    /\ x.op = "delete" => x.by.conv = x.conv
    /\ x.op = "clear" => x.by.before # NoItems
    /\ x.op = "all" => x.by.m \in Mounts /\ x.by.m <= page.opened

ScreenInv == page.mount # 0 => page.mount = page.opened /\ ref[page.mount] = list
LoadInv == load.pc # "off" => page.mount # 0
KindsInv == \A x \in InQueue : WriteKind(x)
OnceRead == \A k \in DOMAIN writes : LoadOf(writes[k], page.mount) => load.pc = "saving"
OnceWritten == \A j, k \in DOMAIN writes : j # k /\ writes[j].op = "all" => ~LoadOf(writes[k], writes[j].by.m)
MountsInv == ScreenInv /\ LoadInv /\ KindsInv /\ OnceRead /\ OnceWritten

\* A pending write stays of its kind.
LEMMA KindStays ==
  ASSUME TypeInv, Grows, page'.opened \in Int, page'.opened >= page.opened
  PROVE  \A x \in Writes : WriteKind(x) => WriteKind(x)'
PROOF
  <1> TAKE x \in Writes
  <1>1. Deletions => Deletions'
    BY DEF Grows, Deletions
  <1>2. x.op = "all" /\ x.by.m \in Mounts /\ x.by.m <= page.opened /\ page'.opened \in Int => x.by.m <= page'.opened
    BY DEF TypeInv, MemoryT, Mounts
  <1> QED
    BY <1>1, <1>2 DEF WriteKind

\* What the screen shows is what the page's ref has, after a list is shown or taken away.
LEMMA ScreenStays ==
  ASSUME TypeInv, ScreenInv, Unshown \/ \E m, items : Shown(m, items)
  PROVE  ScreenInv'
PROOF
  <1>1. page.mount # 0 => page.mount \in Mounts
    BY PageIs DEF TypeInv
  <1> QED
    BY <1>1 DEF ScreenInv, Unshown, SameMount, Shown

\* What keeps the part about the writes: nothing is appended but what saves a conversation, or deletes.
LEMMA WritesStay ==
  ASSUME TypeInv, TypeInv', KindsInv, OnceRead, OnceWritten, Grows, page'.opened = page.opened, page'.mount \in {page.mount, 0},
         page'.mount # 0 => UNCHANGED load,
         UNCHANGED writes \/ \E x \in Writes : writes' = Append(writes, x) /\ WriteKind(x)' /\ x.op # "all"
  PROVE  KindsInv' /\ OnceRead' /\ OnceWritten'
PROOF
  <1>0. \A x \in Writes : WriteKind(x) => WriteKind(x)'
    <2>1. page'.opened \in Int /\ page'.opened >= page.opened
      BY DEF TypeInv, MemoryT
    <2> QED
      BY <2>1, KindStays
  <1>1. InQueue \subseteq Writes /\ \A k \in DOMAIN writes : writes[k] \in InQueue
    BY DEF InQueue, TypeInv, PendingT
  <1>2. \A k \in DOMAIN writes : ~LoadOf(writes[k], 0)
    BY <1>1 DEF KindsInv, WriteKind, LoadOf, Mounts
  <1>3. CASE UNCHANGED writes
    <2>1. KindsInv'
      BY <1>0, <1>1, <1>3 DEF KindsInv, InQueue
    <2> QED
      BY <1>2, <1>3, <2>1 DEF OnceRead, OnceWritten, LoadOf
  <1>4. ASSUME NEW x \in Writes, writes' = Append(writes, x), WriteKind(x)', x.op # "all"
        PROVE  KindsInv' /\ OnceRead' /\ OnceWritten'
    <2>1. /\ InQueue' = InQueue \cup {x}
          /\ \A k \in DOMAIN writes' : (k \in DOMAIN writes /\ writes'[k] = writes[k]) \/ writes'[k] = x
      BY <1>4, QueueGrows DEF TypeInv
    <2>2. KindsInv'
      BY <1>0, <1>1, <1>4, <2>1 DEF KindsInv
    <2>3. x.by.kind # "load"
      BY <1>4 DEF WriteKind
    <2>4. OnceRead'
      BY <1>2, <2>1, <2>3 DEF OnceRead, LoadOf
    <2>5. OnceWritten'
      BY <1>4, <2>1, <2>3 DEF OnceWritten, LoadOf
    <2> QED
      BY <2>2, <2>4, <2>5
  <1> QED
    BY <1>3, <1>4

\* A step of a run keeps the invariant of mounts.
LEMMA RunKeepsMounts ==
  ASSUME TypeInv, TypeInv', MountsInv, NEW l \in Loops, RunStep(l)
  PROVE  MountsInv'
PROOF
  <1>0. UNCHANGED Elsewhere /\ RunLeaves(l) /\ Grows
    BY RunStepLeaves, UsedAre DEF Elsewhere, Grows
  <1>1. SameMount
    BY <1>0 DEF RunLeaves, SameMount
  <1>2. ScreenInv'
    <2>1. UNCHANGED <<list, ref>> \/ \A m \in Mounts : ref'[m] = IF m = loop[l].mount \/ m = page.mount THEN list' ELSE ref[m]
      BY <1>0 DEF RunLeaves
    <2>2. page.mount # 0 => page.mount \in Mounts
      BY PageIs DEF TypeInv
    <2> QED
      BY <1>1, <2>1, <2>2 DEF MountsInv, ScreenInv, SameMount
  <1>3. LoadInv'
    BY <1>0, <1>1 DEF MountsInv, LoadInv, Elsewhere, SameMount
  <1>4. UNCHANGED writes \/ \E x \in Writes : writes' = Append(writes, x) /\ WriteKind(x)' /\ x.op # "all"
    BY <1>0 DEF RunLeaves, SaveBy, WriteKind
  <1> QED
    BY <1>0, <1>1, <1>2, <1>3, <1>4, WritesStay DEF MountsInv, SameMount, Elsewhere

\* So does a step of the page that opens no mount.
LEMMA PageKeepsMounts ==
  ASSUME TypeInv, TypeInv', MountsInv, SitsStill \/ GoesAway \/ Clear \/ \E c \in Convs : Submit(c) \/ Delete(c)
  PROVE  MountsInv'
PROOF
  <1>0. ScreenInv /\ LoadInv /\ KindsInv /\ OnceRead /\ OnceWritten
    BY DEF MountsInv
  <1>1. CASE SitsStill
    <2>1. Unmoved
      BY <1>1, SitsStillIs
    <2>2. ScreenInv' /\ LoadInv'
      BY <1>0, <2>1, ScreenStays DEF Unmoved, LoadInv, Unshown, SameMount
    <2> QED
      BY <1>0, <2>1, <2>2, WritesStay DEF MountsInv, Unmoved, Unshown, SameMount
  <1>2. CASE GoesAway
    <2>1. LeavesPage
      BY <1>2, GoesAwayIs
    <2>2. ScreenInv' /\ LoadInv'
      BY <2>1 DEF LeavesPage, ScreenInv, LoadInv
    <2> QED
      BY <1>0, <2>1, <2>2, WritesStay DEF MountsInv, LeavesPage
  <1>3. ASSUME SameMount, Grows, UNCHANGED load, \E m, items : Shown(m, items),
               NEW x \in Writes, writes' = Append(writes, x), WriteKind(x)', x.op # "all"
        PROVE  MountsInv'
    <2>1. ScreenInv' /\ LoadInv'
      BY <1>0, <1>3, ScreenStays DEF LoadInv, SameMount
    <2>2. KindsInv' /\ OnceRead' /\ OnceWritten'
      BY <1>0, <1>3, WritesStay DEF SameMount
    <2> QED
      BY <2>1, <2>2 DEF MountsInv
  <1>4. ASSUME NEW c \in Convs, Submit(c) PROVE MountsInv'
    <2>1. PICK x \in Writes : SubmitDoes(c, x)
      BY <1>4, SubmitSaves
    <2>2. WriteKind(x)' /\ SameMount
      BY <2>1 DEF SubmitDoes, Shown, WriteKind
    <2> QED
      BY <1>3, <2>1, <2>2 DEF SubmitDoes
  <1>5. ASSUME NEW c \in Convs, Delete(c) PROVE MountsInv'
    <2>1. PICK x \in Writes : DeleteDoes(c, x)
      BY <1>5, DeleteSaves
    <2>2. WriteKind(x)' /\ SameMount
      BY <2>1 DEF DeleteDoes, Shown, WriteKind, Deletions
    <2> QED
      BY <1>3, <2>1, <2>2 DEF DeleteDoes
  <1>6. CASE Clear
    <2>1. PICK x \in Writes : ClearDoes(x)
      BY <1>6, ClearSaves
    <2>2. WriteKind(x)' /\ SameMount
      BY <2>1 DEF ClearDoes, Shown, WriteKind, Deletions
    <2> QED
      BY <1>3, <2>1, <2>2 DEF ClearDoes
  <1> QED
    BY <1>1, <1>2, <1>4, <1>5, <1>6

\* So does opening the page.
LEMMA OpenKeepsMounts ==
  ASSUME TypeInv, TypeInv', MountsInv, Open
  PROVE  MountsInv'
PROOF
  <1> DEFINE m == page.opened + 1
  <1>0. /\ m \in Mounts /\ page' = [mount |-> m, due |-> TRUE, opened |-> m] /\ ref' = [ref EXCEPT ![m] = list]
        /\ load'.pc \in {"reading", "off"} /\ UNCHANGED <<list, writes, used, happened>>
    BY DEF Open
  <1>1. page.opened \in Nat /\ page'.mount = m /\ page'.opened = m /\ m \in Nat /\ m > page.opened /\ page'.opened \in Int
    BY <1>0, QueueAssumption DEF TypeInv, MemoryT
  <1>2. ScreenInv' /\ LoadInv'
    <2>1. ref'[m] = list
      BY <1>0 DEF TypeInv, MemoryT
    <2>2. m # 0
      BY <1>0 DEF Mounts
    <2> HIDE DEF m
    <2> QED
      BY <1>0, <1>1, <2>1, <2>2 DEF ScreenInv, LoadInv
  <1>3. KindsInv'
    <2>1. \A x \in Writes : WriteKind(x) => WriteKind(x)'
      <3>1. Grows
        BY <1>0, UsedAre DEF Grows
      <3>2. page'.opened >= page.opened
        BY <1>1
      <3> QED
        BY <1>1, <3>1, <3>2, KindStays
    <2> QED
      BY <1>0, <2>1 DEF MountsInv, KindsInv, InQueue, TypeInv, PendingT
  <1>4. OnceRead'
    <2> SUFFICES ASSUME NEW k \in DOMAIN writes, LoadOf(writes[k], m) PROVE FALSE
      BY <1>0, <1>1 DEF OnceRead, LoadOf
    <2>1. WriteKind(writes[k])
      BY DEF MountsInv, KindsInv, InQueue
    <2> QED
      BY <1>1, <2>1 DEF WriteKind, LoadOf, Mounts
  <1>5. OnceWritten'
    BY <1>0 DEF MountsInv, OnceWritten, LoadOf
  <1> QED
    BY <1>2, <1>3, <1>4, <1>5 DEF MountsInv

\* So does LoadHistory.
LEMMA LoadHistoryKeepsMounts ==
  ASSUME TypeInv, TypeInv', MountsInv, LoadHistory
  PROVE  MountsInv'
PROOF
  <1>0. ScreenInv /\ LoadInv /\ KindsInv /\ OnceRead /\ OnceWritten /\ load.pc = "reading" /\ UNCHANGED <<used, happened>>
    BY LoadHistoryIs DEF MountsInv
  <1>1. page.mount # 0 /\ page.mount \in Mounts
    BY <1>0, PageIs DEF TypeInv, LoadInv
  <1>2. \A k \in DOMAIN writes : ~LoadOf(writes[k], page.mount)
    BY <1>0 DEF OnceRead
  <1>3. CASE HistoryShown
    <2>2. ScreenInv' /\ SameMount /\ LoadInv' /\ UNCHANGED writes
      BY <1>0, <1>1, <1>3, ScreenStays DEF HistoryShown, Shown, SameMount, LoadInv
    <2>3. KindsInv' /\ OnceRead' /\ OnceWritten'
      BY <1>0, <1>2, <2>2 DEF KindsInv, OnceRead, OnceWritten, InQueue, WriteKind, Deletions, LoadOf, SameMount
    <2> QED
      BY <2>2, <2>3 DEF MountsInv
  <1>4. ASSUME NEW x \in Writes, HistorySaved(x) PROVE MountsInv'
    <2>1. x.op = "all" /\ x.by.kind = "load" /\ x.by.m = page.mount /\ load'.pc = "saving" /\ UNCHANGED memory
      BY <1>4 DEF HistorySaved
    <2>2. writes' = Append(writes, x)
      BY <1>4 DEF HistorySaved
    <2>3. /\ InQueue' = InQueue \cup {x}
          /\ \A k \in DOMAIN writes' : (k \in DOMAIN writes /\ writes'[k] = writes[k]) \/ (k = Len(writes) + 1 /\ writes'[k] = x)
      BY <2>2, QueueGrows DEF TypeInv
    <2>4. Unshown /\ page' = page
      BY <2>1 DEF memory, Unshown, SameMount
    <2>5. ScreenInv' /\ LoadInv'
      BY <1>0, <1>1, <2>4, ScreenStays DEF LoadInv
    <2>6. WriteKind(x)'
      <3>1. page.mount <= page.opened
        BY <1>0, <1>1 DEF ScreenInv, Mounts
      <3> QED
        BY <1>1, <2>1, <2>4, <3>1 DEF WriteKind
    <2>7. KindsInv'
      <3>1. \A y \in InQueue : WriteKind(y)'
        BY <1>0, <2>4 DEF KindsInv, WriteKind, Deletions
      <3> QED
        BY <2>3, <2>6, <3>1 DEF KindsInv
    <2>8. OnceRead'
      BY <2>1, <2>4 DEF OnceRead
    <2>9. OnceWritten'
      <3> SUFFICES ASSUME NEW j \in DOMAIN writes', NEW k \in DOMAIN writes', j # k, writes'[j].op = "all",
                          LoadOf(writes'[k], writes'[j].by.m)
                   PROVE  FALSE
        BY DEF OnceWritten, LoadOf
      <3>1. CASE j \in DOMAIN writes /\ writes'[j] = writes[j] /\ k \in DOMAIN writes /\ writes'[k] = writes[k]
        BY <1>0, <3>1 DEF OnceWritten
      <3>2. CASE j \in DOMAIN writes /\ writes'[j] = writes[j] /\ writes'[k] = x
        <4>1. WriteKind(writes[j]) /\ writes[j].by.kind = "load"
          BY <1>0, <3>2 DEF KindsInv, InQueue, WriteKind
        <4> QED
          BY <1>2, <2>1, <3>2, <4>1 DEF LoadOf
      <3>3. CASE writes'[j] = x /\ k \in DOMAIN writes /\ writes'[k] = writes[k]
        BY <1>2, <2>1, <3>3 DEF LoadOf
      <3> QED
        BY <2>3, <3>1, <3>2, <3>3
    <2> QED
      BY <2>5, <2>7, <2>8, <2>9 DEF MountsInv
  <1> QED
    BY <1>3, <1>4, HistoryComes

\* So does the end of a write.
LEMMA WriteOverKeepsMounts ==
  ASSUME TypeInv, TypeInv', MountsInv, WriteDone \/ WriteFailed
  PROVE  MountsInv'
PROOF
  <1> DEFINE b == Head(writes).by
  <1>0. ScreenInv /\ LoadInv /\ KindsInv /\ OnceRead /\ OnceWritten
    BY DEF MountsInv
  <1>1. PICK ok \in BOOLEAN : WriteEnds(ok)
    BY WriteEndsIs
  <1>2. writes # <<>> /\ writes' = Tail(writes) /\ Grows /\ Resume(b, ok)
    BY <1>1 DEF WriteEnds
  <1>3. b \in Bys /\ Awaited(b)
    BY <1>2, HeadIs DEF TypeInv
  <1>4. Brought(b, ok)
    BY <1>2, <1>3, ResumeBrings
  <1>5. /\ Head(writes) = writes[1] /\ 1 \in DOMAIN writes /\ InQueue' \subseteq InQueue
        /\ \A k \in DOMAIN writes' : k \in Nat /\ k + 1 \in DOMAIN writes /\ k + 1 > 1 /\ writes'[k] = writes[k + 1]
    BY <1>2, QueueShrinks DEF TypeInv
  <1>6. b = writes[1].by
    BY <1>5
  <1> HIDE DEF b
  <1>7. Unshown \/ \E m, items : Shown(m, items)
    BY <1>3, <1>4, ByIs DEF Brought
  <1>8. SameMount /\ ScreenInv'
    BY <1>0, <1>7, ScreenStays DEF Unshown, Shown
  <1>9. LoadInv'
    BY <1>0, <1>4, <1>8 DEF Brought, LoadInv, SameMount
  <1>10. KindsInv'
    <2>1. \A x \in Writes : WriteKind(x) => WriteKind(x)'
      <3>1. page'.opened \in Int /\ page'.opened >= page.opened
        BY <1>8 DEF SameMount, TypeInv, MemoryT
      <3> QED
        BY <1>2, <3>1, KindStays
    <2>2. InQueue \subseteq Writes
      BY DEF InQueue, TypeInv, PendingT
    <2> QED
      BY <1>0, <1>5, <2>1, <2>2 DEF KindsInv
  <1>11. OnceWritten'
    <2> SUFFICES ASSUME NEW j \in DOMAIN writes', NEW k \in DOMAIN writes', j # k, writes'[j].op = "all"
                 PROVE  ~LoadOf(writes'[k], writes'[j].by.m)
      BY DEF OnceWritten, LoadOf
    <2>1. j + 1 # k + 1 /\ j + 1 \in DOMAIN writes /\ k + 1 \in DOMAIN writes /\ writes'[j] = writes[j + 1] /\ writes'[k] = writes[k + 1]
      BY <1>5
    <2> QED
      BY <1>0, <2>1 DEF OnceWritten
  <1>12. OnceRead'
    <2> SUFFICES ASSUME NEW k \in DOMAIN writes', LoadOf(writes'[k], page.mount) PROVE load'.pc = "saving"
      BY <1>8 DEF OnceRead, LoadOf, SameMount
    <2>1. k + 1 \in DOMAIN writes /\ k + 1 # 1 /\ writes'[k] = writes[k + 1]
      BY <1>5
    <2>2. load.pc = "saving"
      BY <1>0, <2>1 DEF OnceRead
    <2>3. ~ForScreen(b)
      <3>1. WriteKind(writes[k + 1]) /\ writes[k + 1].op = "all" /\ writes[k + 1].by.m = page.mount
        BY <1>0, <2>1 DEF KindsInv, InQueue, WriteKind, LoadOf
      <3>2. ~LoadOf(writes[1], page.mount)
        BY <1>0, <1>5, <2>1, <3>1 DEF OnceWritten
      <3> QED
        BY <1>6, <3>2 DEF LoadOf, ForScreen
    <2> QED
      BY <1>4, <2>2, <2>3 DEF Brought
  <1> QED
    BY <1>8, <1>9, <1>10, <1>11, <1>12 DEF MountsInv

\* No mount has anything in a document that was just loaded.
LEMMA LoadedMounts == Loaded => MountsInv
PROOF
  <1> SUFFICES ASSUME Loaded PROVE MountsInv
    OBVIOUS
  <1>1. page.mount = 0 /\ load.pc = "off" /\ DOMAIN writes = {}
    BY DEF Loaded
  <1> QED
    BY <1>1 DEF MountsInv, ScreenInv, LoadInv, KindsInv, InQueue, OnceRead, OnceWritten

\* The steps, in the groups that the proofs treat.
LEMMA StepCases ==
  ASSUME [Next]_vars
  PROVE  \/ \E l \in Loops : RunStep(l)
         \/ SitsStill \/ GoesAway \/ Open \/ LoadHistory \/ Clear \/ \E c \in Convs : Submit(c) \/ Delete(c)
         \/ WriteDone \/ WriteFailed \/ Reload
  BY NextCases DEF PageStep, RunStep, SitsStill, GoesAway

\* Every step keeps the invariant of mounts.
LEMMA StepKeepsMounts == TypeInv /\ TypeInv' /\ MountsInv /\ [Next]_vars => MountsInv'
PROOF
  <1> SUFFICES ASSUME TypeInv, TypeInv', MountsInv, [Next]_vars PROVE MountsInv'
    OBVIOUS
  <1>1. CASE Reload
    BY <1>1, ReloadLoads, LoadedMounts, PTL
  <1>2. CASE SitsStill \/ GoesAway \/ Clear \/ \E c \in Convs : Submit(c) \/ Delete(c)
    BY <1>2, PageKeepsMounts
  <1>3. ASSUME NEW l \in Loops, RunStep(l) PROVE MountsInv'
    BY <1>3, RunKeepsMounts
  <1> QED
    BY <1>1, <1>2, <1>3, StepCases, OpenKeepsMounts, LoadHistoryKeepsMounts, WriteOverKeepsMounts
-----------------------------------------------------------------------------
(* While the user waits for the history, and does not look elsewhere while *)
(* something is deleted, the history is read only when nothing runs.       *)

Idle == \A l \in Loops : ~Busy(l)
Fresh == list = NoItems /\ (~Deletions \/ page.mount = 0 \/ load.pc # "off")
DeletesOnScreen == \A x \in InQueue : x.op \in {"delete", "clear"} => page.mount # 0 /\ load.pc = "off"
ReadsIntoNothing == load.pc # "off" => list = NoItems
FreshIsIdle == Fresh => Idle
HistoryInv == Patient => DeletesOnScreen /\ ReadsIntoNothing /\ FreshIsIdle

\* Who is patient after a step was so before it.
LEMMA PatientBefore ==
  ASSUME Grows, Patient'
  PROVE  Patient /\ (~Deletions' => ~Deletions)
  BY DEF Grows, Patient, ReadBeforeDeletion, Deletions

\* A list with a conversation is not empty.
LEMMA SomethingListed ==
  ASSUME NEW items, NEW c \in Convs, items[c] # None
  PROVE  items # NoItems
  BY DEF NoItems

\* A step of a run keeps the invariant of the history.
LEMMA RunKeepsHistory ==
  ASSUME TypeInv, MountsInv, HistoryInv, NEW l \in Loops, RunStep(l)
  PROVE  HistoryInv'
PROOF
  <1> SUFFICES ASSUME Patient' PROVE DeletesOnScreen' /\ ReadsIntoNothing' /\ FreshIsIdle'
    BY DEF HistoryInv
  <1>1. UNCHANGED Elsewhere /\ RunLeaves(l) /\ RunMoves(l) /\ Grows
    BY RunStepLeaves, RunStepMoves, UsedAre DEF Elsewhere, Grows
  <1>2. DeletesOnScreen /\ ReadsIntoNothing /\ FreshIsIdle
    BY <1>1, PatientBefore DEF HistoryInv
  <1>3. SameMount /\ UNCHANGED <<load, happened>> /\ (Deletions' <=> Deletions)
    BY <1>1 DEF RunLeaves, SameMount, Elsewhere, Deletions
  <1>4. DeletesOnScreen'
    <2>1. CASE UNCHANGED writes
      BY <1>2, <1>3, <2>1 DEF DeletesOnScreen, InQueue, SameMount
    <2>2. ASSUME NEW x \in Writes, writes' = Append(writes, x), x.op = "save"
          PROVE  DeletesOnScreen'
      BY <1>2, <1>3, <2>2, QueueGrows DEF DeletesOnScreen, SameMount, TypeInv
    <2> QED
      BY <1>1, <2>1, <2>2 DEF RunLeaves, SaveBy
  <1>5. list' # list => list # NoItems /\ list' # NoItems /\ ~LoopPick(l)
    <2> SUFFICES ASSUME list' # list PROVE list # NoItems /\ list' # NoItems /\ ~LoopPick(l)
      OBVIOUS
    <2>1. loop[l].conv \in Convs /\ list'[loop[l].conv] # None /\ list[loop[l].conv] # None
      BY <1>1, NoneIsNoConversation DEF RunLeaves, EditOf
    <2> QED
      BY <2>1, SomethingListed DEF LoopPick, memory
  <1>6. ReadsIntoNothing'
    BY <1>2, <1>3, <1>5 DEF ReadsIntoNothing
  <1>7. FreshIsIdle'
    <2> SUFFICES ASSUME Fresh' PROVE Idle'
      BY DEF FreshIsIdle
    <2>1. list' = list /\ Fresh /\ Idle
      BY <1>2, <1>3, <1>5 DEF Fresh, SameMount, FreshIsIdle
    <2>2. ~Busy(l)'
      <3>1. ~Picks(l)
        BY <2>1, SomethingListed DEF Picks, HasQueued, Fresh
      <3> QED
        BY <1>1, <2>1, <3>1 DEF RunMoves, Idle
    <2> QED
      BY <1>1, <2>1, <2>2 DEF RunMoves, OnlyLoop, Idle, Busy
  <1> QED
    BY <1>4, <1>6, <1>7

\* So does a step that leaves the history alone, and leaving the page.
LEMMA SittingKeepsHistory ==
  ASSUME TypeInv, MountsInv, HistoryInv, SitsStill \/ GoesAway
  PROVE  HistoryInv'
PROOF
  <1> SUFFICES ASSUME Patient' PROVE DeletesOnScreen' /\ ReadsIntoNothing' /\ FreshIsIdle'
    BY DEF HistoryInv
  <1>1. CASE SitsStill
    <2>1. Unmoved
      BY <1>1, SitsStillIs
    <2>2. DeletesOnScreen /\ ReadsIntoNothing /\ FreshIsIdle
      BY <2>1, PatientBefore DEF HistoryInv, Unmoved
    <2>3. DeletesOnScreen' /\ ReadsIntoNothing'
      BY <2>1, <2>2 DEF DeletesOnScreen, ReadsIntoNothing, InQueue, Unmoved, Unshown, SameMount
    <2>4. FreshIsIdle'
      <3>1. Fresh' => Fresh
        BY <2>1, PatientBefore DEF Fresh, Unmoved, Unshown, SameMount
      <3>2. Idle => Idle'
        BY <2>1 DEF Idle, Unmoved, SameBusy
      <3> QED
        BY <2>2, <3>1, <3>2 DEF FreshIsIdle
    <2> QED
      BY <2>3, <2>4
  <1>2. CASE GoesAway
    <2>1. LeavesPage
      BY <1>2, GoesAwayIs
    <2>2. DeletesOnScreen /\ ReadsIntoNothing /\ FreshIsIdle
      BY <2>1, PatientBefore DEF HistoryInv, LeavesPage
    <2>3. ~Deletions' /\ ~Deletions
      BY <2>1, PatientBefore DEF LeavesPage, Patient, ReadBeforeDeletion, Deletions
    <2>4. DeletesOnScreen'
      BY <2>1, <2>3 DEF DeletesOnScreen, MountsInv, KindsInv, WriteKind, InQueue, LeavesPage
    <2>5. ReadsIntoNothing'
      BY <2>1 DEF ReadsIntoNothing, LeavesPage
    <2>6. FreshIsIdle'
      BY <2>1, <2>2, <2>3 DEF FreshIsIdle, Fresh, Idle, Busy, LeavesPage
    <2> QED
      BY <2>4, <2>5, <2>6
  <1> QED
    BY <1>1, <1>2

\* So do the user's steps.
LEMMA UserKeepsHistory ==
  ASSUME TypeInv, MountsInv, HistoryInv, Open \/ Clear \/ \E c \in Convs : Submit(c) \/ Delete(c)
  PROVE  HistoryInv'
PROOF
  <1> SUFFICES ASSUME Patient' PROVE DeletesOnScreen' /\ ReadsIntoNothing' /\ FreshIsIdle'
    BY DEF HistoryInv
  <1>1. CASE Open
    <2>1. /\ page.mount = 0 /\ page'.mount = page.opened + 1 /\ page.opened + 1 \in Mounts
          /\ load'.pc = (IF list = NoItems THEN "reading" ELSE "off")
          /\ UNCHANGED <<list, loop, writes, happened>>
      BY <1>1 DEF Open
    <2>2. DeletesOnScreen /\ ReadsIntoNothing /\ FreshIsIdle
      BY <2>1 DEF HistoryInv, Patient, ReadBeforeDeletion
    <2>3. DeletesOnScreen' /\ ReadsIntoNothing'
      BY <2>1, <2>2 DEF DeletesOnScreen, ReadsIntoNothing, InQueue
    <2>4. FreshIsIdle'
      BY <2>1, <2>2 DEF FreshIsIdle, Fresh, Idle, Busy
    <2> QED
      BY <2>3, <2>4
  <1>2. ASSUME Grows, load.pc = "off", page.mount # 0, UNCHANGED <<load, loop>>, SameMount, list' # NoItems \/ Deletions',
               NEW x \in Writes, writes' = Append(writes, x)
        PROVE  DeletesOnScreen' /\ ReadsIntoNothing' /\ FreshIsIdle'
    <2>1. DeletesOnScreen'
      BY <1>2, QueueGrows DEF DeletesOnScreen, SameMount, TypeInv
    <2>2. ReadsIntoNothing' /\ FreshIsIdle'
      BY <1>2 DEF ReadsIntoNothing, FreshIsIdle, Fresh, SameMount
    <2> QED
      BY <2>1, <2>2
  <1>3. ASSUME NEW c \in Convs, Submit(c) PROVE DeletesOnScreen' /\ ReadsIntoNothing' /\ FreshIsIdle'
    <2>1. PICK x \in Writes : SubmitDoes(c, x)
      BY <1>3, SubmitSaves
    <2>2. load.pc = "off"
      BY <2>1 DEF SubmitDoes, Settled, Hasty, Hazard, Patient
    <2>3. list' # NoItems
      BY <2>1, NoneIsNoConversation, SomethingListed DEF SubmitDoes, Shown
    <2> QED
      BY <1>2, <2>1, <2>2, <2>3 DEF SubmitDoes, Shown
  <1>4. ASSUME NEW c \in Convs, Delete(c) PROVE DeletesOnScreen' /\ ReadsIntoNothing' /\ FreshIsIdle'
    <2>1. PICK x \in Writes : DeleteDoes(c, x)
      BY <1>4, DeleteSaves
    <2> QED
      BY <1>2, <2>1 DEF DeleteDoes, Shown, Deletions
  <1>5. CASE Clear
    <2>1. PICK x \in Writes : ClearDoes(x)
      BY <1>5, ClearSaves
    <2> QED
      BY <1>2, <2>1 DEF ClearDoes, Shown, Deletions
  <1> QED
    BY <1>1, <1>3, <1>4, <1>5

\* So does LoadHistory.
LEMMA LoadHistoryKeepsHistory ==
  ASSUME TypeInv, MountsInv, HistoryInv, LoadHistory
  PROVE  HistoryInv'
PROOF
  <1> SUFFICES ASSUME Patient' PROVE DeletesOnScreen' /\ ReadsIntoNothing' /\ FreshIsIdle'
    BY DEF HistoryInv
  <1>0. load.pc = "reading" /\ UNCHANGED <<loop, happened>>
    BY LoadHistoryIs
  <1>1. DeletesOnScreen /\ ReadsIntoNothing /\ FreshIsIdle
    BY <1>0 DEF HistoryInv, Patient, ReadBeforeDeletion
  <1>2. (\A x \in InQueue : x.op \notin {"delete", "clear"}) /\ list = NoItems /\ Idle
    BY <1>0, <1>1 DEF DeletesOnScreen, ReadsIntoNothing, FreshIsIdle, Fresh
  <1>3. FreshIsIdle'
    BY <1>0, <1>2 DEF FreshIsIdle, Idle, Busy
  <1>4. CASE UNCHANGED writes /\ load'.pc = "off"
    BY <1>2, <1>3, <1>4 DEF DeletesOnScreen, ReadsIntoNothing, InQueue
  <1>5. ASSUME NEW x \in Writes, HistorySaved(x)
        PROVE  DeletesOnScreen' /\ ReadsIntoNothing'
    <2>1. InQueue' = InQueue \cup {x} /\ x.op = "all"
      BY <1>5, QueueGrows DEF HistorySaved, TypeInv
    <2>2. list' = list
      BY <1>5 DEF HistorySaved, memory
    <2>3. \A y \in InQueue' : y.op \notin {"delete", "clear"}
      BY <1>2, <2>1
    <2> QED
      BY <1>2, <2>2, <2>3 DEF DeletesOnScreen, ReadsIntoNothing
  <1> QED
    BY <1>3, <1>4, <1>5, HistoryComes DEF HistoryShown

\* So does the end of a write.
LEMMA WriteOverKeepsHistory ==
  ASSUME TypeInv, MountsInv, HistoryInv, WriteDone \/ WriteFailed
  PROVE  HistoryInv'
PROOF
  <1> SUFFICES ASSUME Patient' PROVE DeletesOnScreen' /\ ReadsIntoNothing' /\ FreshIsIdle'
    BY DEF HistoryInv
  <1> DEFINE x == Head(writes)
             b == x.by
  <1>1. PICK ok \in BOOLEAN : WriteEnds(ok)
    BY WriteEndsIs
  <1>2. writes # <<>> /\ writes' = Tail(writes) /\ Grows /\ Resume(b, ok)
    BY <1>1 DEF WriteEnds
  <1>3. x \in Writes /\ b \in Bys /\ Awaited(b)
    BY <1>2, HeadIs DEF TypeInv
  <1>4. Brought(b, ok)
    BY <1>2, <1>3, ResumeBrings
  <1>5. InQueue' \subseteq InQueue /\ x \in InQueue
    BY <1>2, QueueShrinks DEF TypeInv
  <1>6. WriteKind(x) /\ Patient /\ (~Deletions' => ~Deletions)
    BY <1>2, <1>5, PatientBefore DEF MountsInv, KindsInv
  <1> HIDE DEF x
  <1>7. DeletesOnScreen /\ ReadsIntoNothing /\ FreshIsIdle
    BY <1>6 DEF HistoryInv
  <1>8. Idle => Idle'
    BY <1>4 DEF Brought, SameBusy, Idle
  <1>9. CASE ForScreen(b)
    <2>1. load.pc = "saving"
      <3>1. 1 \in DOMAIN writes /\ writes[1] = x
        BY <1>2, QueueShrinks DEF TypeInv, x
      <3> QED
        BY <1>9, <3>1 DEF MountsInv, OnceRead, ForScreen, LoadOf
    <2>2. (\A y \in InQueue : y.op \notin {"delete", "clear"}) /\ Idle /\ load'.pc = "off"
      BY <1>4, <1>7, <1>9, <2>1 DEF Brought, DeletesOnScreen, ReadsIntoNothing, FreshIsIdle, Fresh
    <2> QED
      BY <1>5, <1>8, <2>2 DEF DeletesOnScreen, ReadsIntoNothing, FreshIsIdle
  <1>10. CASE b.kind \in {"delete", "clear"} /\ ~ok
    <2>1. page.mount # 0 /\ load.pc = "off" /\ Deletions
      BY <1>5, <1>6, <1>7, <1>10 DEF DeletesOnScreen, WriteKind
    <2>2. UNCHANGED load /\ SameMount
      BY <1>4, <1>10 DEF Brought, ForScreen, Shown
    <2>3. Deletions'
      BY <1>2, <2>1 DEF Grows, Deletions
    <2> QED
      BY <1>5, <2>1, <2>2, <2>3 DEF DeletesOnScreen, ReadsIntoNothing, FreshIsIdle, Fresh, SameMount
  <1>11. CASE ~ForScreen(b) /\ (b.kind \notin {"delete", "clear"} \/ ok)
    <2>1. Unshown /\ UNCHANGED load
      BY <1>3, <1>4, <1>11, ByIs DEF Brought
    <2>2. Fresh' => Fresh
      BY <1>6, <2>1 DEF Fresh, Unshown, SameMount
    <2> QED
      BY <1>5, <1>7, <1>8, <2>1, <2>2 DEF DeletesOnScreen, ReadsIntoNothing, FreshIsIdle, Unshown, SameMount
  <1> QED
    BY <1>9, <1>10, <1>11

\* Nobody reads the history of a document that was just loaded.
LEMMA LoadedHistory == Loaded => HistoryInv
PROOF
  <1> SUFFICES ASSUME Loaded PROVE HistoryInv
    OBVIOUS
  <1>1. load.pc = "off" /\ DOMAIN writes = {} /\ \A l \in Loops : loop[l].pc = "off"
    BY OffIs DEF Loaded
  <1> QED
    BY <1>1 DEF HistoryInv, DeletesOnScreen, ReadsIntoNothing, FreshIsIdle, Idle, Busy, InQueue

\* Every step keeps the invariant of the history.
LEMMA StepKeepsHistory == TypeInv /\ MountsInv /\ HistoryInv /\ [Next]_vars => HistoryInv'
PROOF
  <1> SUFFICES ASSUME TypeInv, MountsInv, HistoryInv, [Next]_vars PROVE HistoryInv'
    OBVIOUS
  <1>1. CASE Reload
    BY <1>1, ReloadLoads, LoadedHistory, PTL
  <1>2. CASE SitsStill \/ GoesAway
    BY <1>2, SittingKeepsHistory
  <1>3. CASE Open \/ Clear \/ \E c \in Convs : Submit(c) \/ Delete(c)
    BY <1>3, UserKeepsHistory
  <1>4. ASSUME NEW l \in Loops, RunStep(l) PROVE HistoryInv'
    BY <1>4, RunKeepsHistory
  <1> QED
    BY <1>1, <1>2, <1>3, <1>4, StepCases, LoadHistoryKeepsHistory, WriteOverKeepsHistory
-----------------------------------------------------------------------------
(* The ids that were not handed out yet are nowhere.                       *)

KnownTo(n, items) == \A c \in Convs : items[c] # None => c <= n
WriteKnown(n, x) ==
    /\ KnownTo(n, x.items)
    /\ x.op = "delete" => x.conv <= n
    /\ x.op = "clear" => KnownTo(n, x.by.before)
KnownStored == KnownTo(used.convs, stored) /\ \A c \in gone : c <= used.convs
KnownInQueue == \A x \in InQueue : WriteKnown(used.convs, x)
KnownRuns == \A l \in Loops : Busy(l) => loop[l].conv <= used.convs
KnownInv == KnownTo(used.convs, list) /\ KnownTo(used.convs, load.items) /\ KnownStored /\ KnownInQueue /\ KnownRuns

\* Ids only grow: what was known stays known.
LEMMA KnownStays ==
  ASSUME NEW n \in Int, NEW m \in Int, n <= m
  PROVE  /\ \A items : KnownTo(n, items) => KnownTo(m, items)
         /\ \A x \in Writes : WriteKnown(n, x) => WriteKnown(m, x)
PROOF
  <1>1. \A c \in Convs : c \in Int
    BY QueueAssumption DEF Convs
  <1>2. \A c \in Convs : c <= n => c <= m
    BY <1>1
  <1>3. \A items : KnownTo(n, items) => KnownTo(m, items)
    BY <1>2 DEF KnownTo
  <1>4. \A x \in Writes : x.op = "delete" => x.conv \in Convs
    BY WriteIs
  <1> QED
    BY <1>2, <1>3, <1>4 DEF WriteKnown

\* The steps keep what they leave alone: what remains is what they show, read, store and run.
LEMMA KnownLeft ==
  ASSUME TypeInv, TypeInv', KnownInv, Grows
  PROVE  /\ \A items : KnownTo(used.convs, items) => KnownTo(used'.convs, items)
         /\ \A x \in Writes : WriteKnown(used.convs, x) => WriteKnown(used'.convs, x)
         /\ UNCHANGED list => KnownTo(used.convs, list)'
         /\ UNCHANGED load \/ load'.items = NoItems \/ load'.items = load.items => KnownTo(used.convs, load.items)'
         /\ UNCHANGED disk => KnownStored'
         /\ InQueue' \subseteq InQueue => KnownInQueue'
         /\ SameBusy => KnownRuns'
PROOF
  <1>1. used.convs \in Int /\ used'.convs \in Int /\ used.convs <= used'.convs
    BY DEF TypeInv, CountsT, Grows
  <1>2. /\ \A items : KnownTo(used.convs, items) => KnownTo(used'.convs, items)
        /\ \A x \in Writes : WriteKnown(used.convs, x) => WriteKnown(used'.convs, x)
    BY <1>1, KnownStays
  <1>3. \A c \in Convs : c <= used.convs => c <= used'.convs
    BY <1>1, QueueAssumption DEF Convs
  <1>4. KnownTo(used'.convs, NoItems)
    BY DEF KnownTo, NoItems
  <1>5. InQueue \subseteq Writes /\ gone \subseteq Convs
    BY DEF InQueue, TypeInv, PendingT, DiskT
  <1>6. UNCHANGED disk => KnownStored'
    BY <1>2, <1>3, <1>5 DEF KnownInv, KnownStored, disk
  <1>7. InQueue' \subseteq InQueue => KnownInQueue'
    BY <1>2, <1>5 DEF KnownInv, KnownInQueue
  <1>8. SameBusy => KnownRuns'
    BY <1>3 DEF KnownInv, KnownRuns, SameBusy, TypeInv, LoopT, Busy
  <1> QED
    BY <1>2, <1>4, <1>6, <1>7, <1>8 DEF KnownInv

\* What is appended has to be known.
LEMMA KnownAppended ==
  ASSUME TypeInv, TypeInv', KnownInv, Grows, NEW x \in Writes, writes' = Append(writes, x), WriteKnown(used'.convs, x)
  PROVE  KnownInQueue'
PROOF
  <1>1. InQueue \subseteq Writes /\ InQueue' = InQueue \cup {x}
    BY QueueGrows DEF InQueue, TypeInv, PendingT
  <1>2. \A y \in InQueue : WriteKnown(used'.convs, y)
    BY <1>1, KnownLeft DEF KnownInv, KnownInQueue
  <1> QED
    BY <1>1, <1>2 DEF KnownInQueue

\* A step of a run makes no conversation known.
LEMMA RunKeepsKnown ==
  ASSUME TypeInv, TypeInv', KnownInv, NEW l \in Loops, RunStep(l)
  PROVE  KnownInv'
PROOF
  <1> DEFINE c == loop[l].conv
  <1>1. UNCHANGED Elsewhere /\ RunLeaves(l) /\ RunMoves(l) /\ Grows
    BY RunStepLeaves, RunStepMoves, UsedAre DEF Elsewhere, Grows
  <1>2. used' = used /\ UNCHANGED <<load, disk>>
    BY <1>1 DEF Elsewhere
  <1>3. KnownTo(used.convs, list)'
    <2>1. UNCHANGED list \/ (c \in Convs /\ list[c] # None /\ list' = [list EXCEPT ![c] = list'[c]])
      BY <1>1, NoneIsNoConversation DEF RunLeaves, EditOf
    <2>2. \A d \in Convs : list'[d] # None => list[d] # None
      BY <2>1 DEF TypeInv, MemoryT, ItemsT
    <2> QED
      BY <1>2, <2>2 DEF KnownInv, KnownTo
  <1>4. KnownInQueue'
    <2>1. ASSUME NEW x \in Writes, writes' = Append(writes, x), SaveBy(x, c, {"loop", "worker"}), c \in Convs
          PROVE  KnownInQueue'
      <3>1. WriteKnown(used'.convs, x)
        BY <1>3, <2>1, NoneIsNoConversation DEF SaveBy, WriteKnown, KnownTo
      <3> QED
        BY <1>1, <2>1, <3>1, KnownAppended
    <2>2. UNCHANGED writes => KnownInQueue'
      BY <1>1, KnownLeft DEF InQueue
    <2> QED
      BY <1>1, <2>1, <2>2 DEF RunLeaves
  <1>5. KnownRuns'
    <2>1. ASSUME NEW k \in Loops, Busy(k)' PROVE loop'[k].conv <= used.convs
      <3>1. CASE k # l
        BY <1>1, <2>1, <3>1 DEF KnownInv, KnownRuns, RunMoves, OnlyLoop, Busy
      <3>2. CASE k = l /\ Busy(l) /\ loop'[l].conv = loop[l].conv
        BY <3>2 DEF KnownInv, KnownRuns
      <3>3. CASE k = l /\ Picks(l)
        BY <3>3 DEF KnownInv, KnownTo, Picks, HasQueued
      <3> QED
        BY <1>1, <2>1, <3>1, <3>2, <3>3 DEF RunMoves
    <2> QED
      BY <1>2, <2>1 DEF KnownRuns
  <1> QED
    BY <1>1, <1>2, <1>3, <1>4, <1>5, KnownLeft DEF KnownInv

\* The steps of the page and its user show conversations that are known, and a new one is counted.
LEMMA PageKeepsKnown ==
  ASSUME TypeInv, TypeInv', KnownInv, SitsStill \/ GoesAway \/ Open \/ Clear \/ \E c \in Convs : Submit(c) \/ Delete(c)
  PROVE  KnownInv'
PROOF
  <1>0. /\ KnownTo(used.convs, list) /\ \A items : KnownTo(used.convs, items) = (\A d \in Convs : items[d] # None => d <= used.convs)
        /\ UNCHANGED loop => SameBusy
    BY DEF KnownInv, KnownTo, SameBusy, Busy
  <1>1. CASE SitsStill
    <2>1. Unmoved /\ Grows
      BY <1>1, SitsStillIs DEF Unmoved
    <2> QED
      BY <2>1, KnownLeft DEF KnownInv, Unmoved, Unshown, InQueue
  <1>2. CASE GoesAway
    <2>1. LeavesPage /\ Grows
      BY <1>2, GoesAwayIs DEF LeavesPage
    <2> QED
      BY <1>0, <2>1, KnownLeft DEF KnownInv, LeavesPage, InQueue
  <1>3. CASE Open
    <2>1. /\ Grows /\ load'.items = NoItems
          /\ UNCHANGED <<list, disk, loop, writes>>
      BY <1>3, UsedAre DEF Open, Grows
    <2> QED
      BY <1>0, <2>1, KnownLeft DEF KnownInv, InQueue
  <1>4. ASSUME Grows, UNCHANGED <<load, disk, loop>>, \A d \in Convs : list'[d] # None => d <= used'.convs,
               NEW x \in Writes, writes' = Append(writes, x), WriteKnown(used'.convs, x)
        PROVE  KnownInv'
    <2>1. KnownInQueue' /\ KnownTo(used.convs, list)'
      BY <1>4, KnownAppended DEF KnownTo
    <2> QED
      BY <1>0, <1>4, <2>1, KnownLeft DEF KnownInv
  <1>5. ASSUME NEW c \in Convs, Submit(c) PROVE KnownInv'
    <2>1. PICK x \in Writes : SubmitDoes(c, x)
      BY <1>5, SubmitSaves
    <2>2. list' = [list EXCEPT ![c] = WithTurn(c)] /\ Grows
      BY <2>1 DEF SubmitDoes, Shown
    <2>3. KnownTo(used'.convs, list)
      BY <1>0, <2>2, KnownLeft
    <2>4. c <= used'.convs
      <3>1. c \in Int /\ used'.convs \in Int
        BY QueueAssumption DEF Convs, TypeInv, CountsT
      <3> QED
        BY <2>1, <2>3, <3>1 DEF SubmitDoes, KnownTo
    <2>5. \A d \in Convs : list'[d] # None => d <= used'.convs
      BY <2>2, <2>3, <2>4 DEF KnownTo, TypeInv, MemoryT, ItemsT
    <2>6. WriteKnown(used'.convs, x)
      BY <2>1, <2>4 DEF SubmitDoes, WriteKnown, KnownTo
    <2> QED
      BY <1>4, <2>1, <2>2, <2>5, <2>6 DEF SubmitDoes
  <1>6. ASSUME NEW c \in Convs, Delete(c) PROVE KnownInv'
    <2>1. PICK x \in Writes : DeleteDoes(c, x)
      BY <1>6, DeleteSaves
    <2>2. list' = [list EXCEPT ![c] = None] /\ used' = used /\ Grows
      BY <2>1 DEF DeleteDoes, Shown
    <2>3. list[c] # None
      BY <2>1, NoneIsNoConversation DEF DeleteDoes
    <2>4. \A d \in Convs : list'[d] # None => d <= used'.convs
      BY <1>0, <2>2 DEF KnownTo, TypeInv, MemoryT, ItemsT
    <2>5. WriteKnown(used'.convs, x)
      BY <1>0, <2>1, <2>2, <2>3 DEF DeleteDoes, WriteKnown, KnownTo, NoItems
    <2> QED
      BY <1>4, <2>1, <2>2, <2>4, <2>5 DEF DeleteDoes
  <1>7. CASE Clear
    <2>1. PICK x \in Writes : ClearDoes(x)
      BY <1>7, ClearSaves
    <2>2. list' = NoItems /\ used' = used /\ Grows
      BY <2>1 DEF ClearDoes, Shown
    <2>3. \A d \in Convs : list'[d] # None => d <= used'.convs
      BY <2>2 DEF NoItems
    <2>4. WriteKnown(used'.convs, x)
      BY <1>0, <2>1, <2>2 DEF ClearDoes, WriteKnown, KnownTo, NoItems
    <2> QED
      BY <1>4, <2>1, <2>2, <2>3, <2>4 DEF ClearDoes
  <1> QED
    BY <1>1, <1>2, <1>3, <1>5, <1>6, <1>7

\* Nothing is recovered or marked that was not there.
LEMMA NothingAdded ==
  /\ \A n, items : KnownTo(n, items) => KnownTo(n, Recovered(items)) /\ KnownTo(n, [c \in Convs |-> MarkAborted(items[c])])
  /\ \A x : MarkAborted(x) # None => x # None
PROOF
  <1>1. Over(None, Recover) = None /\ Over(None, Cancelled) = None
    BY DEF Over
  <1> QED
    BY <1>1 DEF KnownTo, Recovered, MarkAborted

\* LoadHistory shows conversations that are known.
LEMMA LoadHistoryKeepsKnown ==
  ASSUME TypeInv, TypeInv', KnownInv, LoadHistory
  PROVE  KnownInv'
PROOF
  <1>1. UNCHANGED <<loop, disk, used, happened>> /\ Grows /\ SameBusy
    BY LoadHistoryIs, UsedAre DEF Grows, SameBusy, Busy
  <1>2. KnownTo(used.convs, Visible) /\ KnownTo(used.convs, History)
    <2>1. KnownTo(used.convs, Visible)
      BY DEF KnownInv, KnownStored, KnownTo, Visible
    <2> QED
      BY <2>1, NothingAdded DEF History
  <1>3. CASE HistoryShown
    BY <1>1, <1>2, <1>3, KnownLeft DEF KnownInv, HistoryShown, Shown, InQueue
  <1>4. ASSUME NEW x \in Writes, HistorySaved(x) PROVE KnownInv'
    <2>1. KnownTo(used.convs, load.items)' /\ UNCHANGED list
      BY <1>1, <1>2, <1>4 DEF HistorySaved, memory
    <2>2. writes' = Append(writes, x) /\ WriteKnown(used'.convs, x)
      BY <1>1, <1>2, <1>4 DEF HistorySaved, WriteKnown
    <2>3. KnownInQueue'
      BY <1>1, <2>2, KnownAppended
    <2> QED
      BY <1>1, <2>1, <2>3, KnownLeft DEF KnownInv
  <1> QED
    BY <1>3, <1>4, HistoryComes

\* Nothing is stored that was not written.
LEMMA StoreKnown ==
  ASSUME TypeInv, NEW n, KnownTo(n, stored), \A c \in gone : c <= n, NEW x \in Writes, WriteKnown(n, x), Ok(x) \/ Broken(x)
  PROVE  KnownTo(n, stored') /\ \A c \in gone' : c <= n
PROOF
  <1>0. x.op \in {"save", "all", "delete", "clear"} /\ (x.op = "delete" => x.conv \in Convs)
    BY WriteIs
  <1>1. CASE Broken(x)
    BY <1>0, <1>1 DEF Broken, WriteKnown, KnownTo
  <1>2. CASE Ok(x) /\ x.op \in {"save", "all"}
    BY <1>2 DEF Ok, WriteKnown, KnownTo, Merged, Newest
  <1>3. CASE Ok(x) /\ x.op = "delete"
    BY <1>0, <1>3 DEF Ok, WriteKnown, KnownTo, TypeInv, DiskT, ItemsT
  <1>4. CASE Ok(x) /\ x.op = "clear"
    BY <1>4 DEF Ok, KnownTo, NoItems
  <1> QED
    BY <1>0, <1>1, <1>2, <1>3, <1>4

\* A write that is over leaves in the store conversations that are known.
LEMMA WriteOverKeepsKnown ==
  ASSUME TypeInv, TypeInv', KnownInv, MountsInv, WriteDone \/ WriteFailed
  PROVE  KnownInv'
PROOF
  <1> DEFINE x == Head(writes)
             b == x.by
  <1>1. PICK ok \in BOOLEAN : WriteEnds(ok)
    BY WriteEndsIs
  <1>2. /\ writes # <<>> /\ writes' = Tail(writes) /\ Grows /\ Resume(b, ok) /\ (Ok(x) \/ Broken(x))
        /\ used' = used
    BY <1>1 DEF WriteEnds
  <1>3. x \in Writes /\ b \in Bys /\ Awaited(b)
    BY <1>2, HeadIs DEF TypeInv
  <1>4. Brought(b, ok)
    BY <1>2, <1>3, ResumeBrings
  <1>5. InQueue' \subseteq InQueue /\ x \in InQueue
    BY <1>2, QueueShrinks DEF TypeInv
  <1>6. WriteKind(x) /\ WriteKnown(used.convs, x)
    BY <1>5 DEF MountsInv, KindsInv, KnownInv, KnownInQueue
  <1> HIDE DEF x
  <1>7. KnownStored'
    BY <1>2, <1>3, <1>6, StoreKnown DEF KnownInv, KnownStored
  <1>8. KnownTo(used.convs, load.items)' /\ KnownRuns' /\ KnownInQueue'
    BY <1>2, <1>4, <1>5, KnownLeft DEF Brought
  <1>9. KnownTo(used.convs, list)'
    <2>1. CASE ForScreen(b) /\ ok
      BY <1>2, <1>4, <2>1 DEF Brought, Shown, KnownInv
    <2>2. CASE b.kind = "delete" /\ ~ok
      <3>1. list' = [list EXCEPT ![b.conv] = MarkAborted(b.before)] /\ b.conv = x.conv /\ x.op = "delete"
        BY <1>4, <1>6, <2>2 DEF Brought, Shown, WriteKind
      <3> QED
        BY <1>2, <1>6, <3>1 DEF WriteKnown, KnownInv, KnownTo, TypeInv, MemoryT, ItemsT
    <2>3. CASE b.kind = "clear" /\ ~ok
      <3>1. list' = [c \in Convs |-> MarkAborted(b.before[c])] /\ x.op = "clear"
        BY <1>4, <1>6, <2>3 DEF Brought, Shown, WriteKind
      <3> QED
        BY <1>2, <1>6, <3>1, NothingAdded DEF WriteKnown
    <2>4. CASE UNCHANGED list
      BY <1>2, <2>4, KnownLeft
    <2> QED
      BY <1>3, <1>4, <2>1, <2>2, <2>3, <2>4, ByIs DEF Brought, Unshown
  <1> QED
    BY <1>7, <1>8, <1>9 DEF KnownInv

\* A reload shows nothing.
LEMMA ReloadKeepsKnown ==
  ASSUME TypeInv, TypeInv', KnownInv, Reload
  PROVE  KnownInv'
PROOF
  <1>1. Loaded'
    BY ReloadLoads
  <1>2. /\ KnownTo(used.convs, list)' /\ KnownTo(used.convs, load.items)' /\ KnownInQueue' /\ KnownRuns'
    BY <1>1, OffIs DEF Loaded, KnownTo, NoItems, KnownInQueue, InQueue, KnownRuns, Busy
  <1>3. /\ IF writes = <<>> THEN UNCHANGED disk ELSE Broken(Head(writes))
        /\ used' = used
    BY DEF Reload
  <1>4. KnownStored'
    <2>1. CASE writes = <<>>
      BY <1>3, <2>1 DEF disk, KnownInv, KnownStored
    <2>2. CASE writes # <<>>
      <3>1. Head(writes) \in Writes /\ WriteKnown(used.convs, Head(writes))
        <4>1. Head(writes) = writes[1] /\ 1 \in DOMAIN writes /\ writes \in Seq(Writes)
          BY <2>2 DEF TypeInv, PendingT
        <4> QED
          BY <4>1 DEF KnownInv, KnownInQueue, InQueue
      <3> QED
        BY <1>3, <2>2, <3>1, StoreKnown DEF KnownInv, KnownStored
    <2> QED
      BY <2>1, <2>2
  <1> QED
    BY <1>2, <1>4 DEF KnownInv

\* Every step keeps the invariant of what is known.
LEMMA StepKeepsKnown == TypeInv /\ TypeInv' /\ MountsInv /\ KnownInv /\ [Next]_vars => KnownInv'
PROOF
  <1> SUFFICES ASSUME TypeInv, TypeInv', MountsInv, KnownInv, [Next]_vars PROVE KnownInv'
    OBVIOUS
  <1>1. CASE SitsStill \/ GoesAway \/ Open \/ Clear \/ \E c \in Convs : Submit(c) \/ Delete(c)
    BY <1>1, PageKeepsKnown
  <1>2. ASSUME NEW l \in Loops, RunStep(l) PROVE KnownInv'
    BY <1>2, RunKeepsKnown
  <1> QED
    BY <1>1, <1>2, StepCases, LoadHistoryKeepsKnown, WriteOverKeepsKnown, ReloadKeepsKnown
=============================================================================
