---------------------------- MODULE Callbacks_proofs ----------------------------
(***************************************************************************)
(* Theorems about the two components that call their users back: SignalSlot*)
(* and BagPlayer with its BagRecorder, for any threads, topics and bounds. *)
(* SignalSlot: IndInv is the inductive invariant of the mutexes,           *)
(* connections and stacks of calls; EmitInv, on top of it, says of each    *)
(* emit where what it owes and what it has called lie among the slots;     *)
(* Climbing says that the calls of a thread are about later and later      *)
(* signals, so that no circle of waiting threads can close.                *)
(* BagPlayer: RecorderInv is the invariant of the recorder and its file,   *)
(* PlayerInv that of the plays, PlayedInv says where each message is that  *)
(* was read.                                                               *)
(***************************************************************************)
EXTENDS SignalSlot, BagPlayer, SequenceTheorems, FiniteSetTheorems, WellFoundedInduction, TLAPS

\* The calls of each thread are a stack: all but the innermost are emits whose
\* slot runs.
Stacked ==
    \A t \in Threads : \A k \in 1 .. Len(calls[t]) :
        LET call == calls[t][k]
        IN  /\ k < Len(calls[t]) => call.inside
            /\ call.inside => call.index > 0 /\ call.called # << >>
            /\ call.index > 0 => call.op = "emit"

\* No two emits of one signal run.
OneEmit ==
    \A t \in Threads : \A k, l \in 1 .. Len(calls[t]) :
        /\ calls[t][k].signal = calls[t][l].signal
        /\ calls[t][k].index > 0 /\ calls[t][l].index > 0
        => k = l

\* The id of a connect that waits is its own: nobody has or had it.
Fresh ==
    \A t \in Threads : \A k \in 1 .. Len(calls[t]) :
        LET call == calls[t][k]
        IN  /\ call.op = "connect" =>
                 /\ call.id \in Ids /\ call.id < next_id[call.signal]
                 /\ <<call.signal, call.id>> \notin returned
            /\ call.op = "disconnect" => <<call.signal, call.id>> \in returned

SameConnection(f, g) ==
    f.op = "connect" /\ g.op = "connect" /\ f.signal = g.signal /\ f.id = g.id

OneConnect ==
    \A t, u \in Threads : \A k \in 1 .. Len(calls[t]) : \A l \in 1 .. Len(calls[u]) :
        SameConnection(calls[t][k], calls[u][l]) => t = u /\ k = l

\* A slot that is valid belongs to a connection that was made and not taken back.
ValidIsConnected ==
    /\ gone \subseteq returned
    /\ \A s \in Signals :
          /\ \A id \in Ids : <<s, id>> \in returned => id < next_id[s]
          /\ \A i \in 1 .. Len(slots[s]) :
                /\ <<s, slots[s][i].id>> \in returned
                /\ slots[s][i].valid => <<s, slots[s][i].id>> \notin gone

IndInv == TypeOK /\ Stacked /\ OneEmit /\ Fresh /\ OneConnect /\ ValidIsConnected /\ NothingAfterDisconnect

-----------------------------------------------------------------------------
(* Stacks of calls *)

Stacks == [Threads -> Seq(Frames)]

\* Calls that differ in what they owe.
SameButOwed(f, g) ==
    /\ f.op = g.op /\ f.signal = g.signal /\ f.id = g.id
    /\ f.index = g.index /\ f.inside = g.inside /\ f.called = g.called

\* A call begins: t's stack grows by f, and others may owe less.
Begins(t, f) ==
    /\ calls' \in Stacks
    /\ \A u \in Threads : Len(calls'[u]) = IF u = t THEN Len(calls[t]) + 1 ELSE Len(calls[u])
    /\ \A u \in Threads : \A k \in 1 .. Len(calls[u]) : SameButOwed(calls'[u][k], calls[u][k])
    /\ calls'[t][Len(calls[t]) + 1] = f

\* A new call that is no connect of a known id leaves the connects distinct.
LEMMA BeginKeepsOneConnect ==
  ASSUME OneConnect, NEW t \in Threads, NEW f,
         \A u \in Threads : \A k \in 1 .. Len(calls'[u]) :
            \/ k \in 1 .. Len(calls[u]) /\ SameButOwed(calls'[u][k], calls[u][k])
            \/ u = t /\ k = Len(calls[t]) + 1 /\ calls'[u][k] = f,
         \A u \in Threads : \A k \in 1 .. Len(calls[u]) : ~SameConnection(calls[u][k], f)
  PROVE  OneConnect'
<1> SUFFICES ASSUME NEW u \in Threads, NEW v \in Threads,
                    NEW k \in 1 .. Len(calls'[u]), NEW l \in 1 .. Len(calls'[v]),
                    SameConnection(calls'[u][k], calls'[v][l])
             PROVE  u = v /\ k = l
  BY DEF OneConnect
<1>1. CASE k \in 1 .. Len(calls[u]) /\ SameButOwed(calls'[u][k], calls[u][k])
  <2>1. CASE l \in 1 .. Len(calls[v]) /\ SameButOwed(calls'[v][l], calls[v][l])
    <3>1. SameConnection(calls[u][k], calls[v][l])
      BY <1>1, <2>1 DEF SameButOwed, SameConnection
    <3> QED BY <1>1, <2>1, <3>1 DEF OneConnect
  <2>2. CASE calls'[v][l] = f
    <3>1. SameConnection(calls[u][k], f)
      BY <1>1, <2>2 DEF SameButOwed, SameConnection
    <3> QED BY <1>1, <3>1
  <2> QED BY <2>1, <2>2
<1>2. CASE u = t /\ k = Len(calls[t]) + 1 /\ calls'[u][k] = f
  <2>1. CASE l \in 1 .. Len(calls[v]) /\ SameButOwed(calls'[v][l], calls[v][l])
    <3>1. SameConnection(calls[v][l], f)
      BY <1>2, <2>1 DEF SameButOwed, SameConnection
    <3> QED BY <2>1, <3>1
  <2>2. CASE v = t /\ l = Len(calls[t]) + 1
    BY <1>2, <2>2
  <2> QED BY <2>1, <2>2
<1> QED BY <1>1, <1>2

LEMMA BeginKeeps ==
  ASSUME IndInv, NEW t \in Threads, NEW f \in Frames, Begins(t, f), f.index = 0, ~f.inside,
         calls[t] # << >> => Last(calls[t]).inside,
         f.op = "disconnect" => <<f.signal, f.id>> \in returned,
         f.op = "connect" => f.id = next_id[f.signal] /\ f.id \in Ids,
         next_id' = IF f.op = "connect" THEN [next_id EXCEPT ![f.signal] = @ + 1] ELSE next_id,
         count' \in [Threads -> 0 .. MaxCalls],
         UNCHANGED <<slots, mutex_, returned, gone>>
  PROVE  IndInv'
<1>1. /\ \A u \in Threads : calls[u] \in Seq(Frames) /\ Len(calls[u]) \in Nat
      /\ \A u \in Threads : \A k \in 1 .. Len(calls[u]) : calls[u][k] \in Frames
  BY DEF IndInv, TypeOK
<1>2. next_id' \in [Signals -> 1 .. MaxSlots + 1]
  BY SignalAssumption DEF IndInv, TypeOK, Ids, Frames
<1>3. \A s \in Signals : next_id[s] \in Nat /\ next_id'[s] \in Nat /\ next_id'[s] >= next_id[s]
  BY SignalAssumption DEF IndInv, TypeOK, Frames
<1>4. \A u \in Threads : \A k \in 1 .. Len(calls'[u]) :
         \/ k \in 1 .. Len(calls[u]) /\ SameButOwed(calls'[u][k], calls[u][k])
         \/ u = t /\ k = Len(calls[t]) + 1 /\ calls'[u][k] = f
  BY <1>1 DEF Begins
<1>5. \A u \in Threads : \A k \in 1 .. Len(calls[u]) :
         k \in 1 .. Len(calls'[u]) /\ SameButOwed(calls'[u][k], calls[u][k])
  BY <1>1 DEF Begins
<1>6. TypeOK'
  <2>1. ASSUME NEW u \in Threads, NEW s \in Signals PROVE Emits(u, s)' <=> Emits(u, s)
    <3>1. /\ DOMAIN calls'[u] = 1 .. Len(calls'[u]) /\ DOMAIN calls[u] = 1 .. Len(calls[u])
      BY <1>1 DEF Begins, Stacks
    <3>2. ASSUME Emits(u, s) PROVE Emits(u, s)'
      BY <3>1, <3>2, <1>5 DEF Emits, SameButOwed
    <3>3. ASSUME Emits(u, s)' PROVE Emits(u, s)
      BY <3>1, <3>3, <1>4, SMTT(30) DEF Emits, SameButOwed
    <3> QED BY <3>2, <3>3
  <2> QED BY <1>2, <2>1 DEF IndInv, TypeOK, Begins, Stacks
<1>7. Stacked'
  <2> SUFFICES ASSUME NEW u \in Threads, NEW k \in 1 .. Len(calls'[u])
               PROVE  LET call == calls'[u][k]
                      IN  /\ k < Len(calls'[u]) => call.inside
                          /\ call.inside => call.index > 0 /\ call.called # << >>
                          /\ call.index > 0 => call.op = "emit"
    BY DEF Stacked
  <2>1. CASE u = t /\ k = Len(calls[t]) + 1 /\ calls'[u][k] = f
    BY <2>1, <1>1 DEF Begins
  <2>2. CASE k \in 1 .. Len(calls[u]) /\ SameButOwed(calls'[u][k], calls[u][k])
    <3>1. k < Len(calls'[u]) => calls[u][k].inside
      <4>1. CASE u = t /\ k = Len(calls[t])
        BY <4>1, <2>2, <1>1 DEF Last
      <4>2. CASE ~(u = t /\ k = Len(calls[t]))
        BY <4>2, <2>2, <1>1 DEF Begins, IndInv, Stacked
      <4> QED BY <4>1, <4>2
    <3> QED BY <2>2, <3>1 DEF IndInv, Stacked, SameButOwed
  <2> QED BY <1>4, <2>1, <2>2
<1>8. OneEmit'
  <2> SUFFICES ASSUME NEW u \in Threads, NEW k \in 1 .. Len(calls'[u]), NEW l \in 1 .. Len(calls'[u]),
                      calls'[u][k].signal = calls'[u][l].signal,
                      calls'[u][k].index > 0, calls'[u][l].index > 0
               PROVE  k = l
    BY DEF OneEmit
  <2>1. /\ k \in 1 .. Len(calls[u]) /\ SameButOwed(calls'[u][k], calls[u][k])
        /\ l \in 1 .. Len(calls[u]) /\ SameButOwed(calls'[u][l], calls[u][l])
    BY <1>4
  <2> QED BY <2>1 DEF IndInv, OneEmit, SameButOwed
<1>9. \A v \in Threads : \A l \in 1 .. Len(calls[v]) :
         /\ calls[v][l].signal \in Signals
         /\ calls[v][l].op = "connect" =>
               calls[v][l].id \in Ids /\ calls[v][l].id < next_id[calls[v][l].signal]
  BY <1>1 DEF IndInv, Fresh, Frames
<1>10. Fresh'
  <2> SUFFICES ASSUME NEW u \in Threads, NEW k \in 1 .. Len(calls'[u])
               PROVE  LET call == calls'[u][k]
                      IN  /\ call.op = "connect" =>
                               /\ call.id \in Ids /\ call.id < next_id'[call.signal]
                               /\ <<call.signal, call.id>> \notin returned
                          /\ call.op = "disconnect" => <<call.signal, call.id>> \in returned
    BY DEF Fresh
  <2>2. CASE u = t /\ k = Len(calls[t]) + 1 /\ calls'[u][k] = f
    <3>1. f.signal \in Signals
      BY DEF Frames
    <3>2. f.op = "connect" => next_id'[f.signal] = next_id[f.signal] + 1
      BY <3>1 DEF IndInv, TypeOK
    <3>3. f.op = "connect" => <<f.signal, f.id>> \notin returned
      BY <3>1, <1>3 DEF IndInv, ValidIsConnected
    <3> QED BY <2>2, <3>1, <3>2, <3>3, <1>3
  <2>3. CASE k \in 1 .. Len(calls[u]) /\ SameButOwed(calls'[u][k], calls[u][k])
    <3>1. calls[u][k].op = "connect" =>
             calls[u][k].id \in Ids /\ calls[u][k].id < next_id'[calls[u][k].signal]
      BY <1>9, <2>3, <1>3 DEF Ids
    <3>2. /\ calls[u][k].op = "connect" => <<calls[u][k].signal, calls[u][k].id>> \notin returned
          /\ calls[u][k].op = "disconnect" => <<calls[u][k].signal, calls[u][k].id>> \in returned
      BY <2>3 DEF IndInv, Fresh
    <3> QED BY <3>1, <3>2, <2>3 DEF SameButOwed
  <2> QED BY <1>4, <2>2, <2>3
<1>11. OneConnect'
  <2>1. ASSUME NEW u \in Threads, NEW k \in 1 .. Len(calls[u]), SameConnection(calls[u][k], f) PROVE FALSE
    <3>1. calls[u][k].id < next_id[f.signal] /\ calls[u][k].id = next_id[f.signal] /\ f.signal \in Signals
      BY <2>1, <1>9 DEF SameConnection
    <3> QED BY <3>1, <1>3
  <2>2. OneConnect
    BY DEF IndInv
  <2> QED BY <2>1, <2>2, <1>4, BeginKeepsOneConnect
<1>12. ValidIsConnected'
  <2>1. \A s \in Signals : \A id \in Ids : <<s, id>> \in returned => id < next_id'[s]
    BY <1>3 DEF IndInv, ValidIsConnected, Ids
  <2> QED BY <2>1 DEF IndInv, ValidIsConnected
<1>13. NothingAfterDisconnect'
  <2> SUFFICES ASSUME NEW u \in Threads, NEW k \in DOMAIN calls'[u], calls'[u][k].inside
               PROVE  <<calls'[u][k].signal, Last(calls'[u][k].called)>> \notin gone
    BY DEF NothingAfterDisconnect
  <2>1. k \in 1 .. Len(calls[u]) /\ k \in DOMAIN calls[u] /\ SameButOwed(calls'[u][k], calls[u][k])
    BY <1>1, <1>4 DEF Begins, Stacks
  <2> QED BY <2>1 DEF IndInv, NothingAfterDisconnect, SameButOwed
<1> QED BY <1>6, <1>7, <1>8, <1>10, <1>11, <1>12, <1>13 DEF IndInv

LEMMA CallsAreFrames ==
  ASSUME TypeOK
  PROVE  /\ calls \in Stacks
         /\ \A u \in Threads : /\ calls[u] \in Seq(Frames) /\ Len(calls[u]) \in Nat
                               /\ DOMAIN calls[u] = 1 .. Len(calls[u])
                               /\ \A k \in 1 .. Len(calls[u]) : calls[u][k] \in Frames
  BY DEF TypeOK, Stacks

\* The innermost call of t ends.
Ended(t) ==
    /\ calls' \in Stacks
    /\ \A u \in Threads : \A k \in 1 .. Len(calls'[u]) :
          k \in 1 .. Len(calls[u]) /\ calls'[u][k] = calls[u][k] /\ ~(u = t /\ k = Len(calls[t]))
    /\ \A u \in Threads : \A k \in 1 .. Len(calls[u]) :
          ~(u = t /\ k = Len(calls[t])) => k \in 1 .. Len(calls'[u])
    /\ \A u \in Threads : DOMAIN calls'[u] = 1 .. Len(calls'[u]) /\ Len(calls'[u]) <= Len(calls[u])

LEMMA ReturnEnds ==
  ASSUME IndInv, NEW t \in Threads, calls[t] # << >>, Return(t)
  PROVE  Ended(t) /\ Stacked' /\ OneEmit' /\ OneConnect'
<1>1. /\ calls' \in Stacks
      /\ \A u \in Threads : Len(calls'[u]) = IF u = t THEN Len(calls[t]) - 1 ELSE Len(calls[u])
      /\ \A u \in Threads : \A k \in 1 .. Len(calls'[u]) : calls'[u][k] = calls[u][k]
  <2>1. calls \in Stacks /\ calls[t] \in Seq(Frames) /\ Len(calls[t]) > 0
    BY CallsAreFrames DEF IndInv
  <2>2. /\ Front(calls[t]) \in Seq(Frames) /\ Len(Front(calls[t])) = Len(calls[t]) - 1
        /\ \A k \in 1 .. Len(calls[t]) - 1 : Front(calls[t])[k] = calls[t][k]
    BY <2>1 DEF Front
  <2>3. calls' = [calls EXCEPT ![t] = Front(calls[t])]
    BY DEF Return
  <2> QED BY <2>1, <2>2, <2>3 DEF Stacks
<1>2. \A u \in Threads : Len(calls[u]) \in Nat
  BY CallsAreFrames DEF IndInv
<1>3. Ended(t)
  BY <1>1, <1>2 DEF Ended, Stacks
<1>4. Stacked'
  <2> SUFFICES ASSUME NEW u \in Threads, NEW k \in 1 .. Len(calls'[u])
               PROVE  LET call == calls'[u][k]
                      IN  /\ k < Len(calls'[u]) => call.inside
                          /\ call.inside => call.index > 0 /\ call.called # << >>
                          /\ call.index > 0 => call.op = "emit"
    BY DEF Stacked
  <2>1. k \in 1 .. Len(calls[u]) /\ calls'[u][k] = calls[u][k] /\ (k < Len(calls'[u]) => k < Len(calls[u]))
    BY <1>1, <1>2
  <2> QED BY <2>1 DEF IndInv, Stacked
<1>5. OneEmit'
  BY <1>3 DEF Ended, IndInv, OneEmit
<1>6. OneConnect'
  <2> SUFFICES ASSUME NEW u \in Threads, NEW v \in Threads,
                      NEW k \in 1 .. Len(calls'[u]), NEW l \in 1 .. Len(calls'[v]),
                      SameConnection(calls'[u][k], calls'[v][l])
               PROVE  u = v /\ k = l
    BY DEF OneConnect
  <2>1. /\ k \in 1 .. Len(calls[u]) /\ calls'[u][k] = calls[u][k]
        /\ l \in 1 .. Len(calls[v]) /\ calls'[v][l] = calls[v][l]
    BY <1>3 DEF Ended
  <2>2. OneConnect
    BY DEF IndInv
  <2> QED BY <2>1, <2>2 DEF OneConnect
<1> QED BY <1>3, <1>4, <1>5, <1>6

LEMMA EndOfOthers ==
  ASSUME IndInv, NEW t \in Threads, calls[t] # << >>, Ended(t), Last(calls[t]).index = 0
  PROVE  \A u \in Threads, s \in Signals : Emits(u, s)' <=> Emits(u, s)
<1> SUFFICES ASSUME NEW u \in Threads, NEW s \in Signals PROVE Emits(u, s)' <=> Emits(u, s)
  OBVIOUS
<1>1. DOMAIN calls[u] = 1 .. Len(calls[u])
  BY CallsAreFrames DEF IndInv
<1>2. ASSUME Emits(u, s) PROVE Emits(u, s)'
  <2>1. PICK k \in 1 .. Len(calls[u]) : calls[u][k].op = "emit" /\ calls[u][k].signal = s /\ calls[u][k].index > 0
    BY <1>1, <1>2 DEF Emits
  <2>2. ~(u = t /\ k = Len(calls[t]))
    BY <2>1 DEF Last
  <2>3. k \in DOMAIN calls'[u] /\ calls'[u][k] = calls[u][k]
    BY <2>2 DEF Ended
  <2> QED BY <2>1, <2>3 DEF Emits
<1>3. ASSUME Emits(u, s)' PROVE Emits(u, s)
  BY <1>1, <1>3 DEF Emits, Ended
<1> QED BY <1>2, <1>3

\* Nobody is inside a slot of a signal whose mutex is free.
LEMMA FreeMeansQuiet ==
  ASSUME IndInv, NEW s \in Signals, Free(s), NEW u \in Threads, NEW k \in 1 .. Len(calls[u]), calls[u][k].inside
  PROVE  calls[u][k].signal # s
<1>1. calls[u][k].op = "emit" /\ calls[u][k].index > 0 /\ calls[u][k].signal \in Signals /\ k \in DOMAIN calls[u]
  BY CallsAreFrames DEF IndInv, Stacked, Frames
<1>2. Emits(u, calls[u][k].signal)
  BY <1>1 DEF Emits
<1> QED BY <1>1, <1>2, SignalAssumption DEF IndInv, TypeOK, Free

LEMMA ConnectKeeps ==
  ASSUME IndInv, NEW t \in Threads, Connect(t)
  PROVE  IndInv'
<1> DEFINE call == Last(calls[t])
           s == call.signal
           entry == [id |-> call.id, valid |-> TRUE]
<1>1. /\ calls[t] # << >> /\ call \in Frames /\ call = calls[t][Len(calls[t])] /\ Len(calls[t]) \in 1 .. Len(calls[t])
      /\ s \in Signals /\ call.op = "connect" /\ call.index = 0 /\ Free(s)
  BY CallsAreFrames DEF IndInv, Connect, Waits, Last, Frames
<1>2. Ended(t) /\ Stacked' /\ OneEmit' /\ OneConnect'
  BY <1>1, ReturnEnds DEF Connect
<1>3. call.id \in Ids /\ call.id < next_id[s] /\ <<s, call.id>> \notin returned
  BY <1>1 DEF IndInv, Fresh
<1>4. /\ slots' = [slots EXCEPT ![s] = Append(@, entry)]
      /\ returned' = returned \cup {<<s, call.id>>}
      /\ UNCHANGED <<next_id, mutex_, count, gone>>
  BY DEF Connect
<1> HIDE DEF call, s
<1>5. /\ slots' \in [Signals -> Seq(Entries)]
      /\ \A r \in Signals : r # s => slots'[r] = slots[r]
      /\ Len(slots'[s]) = Len(slots[s]) + 1 /\ slots'[s][Len(slots[s]) + 1] = entry
      /\ \A i \in 1 .. Len(slots[s]) : slots'[s][i] = slots[s][i]
      /\ Len(slots[s]) \in Nat
  <2>1. slots[s] \in Seq(Entries) /\ entry \in Entries
    BY <1>1, <1>3 DEF IndInv, TypeOK, Entries
  <2> QED BY <2>1, <1>1, <1>4 DEF IndInv, TypeOK
<1>6. TypeOK'
  <2>1. \A r \in Signals : \A i, j \in DOMAIN slots'[r] : slots'[r][i].id = slots'[r][j].id => i = j
    <3> SUFFICES ASSUME NEW r \in Signals, NEW i \in DOMAIN slots'[r], NEW j \in DOMAIN slots'[r],
                        slots'[r][i].id = slots'[r][j].id
                 PROVE  i = j
      OBVIOUS
    <3>1. CASE r # s
      BY <3>1, <1>5 DEF IndInv, TypeOK
    <3>2. CASE r = s
      <4>1. i \in 1 .. Len(slots[s]) + 1 /\ j \in 1 .. Len(slots[s]) + 1
        BY <3>2, <1>1, <1>5
      <4>2. \A k \in 1 .. Len(slots[s]) : slots'[s][k].id # call.id /\ k \in DOMAIN slots[s]
        BY <1>1, <1>3, <1>5 DEF IndInv, ValidIsConnected, TypeOK
      <4>3. \A k, l \in 1 .. Len(slots[s]) : slots'[s][k].id = slots'[s][l].id => k = l
        BY <1>1, <1>5, <4>2 DEF IndInv, TypeOK
      <4>4. slots'[s][Len(slots[s]) + 1].id = call.id
        BY <1>5
      <4>5. CASE i \in 1 .. Len(slots[s]) /\ j \in 1 .. Len(slots[s])
        BY <3>2, <4>3, <4>5
      <4>6. CASE i = Len(slots[s]) + 1 \/ j = Len(slots[s]) + 1
        BY <3>2, <4>1, <4>2, <4>4, <4>6, <1>5
      <4> QED BY <4>1, <4>5, <4>6, <1>5
    <3> QED BY <3>1, <3>2
  <2>2. \A u \in Threads, r \in Signals : Emits(u, r)' <=> Emits(u, r)
    BY <1>1, <1>2, EndOfOthers DEF call
  <2>3. returned' \subseteq Signals \X Ids
    BY <1>1, <1>3, <1>4 DEF IndInv, TypeOK
  <2> QED BY <2>1, <2>2, <2>3, <1>2, <1>4, <1>5, ZenonT(30) DEF IndInv, TypeOK, Ended, Stacks
<1>7. Fresh'
  <2> SUFFICES ASSUME NEW u \in Threads, NEW k \in 1 .. Len(calls[u]), k \in 1 .. Len(calls'[u]),
                      calls'[u][k] = calls[u][k], ~(u = t /\ k = Len(calls[t]))
               PROVE  LET c == calls[u][k]
                      IN  /\ c.op = "connect" =>
                               /\ c.id \in Ids /\ c.id < next_id[c.signal]
                               /\ <<c.signal, c.id>> \notin returned'
                          /\ c.op = "disconnect" => <<c.signal, c.id>> \in returned'
    BY <1>2, <1>4, SMTT(30) DEF Fresh, Ended
  <2>1. calls[u][k].op = "connect" => ~(calls[u][k].signal = s /\ calls[u][k].id = call.id)
    BY <1>1 DEF IndInv, OneConnect, SameConnection, s
  <2> QED BY <2>1, <1>4 DEF IndInv, Fresh
<1>8. ValidIsConnected'
  <2>1. \A r \in Signals : \A id \in Ids : <<r, id>> \in returned' => id < next_id[r]
    BY <1>3, <1>4 DEF IndInv, ValidIsConnected
  <2>2. \A r \in Signals : \A i \in 1 .. Len(slots'[r]) :
           /\ <<r, slots'[r][i].id>> \in returned'
           /\ slots'[r][i].valid => <<r, slots'[r][i].id>> \notin gone
    <3> TAKE r \in Signals
    <3>1. CASE r # s
      BY <3>1, <1>4, <1>5 DEF IndInv, ValidIsConnected
    <3>2. CASE r = s
      <4> TAKE i \in 1 .. Len(slots'[r])
      <4>1. CASE i \in 1 .. Len(slots[s])
        BY <3>2, <4>1, <1>1, <1>4, <1>5 DEF IndInv, ValidIsConnected
      <4>2. CASE i = Len(slots[s]) + 1
        BY <3>2, <4>2, <1>3, <1>4, <1>5 DEF IndInv, ValidIsConnected
      <4> QED BY <3>2, <4>1, <4>2, <1>5
    <3> QED BY <3>1, <3>2
  <2> QED BY <2>1, <2>2, <1>4 DEF IndInv, ValidIsConnected
<1>9. NothingAfterDisconnect'
  BY <1>2, <1>4, CallsAreFrames, ZenonT(30) DEF IndInv, NothingAfterDisconnect, Ended
<1> QED BY <1>2, <1>6, <1>7, <1>8, <1>9 DEF IndInv

\* A critical section of a signal whose mutex is free ends a call that did not
\* hold it: entries may go, and become invalid.
LEMMA SectionKeeps ==
  ASSUME IndInv, NEW t \in Threads, NEW s \in Signals, calls[t] # << >>, Return(t),
         Last(calls[t]).index = 0, Free(s),
         UNCHANGED <<next_id, mutex_, count, returned>>,
         slots' \in [Signals -> Seq(Entries)],
         \A r \in Signals : r # s => slots'[r] = slots[r],
         gone \subseteq gone', gone' \subseteq returned,
         \A r \in Signals : \A id \in Ids : <<r, id>> \in gone' => r = s \/ <<r, id>> \in gone,
         \A i \in 1 .. Len(slots'[s]) :
            /\ i \in 1 .. Len(slots[s]) /\ slots'[s][i].id = slots[s][i].id
            /\ slots'[s][i].valid => <<s, slots[s][i].id>> \notin gone'
  PROVE  IndInv'
<1>1. Ended(t) /\ Stacked' /\ OneEmit' /\ OneConnect'
  BY ReturnEnds
<1>2. TypeOK'
  <2>1. \A r \in Signals : \A i, j \in DOMAIN slots'[r] : slots'[r][i].id = slots'[r][j].id => i = j
    <3> TAKE r \in Signals
    <3>1. CASE r # s
      BY <3>1 DEF IndInv, TypeOK
    <3>2. CASE r = s
      <4>1. DOMAIN slots'[s] = 1 .. Len(slots'[s]) /\ DOMAIN slots[s] = 1 .. Len(slots[s])
        BY DEF IndInv, TypeOK
      <4>2. \A i, j \in 1 .. Len(slots[s]) : slots[s][i].id = slots[s][j].id => i = j
        BY <4>1, ZenonT(30) DEF IndInv, TypeOK
      <4>3. \A i, j \in 1 .. Len(slots'[s]) : slots'[s][i].id = slots'[s][j].id => i = j
        BY <4>2
      <4> QED BY <3>2, <4>1, <4>3
    <3> QED BY <3>1, <3>2
  <2>2. \A u \in Threads, r \in Signals : Emits(u, r)' <=> Emits(u, r)
    BY <1>1, EndOfOthers
  <2>3. gone' \subseteq Signals \X Ids
    BY DEF IndInv, TypeOK
  <2> QED BY <2>1, <2>2, <2>3, <1>1 DEF IndInv, TypeOK, Ended, Stacks
<1>3. Fresh'
  <2> SUFFICES ASSUME NEW u \in Threads, NEW k \in 1 .. Len(calls'[u])
               PROVE  LET c == calls'[u][k]
                      IN  /\ c.op = "connect" =>
                               /\ c.id \in Ids /\ c.id < next_id[c.signal]
                               /\ <<c.signal, c.id>> \notin returned
                          /\ c.op = "disconnect" => <<c.signal, c.id>> \in returned
    BY DEF Fresh
  <2>1. k \in 1 .. Len(calls[u]) /\ calls'[u][k] = calls[u][k]
    BY <1>1 DEF Ended
  <2> QED BY <2>1 DEF IndInv, Fresh
<1>4. ValidIsConnected'
  <2>1. \A r \in Signals : \A i \in 1 .. Len(slots'[r]) :
           /\ <<r, slots'[r][i].id>> \in returned
           /\ slots'[r][i].valid => <<r, slots'[r][i].id>> \notin gone'
    <3> TAKE r \in Signals
    <3>1. CASE r # s
      <4>1. \A i \in 1 .. Len(slots[r]) : slots[r][i].id \in Ids
        <5>1. slots[r] \in Seq(Entries)
          BY DEF IndInv, TypeOK
        <5>2. \A i \in 1 .. Len(slots[r]) : slots[r][i] \in Entries
          BY <5>1
        <5> QED BY <5>2 DEF Entries
      <4> QED BY <3>1, <4>1 DEF IndInv, ValidIsConnected
    <3>2. CASE r = s
      BY <3>2 DEF IndInv, ValidIsConnected
    <3> QED BY <3>1, <3>2
  <2> QED BY <2>1 DEF IndInv, ValidIsConnected
<1>5. NothingAfterDisconnect'
  <2> SUFFICES ASSUME NEW u \in Threads, NEW k \in DOMAIN calls'[u], calls'[u][k].inside
               PROVE  <<calls'[u][k].signal, Last(calls'[u][k].called)>> \notin gone'
    BY DEF NothingAfterDisconnect
  <2>1. /\ k \in 1 .. Len(calls[u]) /\ k \in DOMAIN calls[u] /\ calls'[u][k] = calls[u][k]
        /\ calls[u][k] \in Frames
    BY <1>1, CallsAreFrames DEF Ended, IndInv
  <2>2. calls[u][k].called \in Seq(Ids) /\ calls[u][k].called # << >> /\ calls[u][k].signal \in Signals
    BY <2>1 DEF IndInv, Stacked, Frames
  <2>3. Last(calls[u][k].called) \in Ids
    BY <2>2 DEF Last
  <2>4. calls[u][k].signal # s
    BY <2>1, FreeMeansQuiet
  <2>5. <<calls[u][k].signal, Last(calls[u][k].called)>> \notin gone
    BY <2>1 DEF IndInv, NothingAfterDisconnect
  <2> QED BY <2>1, <2>2, <2>3, <2>4, <2>5
<1> QED BY <1>1, <1>2, <1>3, <1>4, <1>5 DEF IndInv

LEMMA FunctionIsSequence ==
  ASSUME NEW S, NEW n \in Nat, NEW f \in [1 .. n -> S]
  PROVE  f \in Seq(S) /\ Len(f) = n
<1>1. f \in Seq(S)
  BY SeqDef
<1>2. DOMAIN f = 1 .. Len(f) /\ DOMAIN f = 1 .. n /\ Len(f) \in Nat
  BY <1>1, LenProperties
<1> QED BY <1>1, <1>2

LEMMA DisconnectKeeps ==
  ASSUME IndInv, NEW t \in Threads, Disconnect(t)
  PROVE  IndInv'
<1> DEFINE call == Last(calls[t])
           s == call.signal
<1>1. /\ calls[t] # << >> /\ call \in Frames /\ call = calls[t][Len(calls[t])] /\ Len(calls[t]) \in 1 .. Len(calls[t])
      /\ s \in Signals /\ call.op = "disconnect" /\ call.index = 0 /\ Free(s)
  <2>1. calls[t] # << >> /\ call = calls[t][Len(calls[t])] /\ Len(calls[t]) \in 1 .. Len(calls[t])
    BY CallsAreFrames DEF IndInv, Disconnect, Waits, Last
  <2>2. call \in Frames
    BY <2>1, CallsAreFrames DEF IndInv
  <2> QED BY <2>1, <2>2 DEF Disconnect, Waits, Frames
<1>2. <<s, call.id>> \in returned
  BY <1>1 DEF IndInv, Fresh
<1>3. gone' = gone \cup {<<s, call.id>>} /\ Return(t) /\ UNCHANGED <<next_id, mutex_, count, returned>>
  BY DEF Disconnect
<1> DEFINE new == Invalidated(slots[s], call.id)
<1>4. slots' = [slots EXCEPT ![s] = new]
  BY DEF Disconnect
<1>5. /\ slots[s] \in Seq(Entries) /\ DOMAIN slots[s] = 1 .. Len(slots[s]) /\ Len(slots[s]) \in Nat
      /\ \A i \in 1 .. Len(slots[s]) : slots[s][i] \in Entries
  BY <1>1 DEF IndInv, TypeOK
<1>6. /\ DOMAIN new = 1 .. Len(slots[s])
      /\ \A i \in 1 .. Len(slots[s]) :
            new[i] = [slots[s][i] EXCEPT !.valid = slots[s][i].valid /\ slots[s][i].id # call.id]
  BY <1>5 DEF Invalidated
<1>7. \A i \in 1 .. Len(slots[s]) : /\ new[i] \in Entries /\ new[i].id = slots[s][i].id
                                    /\ new[i].valid => slots[s][i].valid /\ slots[s][i].id # call.id
  BY <1>5, <1>6, ZenonT(30) DEF Entries
<1>8. new \in Seq(Entries) /\ Len(new) = Len(slots[s])
  <2>1. new \in [1 .. Len(slots[s]) -> Entries]
    BY <1>6, <1>7 DEF Invalidated
  <2> HIDE DEF new
  <2> QED BY <1>5, <2>1, FunctionIsSequence
<1> HIDE DEF call, s, new
<1>9. /\ slots' \in [Signals -> Seq(Entries)] /\ slots'[s] = new
      /\ \A r \in Signals : r # s => slots'[r] = slots[r]
  BY <1>1, <1>4, <1>8 DEF IndInv, TypeOK
<1>10. gone \subseteq gone' /\ gone' \subseteq returned
  BY <1>2, <1>3 DEF IndInv, ValidIsConnected
<1>11. \A r \in Signals : \A id \in Ids : <<r, id>> \in gone' => r = s \/ <<r, id>> \in gone
  BY <1>3
<1>12. \A i \in 1 .. Len(slots'[s]) :
          /\ i \in 1 .. Len(slots[s]) /\ slots'[s][i].id = slots[s][i].id
          /\ slots'[s][i].valid => <<s, slots[s][i].id>> \notin gone'
  BY <1>1, <1>3, <1>7, <1>8, <1>9 DEF IndInv, ValidIsConnected
<1>13. Last(calls[t]).index = 0
  BY <1>1 DEF call
<1> QED BY <1>1, <1>3, <1>9, <1>10, <1>11, <1>12, <1>13, SectionKeeps

LEMMA DisconnectAllKeeps ==
  ASSUME IndInv, NEW t \in Threads, DisconnectAll(t)
  PROVE  IndInv'
<1> DEFINE s == Last(calls[t]).signal
<1>1. calls[t] # << >> /\ s \in Signals /\ Last(calls[t]).index = 0 /\ Free(s)
  <2>1. /\ calls[t] # << >> /\ Last(calls[t]) = calls[t][Len(calls[t])] /\ Len(calls[t]) \in 1 .. Len(calls[t])
    BY CallsAreFrames DEF IndInv, DisconnectAll, Waits, Last
  <2>2. Last(calls[t]) \in Frames
    BY <2>1, CallsAreFrames DEF IndInv
  <2> QED BY <2>1, <2>2 DEF DisconnectAll, Waits, Frames
<1>2. /\ gone' = gone \cup ({s} \X IdsOf(s)) /\ Return(t) /\ UNCHANGED <<next_id, mutex_, count, returned>>
      /\ slots' = [slots EXCEPT ![s] = << >>]
  BY DEF DisconnectAll
<1> HIDE DEF s
<1>3. /\ slots' \in [Signals -> Seq(Entries)] /\ slots'[s] = << >>
      /\ \A r \in Signals : r # s => slots'[r] = slots[r]
  BY <1>1, <1>2 DEF IndInv, TypeOK
<1>4. \A id \in IdsOf(s) : <<s, id>> \in returned
  <2>1. DOMAIN slots[s] = 1 .. Len(slots[s])
    BY <1>1 DEF IndInv, TypeOK
  <2> QED BY <1>1, <2>1 DEF IdsOf, IndInv, ValidIsConnected
<1>5. gone \subseteq gone' /\ gone' \subseteq returned
  BY <1>2, <1>4 DEF IndInv, ValidIsConnected
<1>6. \A r \in Signals : \A id \in Ids : <<r, id>> \in gone' => r = s \/ <<r, id>> \in gone
  BY <1>2
<1> QED BY <1>1, <1>2, <1>3, <1>5, <1>6, SectionKeeps

LEMMA EmitReturnsKeeps ==
  ASSUME IndInv, NEW t \in Threads, EmitReturns(t)
  PROVE  IndInv'
<1> DEFINE n == Len(calls[t])
           s == calls[t][n].signal
<1>1. /\ calls[t] # << >> /\ n \in 1 .. n /\ Last(calls[t]) = calls[t][n]
      /\ calls[t][n].index > 0 /\ calls[t][n].op = "emit" /\ s \in Signals
  <2>1. calls[t] # << >> /\ n \in 1 .. n /\ Last(calls[t]) = calls[t][n]
    BY CallsAreFrames DEF IndInv, EmitReturns, Emitting, Last
  <2>2. calls[t][n] \in Frames
    BY <2>1, CallsAreFrames DEF IndInv
  <2> QED BY <2>1, <2>2 DEF EmitReturns, Emitting, Frames
<1>2. mutex_' = [mutex_ EXCEPT ![s] = NoThread] /\ Return(t) /\ UNCHANGED <<slots, next_id, count, returned, gone>>
  BY <1>1 DEF EmitReturns
<1>3. Ended(t) /\ Stacked' /\ OneEmit' /\ OneConnect'
  BY <1>1, <1>2, ReturnEnds
<1>4. \A u \in Threads : DOMAIN calls[u] = 1 .. Len(calls[u])
  BY CallsAreFrames DEF IndInv
<1>5. ASSUME NEW u \in Threads, NEW r \in Signals PROVE mutex_'[r] = u <=> Emits(u, r)'
  <2>1. mutex_[r] = u <=> Emits(u, r)
    BY DEF IndInv, TypeOK
  <2>2. CASE r = s
    <3>1. mutex_'[r] # u
      BY <1>2, <2>2, <1>1, SignalAssumption DEF IndInv, TypeOK
    <3>2. ASSUME NEW k \in DOMAIN calls'[u], calls'[u][k].signal = s, calls'[u][k].index > 0, calls'[u][k].op = "emit"
          PROVE  FALSE
      <4>1. k \in 1 .. Len(calls[u]) /\ calls'[u][k] = calls[u][k] /\ ~(u = t /\ k = n)
        BY <1>3 DEF Ended
      <4>2. Emits(u, s) /\ Emits(t, s)
        BY <4>1, <3>2, <1>1, <1>4 DEF Emits
      <4>3. u = t
        BY <4>2, <1>1 DEF IndInv, TypeOK
      <4>4. k = n
        BY <4>1, <4>3, <3>2, <1>1 DEF IndInv, OneEmit
      <4> QED BY <4>1, <4>3, <4>4
    <3> QED BY <3>1, <3>2, <2>2 DEF Emits
  <2>3. CASE r # s
    <3>1. mutex_'[r] = mutex_[r]
      BY <1>2, <2>3 DEF IndInv, TypeOK
    <3>2. ASSUME Emits(u, r) PROVE Emits(u, r)'
      <4>1. PICK k \in 1 .. Len(calls[u]) : calls[u][k].op = "emit" /\ calls[u][k].signal = r /\ calls[u][k].index > 0
        BY <3>2, <1>4 DEF Emits
      <4>2. k \in DOMAIN calls'[u] /\ calls'[u][k] = calls[u][k]
        BY <4>1, <2>3, <1>3 DEF Ended
      <4> QED BY <4>1, <4>2 DEF Emits
    <3>3. ASSUME Emits(u, r)' PROVE Emits(u, r)
      BY <3>3, <1>3, <1>4 DEF Emits, Ended
    <3> QED BY <2>1, <3>1, <3>2, <3>3
  <2> QED BY <2>2, <2>3
<1>6. mutex_' \in [Signals -> Threads \cup {NoThread}]
  BY <1>2 DEF IndInv, TypeOK
<1>7. TypeOK'
  BY <1>2, <1>3, <1>5, <1>6 DEF IndInv, TypeOK, Ended, Stacks
<1>8. Fresh'
  BY <1>2, <1>3 DEF IndInv, Fresh, Ended
<1>9. ValidIsConnected'
  BY <1>2 DEF IndInv, ValidIsConnected
<1>10. NothingAfterDisconnect'
  BY <1>2, <1>3, <1>4, SMTT(30) DEF IndInv, NothingAfterDisconnect, Ended
<1> QED BY <1>3, <1>7, <1>8, <1>9, <1>10 DEF IndInv

\* A step inside an emit of t changes its innermost call to f, which is an emit
\* of the same signal.
LEMMA EmitStepKeeps ==
  ASSUME IndInv, NEW t \in Threads, NEW f \in Frames, calls[t] # << >>,
         calls' = [calls EXCEPT ![t][Len(calls[t])] = f],
         f.op = "emit", Last(calls[t]).op = "emit", f.signal = Last(calls[t]).signal,
         f.index > 0, f.inside => f.called # << >>,
         f.inside => <<f.signal, Last(f.called)>> \notin gone,
         \/ Last(calls[t]).index > 0 /\ UNCHANGED mutex_
         \/ Free(f.signal) /\ mutex_' = [mutex_ EXCEPT ![f.signal] = t],
         UNCHANGED <<slots, next_id, count, returned, gone>>
  PROVE  IndInv'
<1> DEFINE n == Len(calls[t])
           s == f.signal
<1>1. /\ n \in 1 .. n /\ n \in 1 .. Len(calls[t]) /\ Last(calls[t]) = calls[t][n] /\ s \in Signals
      /\ \A u \in Threads : /\ Len(calls[u]) \in Nat /\ DOMAIN calls[u] = 1 .. Len(calls[u])
                            /\ \A k \in 1 .. Len(calls[u]) : calls[u][k] \in Frames
  BY CallsAreFrames, SMTT(30) DEF IndInv, Last, Frames
<1>2. /\ calls' \in Stacks
      /\ \A u \in Threads : Len(calls'[u]) = Len(calls[u]) /\ DOMAIN calls'[u] = 1 .. Len(calls[u])
      /\ \A u \in Threads : \A k \in 1 .. Len(calls[u]) :
            calls'[u][k] = IF u = t /\ k = n THEN f ELSE calls[u][k]
  <2>1. /\ calls' \in Stacks
        /\ \A u \in Threads : Len(calls'[u]) = Len(calls[u])
        /\ \A u \in Threads : \A k \in 1 .. Len(calls[u]) :
              calls'[u][k] = IF u = t /\ k = n THEN f ELSE calls[u][k]
    <3> DEFINE stack == [calls[t] EXCEPT ![n] = f]
    <3>1. calls \in Stacks /\ calls[t] \in Seq(Frames)
      BY CallsAreFrames DEF IndInv
    <3>2. /\ stack \in Seq(Frames) /\ Len(stack) = n
          /\ \A k \in 1 .. n : stack[k] = IF k = n THEN f ELSE calls[t][k]
      BY <3>1, <1>1
    <3>3. calls' = [calls EXCEPT ![t] = stack]
      OBVIOUS
    <3> HIDE DEF stack
    <3> QED BY <3>1, <3>2, <3>3 DEF Stacks
  <2> QED BY <2>1 DEF Stacks
<1> HIDE DEF n, s
<1>3. Stacked'
  <2> SUFFICES ASSUME NEW u \in Threads, NEW k \in 1 .. Len(calls[u])
               PROVE  LET call == calls'[u][k]
                      IN  /\ k < Len(calls[u]) => call.inside
                          /\ call.inside => call.index > 0 /\ call.called # << >>
                          /\ call.index > 0 => call.op = "emit"
    BY <1>2 DEF Stacked
  <2>1. CASE u = t /\ k = n
    BY <2>1, <1>1, <1>2 DEF n
  <2>2. CASE ~(u = t /\ k = n)
    BY <2>2, <1>2 DEF IndInv, Stacked
  <2> QED BY <2>1, <2>2
<1>4. \A u \in Threads, r \in Signals : Emits(u, r) => mutex_[r] = u
  BY DEF IndInv, TypeOK
<1>5. OneEmit'
  <2> SUFFICES ASSUME NEW u \in Threads, NEW k \in 1 .. Len(calls[u]), NEW l \in 1 .. Len(calls[u]),
                      calls'[u][k].signal = calls'[u][l].signal,
                      calls'[u][k].index > 0, calls'[u][l].index > 0
               PROVE  k = l
    BY <1>2 DEF OneEmit
  <2>1. ASSUME NEW m \in 1 .. Len(calls[t]), m # n, calls[t][m].signal = s, calls[t][m].index > 0 PROVE FALSE
    <3>1. CASE Last(calls[t]).index > 0
      BY <3>1, <2>1, <1>1 DEF IndInv, OneEmit, s, n
    <3>2. CASE Free(s)
      <4>1. Emits(t, s)
        BY <2>1, <1>1 DEF Emits, IndInv, Stacked
      <4> QED BY <4>1, <3>2, <1>1, <1>4, SignalAssumption DEF Free
    <3> QED BY <3>1, <3>2 DEF s
  <2>2. CASE u = t /\ k = n /\ l # n
    BY <2>1, <2>2, <1>1, <1>2 DEF s
  <2>3. CASE u = t /\ l = n /\ k # n
    BY <2>1, <2>3, <1>1, <1>2 DEF s
  <2>4. CASE ~(u = t /\ k = n) /\ ~(u = t /\ l = n)
    BY <2>4, <1>2 DEF IndInv, OneEmit
  <2> QED BY <2>2, <2>3, <2>4
<1>6. OneConnect'
  <2> SUFFICES ASSUME NEW u \in Threads, NEW v \in Threads,
                      NEW k \in 1 .. Len(calls'[u]), NEW l \in 1 .. Len(calls'[v]),
                      SameConnection(calls'[u][k], calls'[v][l])
               PROVE  u = v /\ k = l
    BY DEF OneConnect
  <2>1. /\ k \in 1 .. Len(calls[u]) /\ calls'[u][k] = calls[u][k]
        /\ l \in 1 .. Len(calls[v]) /\ calls'[v][l] = calls[v][l]
    BY <1>2, SMTT(30) DEF SameConnection
  <2>2. OneConnect
    BY DEF IndInv
  <2> QED BY <2>1, <2>2 DEF OneConnect
<1>7. TypeOK'
  <2>1. mutex_' \in [Signals -> Threads \cup {NoThread}]
    BY <1>1, ZenonT(30) DEF IndInv, TypeOK, s
  <2>2. ASSUME NEW u \in Threads, NEW r \in Signals PROVE mutex_'[r] = u <=> Emits(u, r)'
    <3>1. mutex_[r] = u <=> Emits(u, r)
      BY DEF IndInv, TypeOK
    <3>2. CASE u = t /\ r = s
      <4>1. Emits(t, s)'
        <5>1. n \in DOMAIN calls'[t] /\ calls'[t][n] = f
          BY <1>1, <1>2
        <5> QED BY <5>1 DEF Emits, s
      <4>2. Last(calls[t]).index > 0 => mutex_[s] = t
        <5>1. Last(calls[t]).index > 0 => Emits(t, s)
          BY <1>1 DEF Emits, s
        <5> QED BY <5>1, <1>1, <1>4
      <4>3. mutex_'[s] = t
        BY <4>2, <1>1 DEF IndInv, TypeOK, s
      <4> QED BY <3>2, <4>1, <4>3
    <3>3. CASE ~(u = t /\ r = s)
      <4>1. mutex_'[r] = u <=> mutex_[r] = u
        BY <3>3, <1>1, SignalAssumption, SMTT(30) DEF IndInv, TypeOK, Free, s
      <4>2. ASSUME Emits(u, r) PROVE Emits(u, r)'
        <5>1. PICK k \in 1 .. Len(calls[u]) : calls[u][k].op = "emit" /\ calls[u][k].signal = r /\ calls[u][k].index > 0
          BY <4>2, <1>1 DEF Emits
        <5>2. ~(u = t /\ k = n)
          BY <5>1, <3>3, <1>1 DEF s
        <5> QED BY <5>1, <5>2, <1>2 DEF Emits
      <4>3. ASSUME Emits(u, r)' PROVE Emits(u, r)
        <5>1. PICK k \in 1 .. Len(calls[u]) : calls'[u][k].op = "emit" /\ calls'[u][k].signal = r /\ calls'[u][k].index > 0
          BY <4>3, <1>2 DEF Emits
        <5>2. ~(u = t /\ k = n)
          BY <5>1, <3>3, <1>2 DEF s
        <5> QED BY <5>1, <5>2, <1>1, <1>2 DEF Emits
      <4> QED BY <3>1, <4>1, <4>2, <4>3
    <3> QED BY <3>2, <3>3
  <2> QED BY <2>1, <2>2, <1>2 DEF IndInv, TypeOK, Stacks
<1>8. Fresh'
  <2> SUFFICES ASSUME NEW u \in Threads, NEW k \in 1 .. Len(calls[u])
               PROVE  LET c == calls'[u][k]
                      IN  /\ c.op = "connect" =>
                               /\ c.id \in Ids /\ c.id < next_id[c.signal]
                               /\ <<c.signal, c.id>> \notin returned
                          /\ c.op = "disconnect" => <<c.signal, c.id>> \in returned
    BY <1>2 DEF Fresh
  <2>1. calls'[u][k] = f \/ calls'[u][k] = calls[u][k]
    BY <1>2
  <2> QED BY <2>1 DEF IndInv, Fresh
<1>9. ValidIsConnected'
  BY DEF IndInv, ValidIsConnected
<1>10. NothingAfterDisconnect'
  <2> SUFFICES ASSUME NEW u \in Threads, NEW k \in DOMAIN calls'[u], calls'[u][k].inside
               PROVE  <<calls'[u][k].signal, Last(calls'[u][k].called)>> \notin gone'
    BY DEF NothingAfterDisconnect
  <2>1. k \in 1 .. Len(calls[u]) /\ k \in DOMAIN calls[u]
    BY <1>1, <1>2
  <2>2. CASE calls'[u][k] = f
    BY <2>2
  <2>3. CASE calls'[u][k] = calls[u][k]
    BY <2>1, <2>3 DEF IndInv, NothingAfterDisconnect
  <2> QED BY <2>1, <2>2, <2>3, <1>2
<1> QED BY <1>3, <1>5, <1>6, <1>7, <1>8, <1>9, <1>10 DEF IndInv

-----------------------------------------------------------------------------
(* The steps *)

LEMMA EmittingFrame ==
  ASSUME IndInv, NEW t \in Threads, calls[t] # << >>
  PROVE  /\ Len(calls[t]) \in 1 .. Len(calls[t]) /\ Last(calls[t]) = calls[t][Len(calls[t])]
         /\ Last(calls[t]) \in Frames /\ Last(calls[t]).signal \in Signals
         /\ Last(calls[t]).called \in Seq(Ids) /\ Last(calls[t]).index \in Nat
<1>1. Len(calls[t]) \in 1 .. Len(calls[t]) /\ Last(calls[t]) = calls[t][Len(calls[t])]
  BY CallsAreFrames DEF IndInv, Last
<1>2. Last(calls[t]) \in Frames
  BY <1>1, CallsAreFrames DEF IndInv
<1> QED BY <1>1, <1>2 DEF Frames

LEMMA EmitLockKeeps ==
  ASSUME IndInv, NEW t \in Threads, EmitLock(t)
  PROVE  IndInv'
<1> DEFINE call == Last(calls[t])
           f == [call EXCEPT !.index = 1]
<1>1. calls[t] # << >> /\ call.op = "emit" /\ call.index = 0 /\ Free(call.signal)
  BY DEF EmitLock, Waits
<1>2. /\ call = calls[t][Len(calls[t])] /\ call \in Frames /\ Len(calls[t]) \in 1 .. Len(calls[t])
  BY <1>1, EmittingFrame
<1>3. /\ f \in Frames /\ f.op = "emit" /\ f.signal = call.signal /\ f.index = 1 /\ f.inside = call.inside
  BY <1>1, <1>2 DEF Frames
<1>4. ~f.inside
  BY <1>1, <1>2, <1>3 DEF IndInv, Stacked
<1>5. calls' = [calls EXCEPT ![t][Len(calls[t])] = f]
  BY DEF EmitLock, SetTop
<1>6. /\ Free(f.signal) /\ mutex_' = [mutex_ EXCEPT ![f.signal] = t]
      /\ UNCHANGED <<slots, next_id, count, returned, gone>>
  BY <1>1, <1>3 DEF EmitLock, Take
<1>7. f.signal = Last(calls[t]).signal /\ Last(calls[t]).op = "emit" /\ f.index > 0
  BY <1>1, <1>3
<1> HIDE DEF f, call
<1> QED BY <1>1, <1>3, <1>4, <1>5, <1>6, <1>7, EmitStepKeeps

LEMMA SlotBeginsKeeps ==
  ASSUME IndInv, NEW t \in Threads, SlotBegins(t)
  PROVE  IndInv'
<1> DEFINE call == Last(calls[t])
           s == call.signal
<1>1. calls[t] # << >> /\ call.op = "emit" /\ call.index > 0
  BY DEF SlotBegins, Emitting
<1>2. /\ call = calls[t][Len(calls[t])] /\ call \in Frames /\ Len(calls[t]) \in 1 .. Len(calls[t])
      /\ s \in Signals /\ call.called \in Seq(Ids) /\ call.index \in Nat
  BY <1>1, EmittingFrame
<1>3. PICK j \in ToCall(s, call.index) :
         calls' = [calls EXCEPT ![t][Len(calls[t])] =
                      [call EXCEPT !.index = j, !.inside = TRUE, !.called = Append(call.called, slots[s][j].id)]]
  BY DEF SlotBegins, SetTop
<1>4. slots[s] \in Seq(Entries) /\ DOMAIN slots[s] = 1 .. Len(slots[s])
  BY <1>2 DEF IndInv, TypeOK
<1>5. j \in 1 .. Len(slots[s]) /\ j \in Nat /\ j > 0 /\ slots[s][j].valid
  BY <1>2, <1>4 DEF ToCall
<1>6. slots[s][j] \in Entries /\ slots[s][j].id \in Ids
  <2>1. slots[s][j] \in Entries
    BY <1>4, <1>5
  <2> QED BY <2>1 DEF Entries
<1> DEFINE id == slots[s][j].id
           f == [call EXCEPT !.index = j, !.inside = TRUE, !.called = Append(call.called, id)]
<1>7. /\ Append(call.called, id) \in Seq(Ids) /\ Append(call.called, id) # << >>
      /\ Last(Append(call.called, id)) = id
  <2> DEFINE longer == Append(call.called, id)
  <2>1. longer \in Seq(Ids) /\ Len(longer) = Len(call.called) + 1 /\ longer[Len(call.called) + 1] = id
    BY <1>2, <1>6
  <2>2. Len(call.called) \in Nat
    BY <1>2
  <2> QED BY <2>1, <2>2 DEF Last
<1>8. /\ f \in Frames /\ f.op = "emit" /\ f.signal = s /\ f.index = j
      /\ f.called = Append(call.called, id)
  BY <1>1, <1>2, <1>5, <1>7 DEF Frames
<1>9. <<s, id>> \notin gone
  BY <1>2, <1>5 DEF IndInv, ValidIsConnected
<1>10. calls' = [calls EXCEPT ![t][Len(calls[t])] = f]
  BY <1>3
<1>11. UNCHANGED <<slots, next_id, mutex_, count, returned, gone>>
  BY DEF SlotBegins
<1>12. f.called # << >> /\ <<f.signal, Last(f.called)>> \notin gone /\ f.signal = Last(calls[t]).signal /\ f.index > 0
  BY <1>5, <1>7, <1>8, <1>9
<1>13. f \in Frames /\ f.op = "emit" /\ Last(calls[t]).op = "emit" /\ Last(calls[t]).index > 0
  BY <1>1, <1>8
<1> HIDE DEF f, id, s, call
<1> QED BY <1>1, <1>10, <1>11, <1>12, <1>13, EmitStepKeeps

LEMMA SlotEndsKeeps ==
  ASSUME IndInv, NEW t \in Threads, SlotReturns(t) \/ SlotThrows(t)
  PROVE  IndInv'
<1> DEFINE call == Last(calls[t])
           f == [call EXCEPT !.index = call.index + 1, !.inside = FALSE]
<1>1. calls[t] # << >> /\ call.op = "emit" /\ call.index > 0
  BY DEF SlotReturns, SlotThrows, Emitting
<1>2. /\ call = calls[t][Len(calls[t])] /\ call \in Frames /\ Len(calls[t]) \in 1 .. Len(calls[t])
      /\ call.index \in Nat
  BY <1>1, EmittingFrame
<1>3. f \in Frames /\ f.op = "emit" /\ f.signal = call.signal /\ f.index > 0 /\ ~f.inside
  <2>1. f.index = call.index + 1 /\ call.index + 1 \in Nat /\ call.index + 1 > 0
    BY <1>1, <1>2 DEF Frames
  <2>2. f \in Frames /\ f.op = call.op /\ f.signal = call.signal /\ ~f.inside
    BY <1>2, <2>1 DEF Frames
  <2> QED BY <1>1, <2>1, <2>2
<1>4. calls' = [calls EXCEPT ![t][Len(calls[t])] = f]
  BY DEF SlotReturns, SlotThrows, SetTop
<1>5. UNCHANGED <<slots, next_id, mutex_, count, returned, gone>>
  BY DEF SlotReturns, SlotThrows
<1> HIDE DEF f
<1> QED BY <1>1, <1>3, <1>4, <1>5, EmitStepKeeps

-----------------------------------------------------------------------------
(* Calls begin *)

LEMMA CallBegins ==
  ASSUME IndInv, NEW t \in Threads, NEW f \in Frames, calls' = [calls EXCEPT ![t] = Append(@, f)]
  PROVE  Begins(t, f)
<1>1. calls \in Stacks /\ calls[t] \in Seq(Frames)
  BY CallsAreFrames DEF IndInv
<1> DEFINE longer == Append(calls[t], f)
<1>2. /\ longer \in Seq(Frames) /\ Len(longer) = Len(calls[t]) + 1 /\ longer[Len(calls[t]) + 1] = f
      /\ \A k \in 1 .. Len(calls[t]) : longer[k] = calls[t][k]
  BY <1>1
<1>3. calls' = [calls EXCEPT ![t] = longer]
  OBVIOUS
<1> HIDE DEF longer
<1>4. /\ calls' \in Stacks /\ calls'[t] = longer
      /\ \A u \in Threads : u # t => calls'[u] = calls[u]
  BY <1>1, <1>2, <1>3 DEF Stacks
<1>5. \A u \in Threads : \A k \in 1 .. Len(calls[u]) : calls'[u][k] = calls[u][k]
  BY <1>2, <1>4
<1> QED BY <1>2, <1>4, <1>5 DEF Begins, SameButOwed

\* The same when the others are forgiven what they owe.
LEMMA ForgivingCallBegins ==
  ASSUME IndInv, NEW t \in Threads, NEW f \in Frames, NEW s \in Signals, NEW ids \in SUBSET Ids,
         calls' = [Forgive(s, ids) EXCEPT ![t] = Append(@, f)]
  PROVE  Begins(t, f)
<1> DEFINE base == Forgive(s, ids)
<1>1. \A u \in Threads : /\ calls[u] \in Seq(Frames) /\ Len(calls[u]) \in Nat
                          /\ DOMAIN calls[u] = 1 .. Len(calls[u])
                          /\ \A k \in 1 .. Len(calls[u]) : calls[u][k] \in Frames
  BY CallsAreFrames DEF IndInv
<1>2. ASSUME NEW u \in Threads
      PROVE  /\ base[u] \in Seq(Frames) /\ Len(base[u]) = Len(calls[u])
             /\ \A k \in 1 .. Len(calls[u]) : SameButOwed(base[u][k], calls[u][k])
  <2> DEFINE forgiven(k) == IF calls[u][k].signal = s THEN [calls[u][k] EXCEPT !.owed = @ \ ids] ELSE calls[u][k]
  <2>1. base[u] = [k \in 1 .. Len(calls[u]) |-> forgiven(k)]
    BY <1>1 DEF Forgive
  <2>2. \A k \in 1 .. Len(calls[u]) : forgiven(k) \in Frames /\ SameButOwed(forgiven(k), calls[u][k])
    BY <1>1 DEF SameButOwed, Frames
  <2> HIDE DEF forgiven, base
  <2>3. base[u] \in Seq(Frames) /\ Len(base[u]) = Len(calls[u])
    BY <1>1, <2>1, <2>2
  <2>4. \A k \in 1 .. Len(calls[u]) : base[u][k] = forgiven(k)
    BY <2>1
  <2> QED BY <2>2, <2>3, <2>4
<1>3. base = [u \in Threads |-> base[u]]
  BY DEF Forgive
<1> DEFINE longer == Append(base[t], f)
<1>4. calls' = [base EXCEPT ![t] = longer]
  OBVIOUS
<1> HIDE DEF base
<1>5. /\ longer \in Seq(Frames) /\ Len(longer) = Len(calls[t]) + 1 /\ longer[Len(calls[t]) + 1] = f
      /\ \A k \in 1 .. Len(calls[t]) : longer[k] = base[t][k]
  BY <1>1, <1>2
<1> HIDE DEF longer
<1>6. /\ calls' \in Stacks /\ calls'[t] = longer
      /\ \A u \in Threads : u # t => calls'[u] = base[u]
  BY <1>2, <1>3, <1>4, <1>5 DEF Stacks
<1>7. \A u \in Threads : \A k \in 1 .. Len(calls[u]) : SameButOwed(calls'[u][k], calls[u][k])
  BY <1>2, <1>5, <1>6
<1> QED BY <1>2, <1>5, <1>6, <1>7 DEF Begins

LEMMA CountKeeps ==
  ASSUME IndInv, NEW t \in Threads, NEW s \in Signals, MayCall(t, s), count' = [count EXCEPT ![t] = @ + 1]
  PROVE  count' \in [Threads -> 0 .. MaxCalls] /\ (calls[t] # << >> => Last(calls[t]).inside)
BY SignalAssumption DEF IndInv, TypeOK, MayCall

LEMMA ConnectCallKeeps ==
  ASSUME IndInv, NEW t \in Threads, NEW s \in Signals, ConnectCall(t, s)
  PROVE  IndInv'
<1> DEFINE f == Frame("connect", s, next_id[s])
<1>1. next_id[s] \in Ids
  BY SignalAssumption DEF IndInv, TypeOK, ConnectCall, Ids
<1>2. /\ f \in Frames /\ f.op = "connect" /\ f.signal = s /\ f.id = next_id[s]
      /\ f.index = 0 /\ ~f.inside
  BY <1>1 DEF Frame, Frames
<1>3. /\ MayCall(t, s) /\ count' = [count EXCEPT ![t] = @ + 1]
      /\ calls' = [calls EXCEPT ![t] = Append(@, f)]
      /\ next_id' = [next_id EXCEPT ![s] = @ + 1] /\ UNCHANGED <<slots, mutex_, returned, gone>>
  BY <1>2 DEF ConnectCall, Call, FetchAdd
<1> HIDE DEF f
<1>4. Begins(t, f)
  BY <1>2, <1>3, CallBegins
<1>5. count' \in [Threads -> 0 .. MaxCalls] /\ (calls[t] # << >> => Last(calls[t]).inside)
  BY <1>3, CountKeeps
<1>6. next_id' = IF f.op = "connect" THEN [next_id EXCEPT ![f.signal] = @ + 1] ELSE next_id
  BY <1>2, <1>3
<1> QED BY <1>1, <1>2, <1>3, <1>4, <1>5, <1>6, BeginKeeps

LEMMA DisconnectCallKeeps ==
  ASSUME IndInv, NEW t \in Threads, NEW s \in Signals, NEW conn \in Connections, DisconnectCall(t, s, conn)
  PROVE  IndInv'
<1>0. PICK id \in Ids : id = conn.id
  BY DEF Connections
<1> DEFINE f == Frame("disconnect", s, id)
<1>1. /\ f \in Frames /\ f.op = "disconnect" /\ f.signal = s /\ f.id = id
      /\ f.index = 0 /\ ~f.inside
  BY DEF Frame, Frames
<1>2. /\ MayCall(t, s) /\ count' = [count EXCEPT ![t] = @ + 1] /\ <<s, id>> \in returned
      /\ calls' = [Forgive(s, {id}) EXCEPT ![t] = Append(@, f)]
      /\ UNCHANGED <<slots, next_id, mutex_, returned, gone>>
  BY <1>0 DEF DisconnectCall
<1> HIDE DEF f
<1>3. Begins(t, f)
  <2> DEFINE ids == {id}
  <2>1. ids \in SUBSET Ids
    OBVIOUS
  <2>2. calls' = [Forgive(s, ids) EXCEPT ![t] = Append(@, f)]
    BY <1>2
  <2> HIDE DEF ids
  <2> QED BY <1>1, <2>1, <2>2, ForgivingCallBegins
<1>4. count' \in [Threads -> 0 .. MaxCalls] /\ (calls[t] # << >> => Last(calls[t]).inside)
  BY <1>2, CountKeeps
<1> QED BY <1>1, <1>2, <1>3, <1>4, BeginKeeps

\* The call that is ignored changes nothing but the number of calls.
LEMMA DisconnectIgnoredKeeps ==
  ASSUME IndInv, NEW t \in Threads, NEW s \in Signals, NEW conn \in Connections, DisconnectIgnored(t, s, conn)
  PROVE  IndInv'
<1>1. /\ MayCall(t, s) /\ count' = [count EXCEPT ![t] = @ + 1]
      /\ UNCHANGED <<slots, next_id, mutex_, calls, returned, gone>>
  BY DEF DisconnectIgnored
<1>2. count' \in [Threads -> 0 .. MaxCalls]
  BY <1>1, CountKeeps
<1>3. TypeOK'
  BY <1>1, <1>2 DEF IndInv, TypeOK, Emits
<1>4. Stacked' /\ OneEmit' /\ Fresh' /\ OneConnect'
  BY <1>1 DEF IndInv, Stacked, OneEmit, Fresh, OneConnect
<1>5. ValidIsConnected' /\ NothingAfterDisconnect'
  BY <1>1 DEF IndInv, ValidIsConnected, NothingAfterDisconnect
<1> QED BY <1>3, <1>4, <1>5 DEF IndInv

LEMMA DisconnectAllCallKeeps ==
  ASSUME IndInv, NEW t \in Threads, NEW s \in Signals, DisconnectAllCall(t, s)
  PROVE  IndInv'
<1> DEFINE f == Frame("disconnectAll", s, 0)
<1>1. f \in Frames /\ f.op = "disconnectAll" /\ f.index = 0 /\ ~f.inside
  BY DEF Frame, Frames
<1>2. /\ MayCall(t, s) /\ count' = [count EXCEPT ![t] = @ + 1]
      /\ calls' = [Forgive(s, Ids) EXCEPT ![t] = Append(@, f)]
      /\ UNCHANGED <<slots, next_id, mutex_, returned, gone>>
  BY DEF DisconnectAllCall
<1> HIDE DEF f
<1>3. Begins(t, f)
  BY <1>1, <1>2, ForgivingCallBegins
<1>4. count' \in [Threads -> 0 .. MaxCalls] /\ (calls[t] # << >> => Last(calls[t]).inside)
  BY <1>2, CountKeeps
<1> QED BY <1>1, <1>2, <1>3, <1>4, BeginKeeps

LEMMA EmitCallKeeps ==
  ASSUME IndInv, NEW t \in Threads, NEW s \in Signals, EmitCall(t, s)
  PROVE  IndInv'
<1> DEFINE g == Frame("emit", s, 0)
           f == [g EXCEPT !.owed = Settled(s)]
<1>1. Settled(s) \in SUBSET Ids
  BY DEF Settled
<1>2. f \in Frames /\ f.op = "emit" /\ f.index = 0 /\ ~f.inside /\ f.signal = s
  <2>1. << >> \in Seq(Ids)
    OBVIOUS
  <2>2. g \in Frames /\ g.op = "emit" /\ g.index = 0 /\ ~g.inside /\ g.signal = s
    BY <2>1 DEF Frame, Frames
  <2> HIDE DEF g
  <2> QED BY <1>1, <2>2 DEF Frames
<1>3. /\ MayCall(t, s) /\ count' = [count EXCEPT ![t] = @ + 1]
      /\ calls' = [calls EXCEPT ![t] = Append(@, f)]
      /\ UNCHANGED <<slots, next_id, mutex_, returned, gone>>
  BY <1>2 DEF EmitCall, Call
<1> HIDE DEF f
<1>4. Begins(t, f)
  BY <1>2, <1>3, CallBegins
<1>5. count' \in [Threads -> 0 .. MaxCalls] /\ (calls[t] # << >> => Last(calls[t]).inside)
  BY <1>3, CountKeeps
<1> QED BY <1>2, <1>3, <1>4, <1>5, BeginKeeps

-----------------------------------------------------------------------------
(* What an emit owes *)

\* The first entry that an emit has not looked at.
Ahead(call) == IF call.inside THEN call.index + 1 ELSE call.index

\* What an emit owes is valid, and lies ahead unless it has been called; what it has
\* called lies behind, and was called once.
OnItsWay(call, entries) ==
    /\ \A id \in call.owed : \E i \in 1 .. Len(entries) :
          /\ entries[i].id = id /\ entries[i].valid
          /\ i >= Ahead(call) \/ \E n \in 1 .. Len(call.called) : call.called[n] = id
    /\ \A n \in 1 .. Len(call.called) : \E i \in 1 .. Len(entries) :
          entries[i].id = call.called[n] /\ i < Ahead(call)
    /\ \A m, n \in 1 .. Len(call.called) : call.called[m] = call.called[n] => m = n
    /\ call.index = 0 => call.called = << >>

\* An emit does not owe what somebody has begun to disconnect.
Respects(f, g) ==
    f.op = "emit" /\ f.signal = g.signal =>
        /\ g.op = "disconnect" => g.id \notin f.owed
        /\ g.op = "disconnectAll" => f.owed = {}

\* What was connected and not taken back is there to be called.
ConnectedIsValid ==
    \A s \in Signals, id \in Ids :
        <<s, id>> \in returned /\ <<s, id>> \notin gone =>
            \E i \in 1 .. Len(slots[s]) : slots[s][i].id = id /\ slots[s][i].valid

AllOnTheirWay ==
    \A t \in Threads : \A k \in 1 .. Len(calls[t]) :
        calls[t][k].op = "emit" => OnItsWay(calls[t][k], slots[calls[t][k].signal])

AllRespect ==
    \A t, u \in Threads : \A k \in 1 .. Len(calls[t]) : \A l \in 1 .. Len(calls[u]) :
        Respects(calls[t][k], calls[u][l])

EmitInv == ConnectedIsValid /\ AllOnTheirWay /\ AllRespect

LEMMA OwingLess ==
  ASSUME NEW f, NEW g, NEW e, OnItsWay(f, e), SameButOwed(g, f), g.owed \subseteq f.owed
  PROVE  OnItsWay(g, e)
<1>1. Ahead(g) = Ahead(f)
  BY DEF SameButOwed, Ahead
<1>2. g.called = f.called /\ g.index = f.index
  BY DEF SameButOwed
<1>3. \A id \in g.owed : id \in f.owed
  OBVIOUS
<1> QED BY <1>1, <1>2, <1>3 DEF OnItsWay

LEMMA SlotsAdded ==
  ASSUME NEW f, NEW e, NEW d, OnItsWay(f, e), \A i \in 1 .. Len(e) : i \in 1 .. Len(d) /\ d[i] = e[i]
  PROVE  OnItsWay(f, d)
<1>1. ASSUME NEW id \in f.owed
      PROVE  \E i \in 1 .. Len(d) : /\ d[i].id = id /\ d[i].valid
                                    /\ i >= Ahead(f) \/ \E n \in 1 .. Len(f.called) : f.called[n] = id
  <2>1. PICK i \in 1 .. Len(e) : /\ e[i].id = id /\ e[i].valid
                                 /\ i >= Ahead(f) \/ \E n \in 1 .. Len(f.called) : f.called[n] = id
    BY DEF OnItsWay
  <2>2. i \in 1 .. Len(d) /\ d[i] = e[i]
    OBVIOUS
  <2> QED BY <2>1, <2>2
<1>2. ASSUME NEW n \in 1 .. Len(f.called)
      PROVE  \E i \in 1 .. Len(d) : d[i].id = f.called[n] /\ i < Ahead(f)
  <2>1. PICK i \in 1 .. Len(e) : e[i].id = f.called[n] /\ i < Ahead(f)
    BY DEF OnItsWay
  <2>2. i \in 1 .. Len(d) /\ d[i] = e[i]
    OBVIOUS
  <2> QED BY <2>1, <2>2
<1> QED BY <1>1, <1>2 DEF OnItsWay

LEMMA RespectLess ==
  ASSUME NEW f, NEW g, NEW h, NEW i, Respects(f, g), SameButOwed(h, f), h.owed \subseteq f.owed, SameButOwed(i, g)
  PROVE  Respects(h, i)
  BY DEF Respects, SameButOwed

\* The stack of t grows by f, and calls may owe less.
Grown(t, f) ==
    \A u \in Threads : \A k \in 1 .. Len(calls'[u]) :
        \/ /\ k \in 1 .. Len(calls[u]) /\ SameButOwed(calls'[u][k], calls[u][k])
           /\ calls'[u][k].owed \subseteq calls[u][k].owed
        \/ u = t /\ k = Len(calls[t]) + 1 /\ calls'[u][k] = f

\* The calls of s but the new one do not owe these ids.
Forgiven(t, s, ids) ==
    \A u \in Threads : \A k \in 1 .. Len(calls'[u]) :
        ~(u = t /\ k = Len(calls[t]) + 1) /\ calls'[u][k].signal = s => calls'[u][k].owed \cap ids = {}

\* A call begins, and others may be forgiven what they owe.
LEMMA BeginKeepsEmits ==
  ASSUME EmitInv, NEW t \in Threads, NEW f \in Frames,
         Grown(t, f),
         f.op = "emit" => OnItsWay(f, slots[f.signal]),
         \A u \in Threads : \A k \in 1 .. Len(calls'[u]) : Respects(f, calls'[u][k]) /\ Respects(calls'[u][k], f),
         UNCHANGED <<slots, returned, gone>>
  PROVE  EmitInv'
<1> USE DEF Grown
<1>1. ConnectedIsValid'
  BY DEF EmitInv, ConnectedIsValid
<1>2. AllOnTheirWay'
  <2> SUFFICES ASSUME NEW u \in Threads, NEW k \in 1 .. Len(calls'[u]), calls'[u][k].op = "emit"
               PROVE  OnItsWay(calls'[u][k], slots[calls'[u][k].signal])
    BY DEF AllOnTheirWay
  <2>1. CASE u = t /\ k = Len(calls[t]) + 1 /\ calls'[u][k] = f
    BY <2>1
  <2>2. CASE /\ k \in 1 .. Len(calls[u]) /\ SameButOwed(calls'[u][k], calls[u][k])
             /\ calls'[u][k].owed \subseteq calls[u][k].owed
    <3>1. calls[u][k].op = "emit" /\ calls'[u][k].signal = calls[u][k].signal
      BY <2>2 DEF SameButOwed
    <3>2. OnItsWay(calls[u][k], slots[calls[u][k].signal])
      BY <2>2, <3>1 DEF EmitInv, AllOnTheirWay
    <3> QED BY <2>2, <3>1, <3>2, OwingLess
  <2> QED BY <2>1, <2>2
<1>3. AllRespect'
  <2> SUFFICES ASSUME NEW u \in Threads, NEW v \in Threads, NEW k \in 1 .. Len(calls'[u]), NEW l \in 1 .. Len(calls'[v])
               PROVE  Respects(calls'[u][k], calls'[v][l])
    BY DEF AllRespect
  <2>1. CASE calls'[u][k] = f \/ calls'[v][l] = f
    BY <2>1
  <2>2. CASE calls'[u][k] # f /\ calls'[v][l] # f
    <3>1. /\ k \in 1 .. Len(calls[u]) /\ SameButOwed(calls'[u][k], calls[u][k])
          /\ calls'[u][k].owed \subseteq calls[u][k].owed
          /\ l \in 1 .. Len(calls[v]) /\ SameButOwed(calls'[v][l], calls[v][l])
      BY <2>2
    <3>2. Respects(calls[u][k], calls[v][l])
      BY <3>1 DEF EmitInv, AllRespect
    <3> QED BY <3>1, <3>2, RespectLess
  <2> QED BY <2>1, <2>2
<1> QED BY <1>1, <1>2, <1>3 DEF EmitInv

\* A call ends; the slots may have changed.
LEMMA EndKeepsEmits ==
  ASSUME EmitInv, NEW t \in Threads, Ended(t), ConnectedIsValid',
         \A u \in Threads : \A k \in 1 .. Len(calls[u]) :
            calls[u][k].op = "emit" /\ ~(u = t /\ k = Len(calls[t])) =>
               OnItsWay(calls[u][k], slots'[calls[u][k].signal])
  PROVE  EmitInv'
<1>1. \A u \in Threads : \A k \in 1 .. Len(calls'[u]) :
         k \in 1 .. Len(calls[u]) /\ calls'[u][k] = calls[u][k] /\ ~(u = t /\ k = Len(calls[t]))
  BY DEF Ended
<1>2. AllOnTheirWay'
  BY <1>1 DEF AllOnTheirWay
<1>3. AllRespect'
  BY <1>1 DEF AllRespect, EmitInv
<1> QED BY <1>2, <1>3 DEF EmitInv

\* An emit goes on.
LEMMA GoingOnKeepsEmits ==
  ASSUME IndInv, EmitInv, NEW t \in Threads, calls[t] # << >>, NEW f \in Frames,
         calls' = [calls EXCEPT ![t][Len(calls[t])] = f],
         f.op = "emit", f.op = Last(calls[t]).op, f.signal = Last(calls[t]).signal, f.owed = Last(calls[t]).owed,
         OnItsWay(f, slots[f.signal]),
         UNCHANGED <<slots, returned, gone>>
  PROVE  EmitInv'
<1> DEFINE n == Len(calls[t])
           last == calls[t][n]
<1>1. /\ n \in 1 .. Len(calls[t]) /\ Last(calls[t]) = last
      /\ calls \in [Threads -> Seq(Frames)] /\ calls[t] \in Seq(Frames)
  BY EmittingFrame, CallsAreFrames DEF IndInv, Stacks
<1>2. /\ \A u \in Threads : Len(calls'[u]) = Len(calls[u])
      /\ \A u \in Threads : \A k \in 1 .. Len(calls[u]) :
            calls'[u][k] = IF u = t /\ k = n THEN f ELSE calls[u][k]
  BY <1>1
<1>3. f.op = last.op /\ f.signal = last.signal /\ f.owed = last.owed
  BY <1>1
<1> HIDE DEF n, last
<1>4. ConnectedIsValid'
  BY DEF EmitInv, ConnectedIsValid
<1>5. AllOnTheirWay'
  BY <1>2 DEF EmitInv, AllOnTheirWay
<1>6. AllRespect'
  <2> SUFFICES ASSUME NEW u \in Threads, NEW v \in Threads, NEW k \in 1 .. Len(calls'[u]), NEW l \in 1 .. Len(calls'[v])
               PROVE  Respects(calls'[u][k], calls'[v][l])
    BY DEF AllRespect
  <2>1. Respects(calls[u][k], calls[v][l])
    BY <1>2 DEF EmitInv, AllRespect
  <2>2. /\ calls'[u][k].op = calls[u][k].op /\ calls'[u][k].signal = calls[u][k].signal
        /\ calls'[u][k].owed = calls[u][k].owed
    BY <1>2, <1>3 DEF last
  <2>3. calls'[v][l] = calls[v][l] \/ calls'[v][l].op = "emit"
    BY <1>2, <1>3 DEF last
  <2>4. calls'[v][l].signal = calls[v][l].signal
    BY <1>2, <1>3 DEF last
  <2> QED BY <2>1, <2>2, <2>3, <2>4 DEF Respects
<1> QED BY <1>4, <1>5, <1>6 DEF EmitInv

LEMMA CallAppends ==
  ASSUME IndInv, NEW t \in Threads, NEW f \in Frames, calls' = [calls EXCEPT ![t] = Append(@, f)]
  PROVE  Grown(t, f)
<1>1. calls \in Stacks /\ calls[t] \in Seq(Frames)
  BY CallsAreFrames DEF IndInv
<1> DEFINE longer == Append(calls[t], f)
<1>2. /\ Len(longer) = Len(calls[t]) + 1 /\ longer[Len(calls[t]) + 1] = f
      /\ \A k \in 1 .. Len(calls[t]) : longer[k] = calls[t][k]
  BY <1>1
<1>3. calls' = [calls EXCEPT ![t] = longer]
  OBVIOUS
<1> HIDE DEF longer
<1>4. /\ calls'[t] = longer
      /\ \A u \in Threads : u # t => calls'[u] = calls[u]
  BY <1>1, <1>3 DEF Stacks
<1>5. Len(calls[t]) \in Nat
  BY <1>1
<1>6. \A u \in Threads : \A k \in 1 .. Len(calls'[u]) :
         \/ k \in 1 .. Len(calls[u]) /\ calls'[u][k] = calls[u][k]
         \/ u = t /\ k = Len(calls[t]) + 1 /\ calls'[u][k] = f
  BY <1>2, <1>4, <1>5
<1> QED BY <1>6 DEF SameButOwed, Grown

LEMMA ForgivingCallAppends ==
  ASSUME IndInv, NEW t \in Threads, NEW f \in Frames, NEW s \in Signals, NEW ids \in SUBSET Ids,
         calls' = [Forgive(s, ids) EXCEPT ![t] = Append(@, f)]
  PROVE  Grown(t, f) /\ Forgiven(t, s, ids)
<1> DEFINE base == Forgive(s, ids)
<1>1. \A u \in Threads : /\ calls[u] \in Seq(Frames) /\ Len(calls[u]) \in Nat
                          /\ DOMAIN calls[u] = 1 .. Len(calls[u])
                          /\ \A k \in 1 .. Len(calls[u]) : calls[u][k] \in Frames
  BY CallsAreFrames DEF IndInv
<1>2. ASSUME NEW u \in Threads
      PROVE  /\ base[u] \in Seq(Frames) /\ Len(base[u]) = Len(calls[u])
             /\ \A k \in 1 .. Len(calls[u]) :
                   /\ SameButOwed(base[u][k], calls[u][k])
                   /\ base[u][k].owed \subseteq calls[u][k].owed
                   /\ base[u][k].signal = s => base[u][k].owed \cap ids = {}
  <2> DEFINE forgiven(k) == IF calls[u][k].signal = s THEN [calls[u][k] EXCEPT !.owed = @ \ ids] ELSE calls[u][k]
  <2>1. base[u] = [k \in 1 .. Len(calls[u]) |-> forgiven(k)]
    BY <1>1 DEF Forgive
  <2>2. ASSUME NEW k \in 1 .. Len(calls[u])
        PROVE  /\ forgiven(k) \in Frames /\ SameButOwed(forgiven(k), calls[u][k])
               /\ forgiven(k).owed \subseteq calls[u][k].owed
               /\ forgiven(k).signal = s => forgiven(k).owed \cap ids = {}
    <3>1. calls[u][k] \in Frames
      BY <1>1
    <3> QED BY <3>1 DEF SameButOwed, Frames
  <2> HIDE DEF forgiven, base
  <2>3. base[u] \in [1 .. Len(calls[u]) -> Frames]
    BY <2>1, <2>2
  <2>4. base[u] \in Seq(Frames) /\ Len(base[u]) = Len(calls[u])
    BY <1>1, <2>3, FunctionIsSequence
  <2>5. \A k \in 1 .. Len(calls[u]) : base[u][k] = forgiven(k)
    BY <2>1
  <2> QED BY <2>2, <2>4, <2>5
<1>3. base = [u \in Threads |-> base[u]]
  BY DEF Forgive
<1> DEFINE longer == Append(base[t], f)
<1>4. calls' = [base EXCEPT ![t] = longer]
  OBVIOUS
<1> HIDE DEF base
<1>5. /\ Len(longer) = Len(calls[t]) + 1 /\ longer[Len(calls[t]) + 1] = f
      /\ \A k \in 1 .. Len(calls[t]) : longer[k] = base[t][k]
  BY <1>1, <1>2
<1> HIDE DEF longer
<1>6. /\ calls'[t] = longer
      /\ \A u \in Threads : u # t => calls'[u] = base[u]
  BY <1>3, <1>4
<1>7. \A u \in Threads : \A k \in 1 .. Len(calls'[u]) :
         \/ k \in 1 .. Len(calls[u]) /\ calls'[u][k] = base[u][k]
         \/ u = t /\ k = Len(calls[t]) + 1 /\ calls'[u][k] = f
  <2> SUFFICES ASSUME NEW u \in Threads, NEW k \in 1 .. Len(calls'[u])
               PROVE  \/ k \in 1 .. Len(calls[u]) /\ calls'[u][k] = base[u][k]
                      \/ u = t /\ k = Len(calls[t]) + 1 /\ calls'[u][k] = f
    OBVIOUS
  <2>1. CASE u # t
    BY <1>2, <1>6, <2>1
  <2>2. CASE u = t
    <3>1. k \in 1 .. Len(calls[t]) + 1 /\ calls'[u][k] = longer[k] /\ Len(calls[t]) \in Nat
      BY <1>1, <1>5, <1>6, <2>2
    <3>2. k \in 1 .. Len(calls[t]) \/ k = Len(calls[t]) + 1
      BY <3>1
    <3> QED BY <1>5, <2>2, <3>1, <3>2
  <2> QED BY <2>1, <2>2
<1>8. Grown(t, f)
  BY <1>2, <1>7 DEF Grown
<1>9. Forgiven(t, s, ids)
  BY <1>2, <1>7 DEF Forgiven
<1> QED BY <1>8, <1>9

LEMMA ConnectCallEmits ==
  ASSUME IndInv, EmitInv, NEW t \in Threads, NEW s \in Signals, ConnectCall(t, s)
  PROVE  EmitInv'
<1> DEFINE f == Frame("connect", s, next_id[s])
<1>1. next_id[s] \in Ids
  BY SignalAssumption DEF IndInv, TypeOK, ConnectCall, Ids
<1>2. f \in Frames /\ f.op = "connect" /\ f.signal = s
  BY <1>1 DEF Frame, Frames
<1>3. calls' = [calls EXCEPT ![t] = Append(@, f)] /\ UNCHANGED <<slots, returned, gone>>
  BY DEF ConnectCall, Call
<1> HIDE DEF f
<1>4. \A g : Respects(f, g) /\ Respects(g, f)
  BY <1>2 DEF Respects
<1>5. \A u \in Threads : \A k \in 1 .. Len(calls'[u]) : Respects(f, calls'[u][k]) /\ Respects(calls'[u][k], f)
  BY <1>4
<1>6. f.op # "emit"
  BY <1>2
<1> QED BY <1>2, <1>3, <1>5, <1>6, CallAppends, BeginKeepsEmits

LEMMA DisconnectCallEmits ==
  ASSUME IndInv, EmitInv, NEW t \in Threads, NEW s \in Signals, NEW conn \in Connections, DisconnectCall(t, s, conn)
  PROVE  EmitInv'
<1>0. PICK id \in Ids : id = conn.id
  BY DEF Connections
<1> DEFINE f == Frame("disconnect", s, id)
           ids == {id}
<1>1. f \in Frames /\ f.op = "disconnect" /\ f.signal = s /\ f.id = id
  BY DEF Frame, Frames
<1>2. calls' = [Forgive(s, ids) EXCEPT ![t] = Append(@, f)] /\ UNCHANGED <<slots, returned, gone>>
  BY <1>0 DEF DisconnectCall
<1>3. ids \in SUBSET Ids
  OBVIOUS
<1> HIDE DEF f, ids
<1>4. Grown(t, f) /\ Forgiven(t, s, ids)
  BY <1>1, <1>2, <1>3, ForgivingCallAppends
<1>5. \A u \in Threads : \A k \in 1 .. Len(calls'[u]) : Respects(f, calls'[u][k]) /\ Respects(calls'[u][k], f)
  BY <1>1, <1>4 DEF Respects, ids, Grown, Forgiven
<1>6. f.op # "emit"
  BY <1>1
<1> QED BY <1>1, <1>2, <1>4, <1>5, <1>6, BeginKeepsEmits

LEMMA DisconnectAllCallEmits ==
  ASSUME IndInv, EmitInv, NEW t \in Threads, NEW s \in Signals, DisconnectAllCall(t, s)
  PROVE  EmitInv'
<1> DEFINE f == Frame("disconnectAll", s, 0)
<1>1. f \in Frames /\ f.op = "disconnectAll" /\ f.signal = s
  BY DEF Frame, Frames
<1>2. calls' = [Forgive(s, Ids) EXCEPT ![t] = Append(@, f)] /\ UNCHANGED <<slots, returned, gone>>
  BY DEF DisconnectAllCall
<1> HIDE DEF f
<1>3. Grown(t, f) /\ Forgiven(t, s, Ids)
  BY <1>1, <1>2, ForgivingCallAppends
<1>4. \A u \in Threads : \A k \in 1 .. Len(calls[u]) : calls[u][k].owed \subseteq Ids
  BY CallsAreFrames DEF IndInv, Frames
<1>5. \A u \in Threads : \A k \in 1 .. Len(calls'[u]) : Respects(f, calls'[u][k]) /\ Respects(calls'[u][k], f)
  <2> SUFFICES ASSUME NEW u \in Threads, NEW k \in 1 .. Len(calls'[u])
               PROVE  Respects(f, calls'[u][k]) /\ Respects(calls'[u][k], f)
    OBVIOUS
  <2>1. calls'[u][k] = f \/ (calls'[u][k].signal = s => calls'[u][k].owed = {})
    BY <1>3, <1>4 DEF Grown, Forgiven
  <2> QED BY <1>1, <2>1 DEF Respects
<1>6. f.op # "emit"
  BY <1>1
<1> QED BY <1>1, <1>2, <1>3, <1>5, <1>6, BeginKeepsEmits

LEMMA EmitCallEmits ==
  ASSUME IndInv, EmitInv, NEW t \in Threads, NEW s \in Signals, EmitCall(t, s)
  PROVE  EmitInv'
<1> DEFINE g == Frame("emit", s, 0)
           f == [g EXCEPT !.owed = Settled(s)]
<1>1. Settled(s) \in SUBSET Ids
  BY DEF Settled
<1>2. f \in Frames /\ f.op = "emit" /\ f.index = 0 /\ ~f.inside /\ f.signal = s /\ f.owed = Settled(s) /\ f.called = << >>
  <2>1. << >> \in Seq(Ids)
    OBVIOUS
  <2>2. /\ g \in Frames /\ g.op = "emit" /\ g.index = 0 /\ ~g.inside /\ g.signal = s /\ g.called = << >>
    BY <2>1 DEF Frame, Frames
  <2> HIDE DEF g
  <2> QED BY <1>1, <2>2 DEF Frames
<1>3. calls' = [calls EXCEPT ![t] = Append(@, f)] /\ UNCHANGED <<slots, returned, gone>>
  BY DEF EmitCall, Call
<1> HIDE DEF f
<1>4. Grown(t, f)
  BY <1>2, <1>3, CallAppends
<1>5. \A u \in Threads : DOMAIN calls[u] = 1 .. Len(calls[u])
  BY CallsAreFrames DEF IndInv
<1>6. ASSUME NEW u \in Threads, NEW k \in 1 .. Len(calls[u]), calls[u][k].signal = s
      PROVE  /\ calls[u][k].op = "disconnectAll" => Settled(s) = {}
             /\ calls[u][k].op = "disconnect" => calls[u][k].id \notin Settled(s)
  BY <1>5, <1>6 DEF Settled
<1>7. \A u \in Threads : \A k \in 1 .. Len(calls'[u]) : Respects(f, calls'[u][k]) /\ Respects(calls'[u][k], f)
  BY <1>2, <1>4, <1>6 DEF Respects, SameButOwed, Grown
<1>8. OnItsWay(f, slots[f.signal])
  <2>1. ASSUME NEW id \in f.owed
        PROVE  \E i \in 1 .. Len(slots[s]) : slots[s][i].id = id /\ slots[s][i].valid
    <3>1. id \in Ids /\ <<s, id>> \in returned /\ <<s, id>> \notin gone
      BY <1>2 DEF Settled
    <3> QED BY <3>1 DEF EmitInv, ConnectedIsValid
  <2>2. Ahead(f) = 0 /\ Len(f.called) = 0
    BY <1>2 DEF Ahead
  <2> QED BY <1>2, <2>1, <2>2 DEF OnItsWay
<1> QED BY <1>2, <1>3, <1>4, <1>7, <1>8, BeginKeepsEmits

\* The emits of a signal whose mutex is free have not begun to call.
LEMMA FreeMeansWaiting ==
  ASSUME IndInv, NEW s \in Signals, Free(s), NEW u \in Threads, NEW k \in 1 .. Len(calls[u]),
         calls[u][k].op = "emit", calls[u][k].signal = s
  PROVE  calls[u][k].index = 0 /\ ~calls[u][k].inside
<1>1. k \in DOMAIN calls[u] /\ calls[u][k] \in Frames
  BY CallsAreFrames DEF IndInv
<1>2. calls[u][k].index \in Nat
  BY <1>1 DEF Frames
<1>3. ~(calls[u][k].index > 0)
  <2> SUFFICES ASSUME calls[u][k].index > 0 PROVE FALSE
    OBVIOUS
  <2>1. Emits(u, s)
    BY <1>1 DEF Emits
  <2> QED BY <2>1, SignalAssumption DEF IndInv, TypeOK, Free
<1> QED BY <1>2, <1>3 DEF IndInv, Stacked

LEMMA ConnectEmits ==
  ASSUME IndInv, EmitInv, NEW t \in Threads, Connect(t)
  PROVE  EmitInv'
<1> DEFINE call == Last(calls[t])
           s == call.signal
           entry == [id |-> call.id, valid |-> TRUE]
<1>1. /\ calls[t] # << >> /\ call \in Frames /\ call = calls[t][Len(calls[t])] /\ s \in Signals
  BY EmittingFrame DEF Connect, Waits
<1>2. Ended(t)
  BY <1>1, ReturnEnds DEF Connect
<1>3. /\ slots' = [slots EXCEPT ![s] = Append(slots[s], entry)]
      /\ returned' = returned \cup {<<s, call.id>>} /\ gone' = gone
  BY DEF Connect
<1>4. slots \in [Signals -> Seq(Entries)] /\ slots[s] \in Seq(Entries) /\ Len(slots[s]) \in Nat
  BY <1>1 DEF IndInv, TypeOK
<1> DEFINE new == Append(slots[s], entry)
<1>5. /\ Len(new) = Len(slots[s]) + 1 /\ new[Len(slots[s]) + 1] = entry
      /\ \A i \in 1 .. Len(slots[s]) : i \in 1 .. Len(new) /\ new[i] = slots[s][i]
  BY <1>4
<1>6. entry.id = call.id /\ entry.valid
  OBVIOUS
<1>7. slots' = [slots EXCEPT ![s] = new]
  BY <1>3
<1> HIDE DEF call, s, entry, new
<1>8. \A r \in Signals : slots'[r] = IF r = s THEN new ELSE slots[r]
  BY <1>1, <1>4, <1>7
<1>9. \A r \in Signals : \A i \in 1 .. Len(slots[r]) : i \in 1 .. Len(slots'[r]) /\ slots'[r][i] = slots[r][i]
  BY <1>5, <1>8
<1>10. ConnectedIsValid'
  <2> SUFFICES ASSUME NEW r \in Signals, NEW id \in Ids, <<r, id>> \in returned', <<r, id>> \notin gone
               PROVE  \E i \in 1 .. Len(slots'[r]) : slots'[r][i].id = id /\ slots'[r][i].valid
    BY <1>3 DEF ConnectedIsValid
  <2>1. CASE <<r, id>> \in returned
    <3>1. PICK i \in 1 .. Len(slots[r]) : slots[r][i].id = id /\ slots[r][i].valid
      BY <2>1 DEF EmitInv, ConnectedIsValid
    <3> QED BY <3>1, <1>9
  <2>2. CASE r = s /\ id = call.id
    <3>1. /\ slots'[r] = new /\ Len(slots[s]) + 1 \in 1 .. Len(new)
      BY <2>2, <1>1, <1>4, <1>5, <1>8
    <3> QED BY <3>1, <2>2, <1>5, <1>6
  <2> QED BY <2>1, <2>2, <1>3
<1>11. ASSUME NEW u \in Threads, NEW k \in 1 .. Len(calls[u]), calls[u][k].op = "emit"
       PROVE  OnItsWay(calls[u][k], slots'[calls[u][k].signal])
  <2>1. OnItsWay(calls[u][k], slots[calls[u][k].signal])
    BY <1>11 DEF EmitInv, AllOnTheirWay
  <2>2. calls[u][k].signal \in Signals
    BY CallsAreFrames DEF IndInv, Frames
  <2> DEFINE f == calls[u][k]
             r == calls[u][k].signal
  <2>3. \A i \in 1 .. Len(slots[r]) : i \in 1 .. Len(slots'[r]) /\ slots'[r][i] = slots[r][i]
    BY <1>9, <2>2
  <2>4. OnItsWay(f, slots[r])
    BY <2>1
  <2> HIDE DEF f, r
  <2>5. OnItsWay(f, slots'[r])
    BY <2>3, <2>4, SlotsAdded
  <2> QED BY <2>5 DEF f, r
<1> QED BY <1>2, <1>10, <1>11, EndKeepsEmits

LEMMA DisconnectEmits ==
  ASSUME IndInv, EmitInv, NEW t \in Threads, Disconnect(t)
  PROVE  EmitInv'
<1> DEFINE call == Last(calls[t])
           s == call.signal
           new == Invalidated(slots[s], call.id)
<1>1. /\ calls[t] # << >> /\ call \in Frames /\ call = calls[t][Len(calls[t])] /\ s \in Signals
      /\ Len(calls[t]) \in 1 .. Len(calls[t]) /\ Free(s) /\ call.op = "disconnect"
  BY EmittingFrame DEF Disconnect, Waits
<1>2. Ended(t)
  BY <1>1, ReturnEnds DEF Disconnect
<1>3. /\ slots' = [slots EXCEPT ![s] = new]
      /\ gone' = gone \cup {<<s, call.id>>} /\ returned' = returned
  BY DEF Disconnect
<1>4. /\ slots \in [Signals -> Seq(Entries)] /\ slots[s] \in Seq(Entries) /\ Len(slots[s]) \in Nat
      /\ DOMAIN slots[s] = 1 .. Len(slots[s]) /\ \A i \in 1 .. Len(slots[s]) : slots[s][i] \in Entries
  BY <1>1 DEF IndInv, TypeOK
<1>5. /\ \A i \in 1 .. Len(slots[s]) : new[i].id = slots[s][i].id
      /\ \A i \in 1 .. Len(slots[s]) : slots[s][i].valid /\ slots[s][i].id # call.id => new[i].valid
  BY <1>4 DEF Invalidated, Entries
<1>6. Len(new) = Len(slots[s])
  <2>1. new = [i \in 1 .. Len(slots[s]) |-> new[i]]
    BY <1>4 DEF Invalidated
  <2>2. new \in [1 .. Len(slots[s]) -> {new[i] : i \in 1 .. Len(slots[s])}]
    BY <2>1
  <2> HIDE DEF new
  <2> QED BY <1>4, <2>2, FunctionIsSequence
<1> HIDE DEF call, s, new
<1>7. \A r \in Signals : slots'[r] = IF r = s THEN new ELSE slots[r]
  BY <1>1, <1>3, <1>4
<1>8. ConnectedIsValid'
  <2> SUFFICES ASSUME NEW r \in Signals, NEW id \in Ids, <<r, id>> \in returned, <<r, id>> \notin gone'
               PROVE  \E i \in 1 .. Len(slots'[r]) : slots'[r][i].id = id /\ slots'[r][i].valid
    BY <1>3 DEF ConnectedIsValid
  <2>1. PICK i \in 1 .. Len(slots[r]) : slots[r][i].id = id /\ slots[r][i].valid
    BY <1>3 DEF EmitInv, ConnectedIsValid
  <2>2. CASE r # s
    BY <1>7, <2>1, <2>2
  <2>3. CASE r = s
    <3>1. id # call.id
      BY <1>3, <2>3
    <3> QED BY <1>5, <1>6, <1>7, <2>1, <2>3, <3>1
  <2> QED BY <2>2, <2>3
<1>9. ASSUME NEW u \in Threads, NEW k \in 1 .. Len(calls[u]), calls[u][k].op = "emit"
      PROVE  OnItsWay(calls[u][k], slots'[calls[u][k].signal])
  <2>1. OnItsWay(calls[u][k], slots[calls[u][k].signal])
    BY <1>9 DEF EmitInv, AllOnTheirWay
  <2>2. calls[u][k].signal \in Signals
    BY CallsAreFrames DEF IndInv, Frames
  <2>3. CASE calls[u][k].signal # s
    BY <1>7, <2>1, <2>2, <2>3
  <2>4. CASE calls[u][k].signal = s
    <3>1. calls[u][k].index = 0 /\ ~calls[u][k].inside
      BY <1>1, <1>9, <2>4, FreeMeansWaiting
    <3>2. Respects(calls[u][k], call)
      BY <1>1 DEF EmitInv, AllRespect
    <3>3. call.id \notin calls[u][k].owed
      BY <1>1, <1>9, <2>4, <3>2 DEF Respects, s
    <3> DEFINE f == calls[u][k]
    <3>4. OnItsWay(f, slots[s]) /\ f.index = 0 /\ f.called = << >> /\ call.id \notin f.owed
      BY <2>1, <2>4, <3>1, <3>3 DEF OnItsWay
    <3> HIDE DEF f
    <3>5. OnItsWay(f, new)
      BY <1>5, <1>6, <3>4 DEF OnItsWay
    <3> QED BY <1>7, <2>2, <2>4, <3>5 DEF f
  <2> QED BY <2>3, <2>4
<1> QED BY <1>2, <1>8, <1>9, EndKeepsEmits

LEMMA DisconnectAllEmits ==
  ASSUME IndInv, EmitInv, NEW t \in Threads, DisconnectAll(t)
  PROVE  EmitInv'
<1> DEFINE call == Last(calls[t])
           s == call.signal
<1>1. /\ calls[t] # << >> /\ call \in Frames /\ call = calls[t][Len(calls[t])] /\ s \in Signals
      /\ Len(calls[t]) \in 1 .. Len(calls[t]) /\ Free(s) /\ call.op = "disconnectAll"
  BY EmittingFrame DEF DisconnectAll, Waits
<1>2. Ended(t)
  BY <1>1, ReturnEnds DEF DisconnectAll
<1>3. /\ slots' = [slots EXCEPT ![s] = << >>]
      /\ gone' = gone \cup ({s} \X IdsOf(s)) /\ returned' = returned
  BY DEF DisconnectAll
<1>4. /\ slots \in [Signals -> Seq(Entries)] /\ DOMAIN slots[s] = 1 .. Len(slots[s])
  BY <1>1 DEF IndInv, TypeOK
<1> HIDE DEF call, s
<1>5. \A r \in Signals : slots'[r] = IF r = s THEN << >> ELSE slots[r]
  BY <1>1, <1>3, <1>4
<1>6. ConnectedIsValid'
  <2> SUFFICES ASSUME NEW r \in Signals, NEW id \in Ids, <<r, id>> \in returned, <<r, id>> \notin gone'
               PROVE  \E i \in 1 .. Len(slots'[r]) : slots'[r][i].id = id /\ slots'[r][i].valid
    BY <1>3 DEF ConnectedIsValid
  <2>1. PICK i \in 1 .. Len(slots[r]) : slots[r][i].id = id /\ slots[r][i].valid
    BY <1>3 DEF EmitInv, ConnectedIsValid
  <2>2. r # s
    BY <1>3, <1>4, <2>1 DEF IdsOf
  <2> QED BY <1>5, <2>1, <2>2
<1>7. ASSUME NEW u \in Threads, NEW k \in 1 .. Len(calls[u]), calls[u][k].op = "emit"
      PROVE  OnItsWay(calls[u][k], slots'[calls[u][k].signal])
  <2>1. OnItsWay(calls[u][k], slots[calls[u][k].signal])
    BY <1>7 DEF EmitInv, AllOnTheirWay
  <2>2. calls[u][k].signal \in Signals
    BY CallsAreFrames DEF IndInv, Frames
  <2>3. CASE calls[u][k].signal # s
    BY <1>5, <2>1, <2>2, <2>3
  <2>4. CASE calls[u][k].signal = s
    <3>1. calls[u][k].index = 0
      BY <1>1, <1>7, <2>4, FreeMeansWaiting
    <3>2. Respects(calls[u][k], call)
      BY <1>1 DEF EmitInv, AllRespect
    <3>3. calls[u][k].owed = {}
      BY <1>1, <1>7, <2>4, <3>2 DEF Respects, s
    <3>4. calls[u][k].called = << >>
      BY <2>1, <3>1 DEF OnItsWay
    <3>5. slots'[calls[u][k].signal] = << >> /\ Len(calls[u][k].called) = 0
      BY <1>5, <2>2, <2>4, <3>4
    <3> QED BY <3>3, <3>4, <3>5 DEF OnItsWay
  <2> QED BY <2>3, <2>4
<1> QED BY <1>2, <1>6, <1>7, EndKeepsEmits

LEMMA EmitLockEmits ==
  ASSUME IndInv, EmitInv, NEW t \in Threads, EmitLock(t)
  PROVE  EmitInv'
<1> DEFINE call == Last(calls[t])
           f == [call EXCEPT !.index = 1]
<1>1. /\ calls[t] # << >> /\ call \in Frames /\ call = calls[t][Len(calls[t])] /\ call.signal \in Signals
      /\ Len(calls[t]) \in 1 .. Len(calls[t]) /\ call.op = "emit" /\ call.index = 0
  BY EmittingFrame DEF EmitLock, Waits
<1>2. /\ f \in Frames /\ f.op = "emit" /\ f.signal = call.signal /\ f.index = 1 /\ f.inside = call.inside
      /\ f.owed = call.owed /\ f.called = call.called
  BY <1>1 DEF Frames
<1>3. calls' = [calls EXCEPT ![t][Len(calls[t])] = f] /\ UNCHANGED <<slots, returned, gone>>
  BY DEF EmitLock, SetTop
<1>4. OnItsWay(call, slots[call.signal]) /\ ~call.inside
  BY <1>1 DEF EmitInv, AllOnTheirWay, IndInv, Stacked
<1> HIDE DEF f, call
<1>5. Ahead(f) = 1 /\ f.called = << >> /\ Len(f.called) = 0
  BY <1>1, <1>2, <1>4 DEF Ahead, OnItsWay
<1>6. ASSUME NEW id \in f.owed
      PROVE  \E i \in 1 .. Len(slots[f.signal]) :
                slots[f.signal][i].id = id /\ slots[f.signal][i].valid /\ i >= Ahead(f)
  <2>1. PICK i \in 1 .. Len(slots[f.signal]) : slots[f.signal][i].id = id /\ slots[f.signal][i].valid
    BY <1>2, <1>4 DEF OnItsWay
  <2> QED BY <1>5, <2>1
<1>7. OnItsWay(f, slots[f.signal])
  BY <1>2, <1>5, <1>6 DEF OnItsWay
<1>8. f.op = Last(calls[t]).op /\ f.signal = Last(calls[t]).signal /\ f.owed = Last(calls[t]).owed
  BY <1>1, <1>2 DEF call
<1> QED BY <1>1, <1>2, <1>3, <1>7, <1>8, GoingOnKeepsEmits

LEMMA SlotBeginsEmits ==
  ASSUME IndInv, EmitInv, NEW t \in Threads, SlotBegins(t)
  PROVE  EmitInv'
<1> DEFINE call == Last(calls[t])
           entries == slots[call.signal]
<1>1. /\ calls[t] # << >> /\ call \in Frames /\ call = calls[t][Len(calls[t])] /\ call.signal \in Signals
      /\ Len(calls[t]) \in 1 .. Len(calls[t]) /\ call.op = "emit" /\ ~call.inside
      /\ call.called \in Seq(Ids) /\ call.index \in Nat
  BY EmittingFrame DEF SlotBegins, Emitting
<1>2. PICK j \in ToCall(call.signal, call.index) :
         /\ \A k \in ToCall(call.signal, call.index) : j <= k
         /\ calls' = [calls EXCEPT ![t][Len(calls[t])] =
                         [call EXCEPT !.index = j, !.inside = TRUE, !.called = Append(call.called, entries[j].id)]]
  BY DEF SlotBegins, SetTop
<1>3. /\ entries \in Seq(Entries) /\ DOMAIN entries = 1 .. Len(entries)
      /\ \A i, k \in 1 .. Len(entries) : entries[i].id = entries[k].id => i = k
  <2>1. entries \in Seq(Entries) /\ DOMAIN entries = 1 .. Len(entries)
    BY <1>1 DEF IndInv, TypeOK
  <2>2. \A i, k \in DOMAIN entries : entries[i].id = entries[k].id => i = k
    BY <1>1, ZenonT(30) DEF IndInv, TypeOK
  <2> QED BY <2>1, <2>2
<1>4. /\ j \in 1 .. Len(entries) /\ j >= call.index /\ entries[j].valid
      /\ \A k \in 1 .. Len(entries) : k >= call.index /\ entries[k].valid => j <= k
  BY <1>2, <1>3 DEF ToCall
<1> DEFINE id == entries[j].id
           longer == Append(call.called, id)
           f == [call EXCEPT !.index = j, !.inside = TRUE, !.called = longer]
<1>5. id \in Ids
  <2>1. entries[j] \in Entries
    BY <1>3, <1>4
  <2> QED BY <2>1 DEF Entries
<1>6. /\ longer \in Seq(Ids) /\ Len(longer) = Len(call.called) + 1 /\ longer[Len(call.called) + 1] = id
      /\ \A n \in 1 .. Len(call.called) : longer[n] = call.called[n]
      /\ Len(call.called) \in Nat
  BY <1>1, <1>5
<1>7. /\ f \in Frames /\ f.op = "emit" /\ f.op = Last(calls[t]).op /\ f.signal = Last(calls[t]).signal
      /\ f.owed = Last(calls[t]).owed /\ f.index = j /\ f.inside /\ f.called = longer
  <2>1. j \in Nat
    BY <1>4
  <2> HIDE DEF longer
  <2> QED BY <1>1, <1>6, <2>1 DEF Frames
<1>8. calls' = [calls EXCEPT ![t][Len(calls[t])] = f] /\ UNCHANGED <<slots, returned, gone>>
  BY <1>2 DEF SlotBegins
<1>9. OnItsWay(call, entries)
  BY <1>1 DEF EmitInv, AllOnTheirWay
<1>10. f.owed = call.owed /\ slots[f.signal] = entries
  BY <1>7
<1>11. Ahead(f) = j + 1 /\ Ahead(call) = call.index
  BY <1>1, <1>7 DEF Ahead
<1> HIDE DEF f, longer, id, entries, call
<1>12. OnItsWay(f, entries)
  <2>1. ASSUME NEW i \in f.owed
        PROVE  \E m \in 1 .. Len(entries) :
                  /\ entries[m].id = i /\ entries[m].valid
                  /\ m >= Ahead(f) \/ \E n \in 1 .. Len(f.called) : f.called[n] = i
    <3>1. PICK m \in 1 .. Len(entries) : /\ entries[m].id = i /\ entries[m].valid
                                         /\ \/ m >= Ahead(call)
                                            \/ \E n \in 1 .. Len(call.called) : call.called[n] = i
      BY <1>9, <1>10 DEF OnItsWay
    <3>2. CASE m >= call.index
      <4>1. m = j \/ m >= j + 1
        BY <1>4, <3>1, <3>2
      <4>2. m = j => longer[Len(call.called) + 1] = i
        BY <1>6, <3>1 DEF id
      <4>3. Len(call.called) + 1 \in 1 .. Len(longer)
        BY <1>6
      <4> QED BY <1>7, <1>11, <3>1, <4>1, <4>2, <4>3
    <3>3. CASE \E n \in 1 .. Len(call.called) : call.called[n] = i
      <4>1. PICK n \in 1 .. Len(call.called) : call.called[n] = i
        BY <3>3
      <4>2. n \in 1 .. Len(longer) /\ longer[n] = i
        BY <1>6, <4>1
      <4> QED BY <1>7, <3>1, <4>2
    <3> QED BY <1>11, <3>1, <3>2, <3>3
  <2>2. \A n \in 1 .. Len(longer) : n \in 1 .. Len(call.called) \/ n = Len(call.called) + 1
    BY <1>6
  <2>3. ASSUME NEW n \in 1 .. Len(call.called)
        PROVE  \E m \in 1 .. Len(entries) : entries[m].id = call.called[n] /\ m < call.index
    BY <1>9, <1>11 DEF OnItsWay
  <2>4. ASSUME NEW n \in 1 .. Len(f.called)
        PROVE  \E m \in 1 .. Len(entries) : entries[m].id = f.called[n] /\ m < Ahead(f)
    <3>1. CASE n \in 1 .. Len(call.called)
      <4>1. PICK m \in 1 .. Len(entries) : entries[m].id = call.called[n] /\ m < call.index
        BY <2>3, <3>1
      <4>2. m < j + 1 /\ f.called[n] = call.called[n]
        BY <1>1, <1>4, <1>6, <1>7, <3>1, <4>1
      <4> QED BY <1>11, <4>1, <4>2
    <3>2. CASE n = Len(call.called) + 1
      <4>1. f.called[n] = entries[j].id /\ j < j + 1
        BY <1>4, <1>6, <1>7, <3>2 DEF id
      <4> QED BY <1>4, <1>11, <4>1
    <3> QED BY <1>7, <2>2, <3>1, <3>2
  <2>5. \A n \in 1 .. Len(call.called) : call.called[n] # id
    <3> SUFFICES ASSUME NEW n \in 1 .. Len(call.called), call.called[n] = id PROVE FALSE
      OBVIOUS
    <3>1. PICK m \in 1 .. Len(entries) : entries[m].id = id /\ m < call.index
      BY <2>3
    <3>2. m = j
      BY <1>3, <1>4, <3>1 DEF id
    <3> QED BY <1>1, <1>4, <3>1, <3>2
  <2>6. \A m, n \in 1 .. Len(call.called) : call.called[m] = call.called[n] => m = n
    BY <1>9 DEF OnItsWay
  <2>7. \A m, n \in 1 .. Len(longer) : longer[m] = longer[n] => m = n
    BY <1>6, <2>2, <2>5, <2>6
  <2>8. f.index # 0
    BY <1>4, <1>7
  <2> QED BY <1>7, <2>1, <2>4, <2>7, <2>8 DEF OnItsWay
<1> QED BY <1>1, <1>7, <1>8, <1>10, <1>12, GoingOnKeepsEmits

LEMMA SlotEndsEmits ==
  ASSUME IndInv, EmitInv, NEW t \in Threads, SlotReturns(t) \/ SlotThrows(t)
  PROVE  EmitInv'
<1> DEFINE call == Last(calls[t])
           f == [call EXCEPT !.index = call.index + 1, !.inside = FALSE]
<1>1. /\ calls[t] # << >> /\ call \in Frames /\ call = calls[t][Len(calls[t])] /\ call.signal \in Signals
      /\ Len(calls[t]) \in 1 .. Len(calls[t]) /\ call.op = "emit" /\ call.inside /\ call.index \in Nat
  BY EmittingFrame DEF SlotReturns, SlotThrows, Emitting
<1>2. /\ f \in Frames /\ f.op = "emit" /\ f.signal = call.signal /\ f.index = call.index + 1 /\ ~f.inside
      /\ f.owed = call.owed /\ f.called = call.called
  <2>1. call.index + 1 \in Nat
    BY <1>1
  <2> QED BY <1>1, <2>1 DEF Frames
<1>3. calls' = [calls EXCEPT ![t][Len(calls[t])] = f] /\ UNCHANGED <<slots, returned, gone>>
  BY DEF SlotReturns, SlotThrows, SetTop
<1>4. OnItsWay(call, slots[call.signal])
  BY <1>1 DEF EmitInv, AllOnTheirWay
<1>5. Ahead(f) = Ahead(call) /\ f.index # 0
  BY <1>1, <1>2 DEF Ahead
<1> HIDE DEF f, call
<1>6. OnItsWay(f, slots[f.signal])
  BY <1>2, <1>4, <1>5 DEF OnItsWay
<1>7. f.op = Last(calls[t]).op /\ f.signal = Last(calls[t]).signal /\ f.owed = Last(calls[t]).owed
  BY <1>1, <1>2 DEF call
<1> QED BY <1>1, <1>2, <1>3, <1>6, <1>7, GoingOnKeepsEmits

LEMMA EmitReturnsEmits ==
  ASSUME IndInv, EmitInv, NEW t \in Threads, EmitReturns(t)
  PROVE  EmitInv'
<1>1. calls[t] # << >> /\ Return(t) /\ UNCHANGED <<slots, returned, gone>>
  BY DEF EmitReturns, Emitting
<1>2. Ended(t)
  BY <1>1, ReturnEnds
<1>3. ConnectedIsValid'
  BY <1>1 DEF EmitInv, ConnectedIsValid
<1> QED BY <1>1, <1>2, <1>3, EndKeepsEmits DEF EmitInv, AllOnTheirWay

LEMMA InitEmits == Init => EmitInv
<1> SUFFICES ASSUME Init PROVE EmitInv
  OBVIOUS
<1>1. \A t \in Threads : calls[t] = << >> /\ Len(calls[t]) = 0
  BY DEF Init
<1> QED BY <1>1 DEF Init, EmitInv, ConnectedIsValid, AllOnTheirWay, AllRespect

LEMMA StepEmits == IndInv /\ EmitInv /\ [Next]_vars => EmitInv'
<1> SUFFICES ASSUME IndInv, EmitInv, [Next]_vars PROVE EmitInv'
  OBVIOUS
<1>1. CASE UNCHANGED vars
  BY <1>1 DEF vars, EmitInv, ConnectedIsValid, AllOnTheirWay, AllRespect
<1>2. CASE Next
  <2>1. PICK t \in Threads :
           \/ \E s \in Signals :
                 \/ ConnectCall(t, s) \/ DisconnectAllCall(t, s) \/ EmitCall(t, s)
                 \/ \E conn \in Connections : DisconnectCall(t, s, conn) \/ DisconnectIgnored(t, s, conn)
           \/ GoOn(t)
    BY <1>2 DEF Next
  <2>2. ASSUME NEW s \in Signals, ConnectCall(t, s) \/ DisconnectAllCall(t, s) \/ EmitCall(t, s)
        PROVE  EmitInv'
    BY <2>2, ConnectCallEmits, DisconnectAllCallEmits, EmitCallEmits
  <2>3. ASSUME NEW s \in Signals, NEW conn \in Connections,
               DisconnectCall(t, s, conn) \/ DisconnectIgnored(t, s, conn)
        PROVE  EmitInv'
    <3>1. CASE DisconnectIgnored(t, s, conn)
      <4>1. UNCHANGED <<slots, calls, returned, gone>>
        BY <3>1 DEF DisconnectIgnored
      <4> QED BY <4>1 DEF EmitInv, ConnectedIsValid, AllOnTheirWay, AllRespect
    <3> QED BY <2>3, <3>1, DisconnectCallEmits
  <2>4. CASE Connect(t) \/ Disconnect(t) \/ DisconnectAll(t)
    BY <2>4, ConnectEmits, DisconnectEmits, DisconnectAllEmits
  <2>5. CASE EmitLock(t) \/ SlotBegins(t) \/ SlotReturns(t) \/ SlotThrows(t) \/ EmitReturns(t)
    BY <2>5, EmitLockEmits, SlotBeginsEmits, SlotEndsEmits, EmitReturnsEmits
  <2> QED BY <2>1, <2>2, <2>3, <2>4, <2>5 DEF GoOn
<1> QED BY <1>1, <1>2

-----------------------------------------------------------------------------
(* The theorems *)

LEMMA InitIndInv == Init => IndInv
<1> SUFFICES ASSUME Init PROVE IndInv
  OBVIOUS
<1>1. /\ \A t \in Threads : calls[t] = << >> /\ Len(calls[t]) = 0 /\ DOMAIN calls[t] = {}
      /\ \A s \in Signals : slots[s] = << >> /\ Len(slots[s]) = 0 /\ DOMAIN slots[s] = {}
  BY DEF Init
<1>2. TypeOK
  BY <1>1, SignalAssumption DEF Init, TypeOK, Emits
<1>3. Stacked /\ OneEmit /\ Fresh /\ OneConnect
  BY <1>1 DEF Stacked, OneEmit, Fresh, OneConnect
<1>4. ValidIsConnected /\ NothingAfterDisconnect
  BY <1>1 DEF Init, ValidIsConnected, NothingAfterDisconnect
<1> QED BY <1>2, <1>3, <1>4 DEF IndInv

LEMMA StutterIndInv == IndInv /\ UNCHANGED vars => IndInv'
<1> SUFFICES ASSUME IndInv, UNCHANGED vars PROVE IndInv'
  OBVIOUS
<1>1. UNCHANGED <<slots, next_id, mutex_, calls, count, returned, gone>>
  BY DEF vars
<1>2. TypeOK'
  BY <1>1 DEF IndInv, TypeOK, Emits
<1>3. Stacked' /\ OneEmit' /\ Fresh' /\ OneConnect'
  BY <1>1 DEF IndInv, Stacked, OneEmit, Fresh, OneConnect
<1>4. ValidIsConnected' /\ NothingAfterDisconnect'
  BY <1>1 DEF IndInv, ValidIsConnected, NothingAfterDisconnect
<1> QED BY <1>2, <1>3, <1>4 DEF IndInv

LEMMA StepIndInv == IndInv /\ [Next]_vars => IndInv'
<1> SUFFICES ASSUME IndInv, Next PROVE IndInv'
  BY StutterIndInv
<1>1. PICK t \in Threads :
         \/ \E s \in Signals :
               \/ ConnectCall(t, s) \/ DisconnectAllCall(t, s) \/ EmitCall(t, s)
               \/ \E conn \in Connections : DisconnectCall(t, s, conn) \/ DisconnectIgnored(t, s, conn)
         \/ GoOn(t)
  BY DEF Next
<1>2. ASSUME NEW s \in Signals, ConnectCall(t, s) PROVE IndInv'
  BY <1>2, ConnectCallKeeps
<1>3. ASSUME NEW s \in Signals, DisconnectAllCall(t, s) PROVE IndInv'
  BY <1>3, DisconnectAllCallKeeps
<1>4. ASSUME NEW s \in Signals, EmitCall(t, s) PROVE IndInv'
  BY <1>4, EmitCallKeeps
<1>5. ASSUME NEW s \in Signals, NEW conn \in Connections, DisconnectCall(t, s, conn) \/ DisconnectIgnored(t, s, conn)
      PROVE  IndInv'
  BY <1>5, DisconnectCallKeeps, DisconnectIgnoredKeeps
<1>6. CASE Connect(t)
  BY <1>6, ConnectKeeps
<1>7. CASE Disconnect(t)
  BY <1>7, DisconnectKeeps
<1>8. CASE DisconnectAll(t)
  BY <1>8, DisconnectAllKeeps
<1>9. CASE EmitLock(t)
  BY <1>9, EmitLockKeeps
<1>10. CASE SlotBegins(t)
  BY <1>10, SlotBeginsKeeps
<1>11. CASE SlotReturns(t) \/ SlotThrows(t)
  BY <1>11, SlotEndsKeeps
<1>12. CASE EmitReturns(t)
  BY <1>12, EmitReturnsKeeps
<1> QED BY <1>1, <1>2, <1>3, <1>4, <1>5, <1>6, <1>7, <1>8, <1>9, <1>10, <1>11, <1>12 DEF GoOn

LEMMA Invariance == Spec => []IndInv
BY InitIndInv, StepIndInv, PTL DEF Spec

\* The types of the state of signals and calls, the distinct ids of the slots of
\* a signal, and that a mutex is held by the thread whose emit has locked it.
THEOREM TypeCorrect == Spec => []TypeOK
<1>1. IndInv => TypeOK
  BY DEF IndInv
<1> QED BY <1>1, Invariance, PTL

\* For any number of signals, threads and nested calls: when disconnect or
\* disconnectAll has returned, the slot neither runs nor is begun any more.
THEOREM NothingRunsAfterDisconnect == Spec => []NothingAfterDisconnect
<1>1. IndInv => NothingAfterDisconnect
  BY DEF IndInv
<1> QED BY <1>1, Invariance, PTL

\* For any number of signals, threads, slots that throw and nested calls: an emit that
\* returns has called every slot that was connected when it began and that nobody has
\* begun to disconnect, and none twice.
THEOREM EveryoneIsCalled == Spec => EveryConnectedCalled
<1>1. IndInv /\ EmitInv /\ [Next]_vars =>
         [\A t \in Threads :
             EmitReturns(t) =>
                 LET call == Last(calls[t])
                 IN  call.owed \subseteq ToSet(call.called) /\ IsInjective(call.called)]_vars
  <2> SUFFICES ASSUME IndInv, EmitInv, NEW t \in Threads, EmitReturns(t)
               PROVE  /\ Last(calls[t]).owed \subseteq ToSet(Last(calls[t]).called)
                      /\ IsInjective(Last(calls[t]).called)
    OBVIOUS
  <2> DEFINE call == Last(calls[t])
             entries == slots[call.signal]
  <2>1. /\ call = calls[t][Len(calls[t])] /\ call.signal \in Signals
        /\ Len(calls[t]) \in 1 .. Len(calls[t]) /\ call.op = "emit" /\ ~call.inside
        /\ call.called \in Seq(Ids) /\ DOMAIN call.called = 1 .. Len(call.called)
    BY EmittingFrame DEF EmitReturns, Emitting
  <2>2. OnItsWay(call, entries)
    BY <2>1 DEF EmitInv, AllOnTheirWay
  <2>3. DOMAIN entries = 1 .. Len(entries)
    BY <2>1 DEF IndInv, TypeOK
  <2>4. ToCall(call.signal, call.index) = {} /\ Ahead(call) = call.index
    BY <2>1 DEF EmitReturns, Ahead
  <2> HIDE DEF call
  <2>5. ~\E i \in 1 .. Len(entries) : i >= Ahead(call) /\ entries[i].valid
    BY <2>3, <2>4 DEF ToCall
  <2>6. \A id \in call.owed : \E n \in 1 .. Len(call.called) : call.called[n] = id
    BY <2>2, <2>5 DEF OnItsWay
  <2>7. call.owed \subseteq ToSet(call.called)
    BY <2>1, <2>6 DEF ToSet
  <2>8. IsInjective(call.called)
    BY <2>1, <2>2 DEF OnItsWay, IsInjective
  <2> QED BY <2>7, <2>8 DEF call
<1> QED BY <1>1, InitIndInv, StepIndInv, InitEmits, StepEmits, PTL DEF Spec, EveryConnectedCalled

-----------------------------------------------------------------------------
(* The recorder *)

\* The messages of the file are in the order they were recorded.
MessagesAscend ==
    /\ Len(file.messages) <= records
    /\ \A i \in 1 .. Len(file.messages) : file.messages[i] <= records
    /\ \A i, j \in 1 .. Len(file.messages) : i < j => file.messages[i] < file.messages[j]
    /\ header_.message_count <= records

\* The header in the file counts nothing before the stop, the header in memory
\* counts what was written.
CountIsWritten ==
    /\ recording_ => file.header.message_count = 0 /\ ~stopped
    /\ recording_ /\ ~bad => header_.message_count = Len(file.messages)

TopicsAreWritten ==
    ~grown => /\ file.header.topic_count = Cardinality(file.topics)
              /\ recording_ => header_.topic_count = Cardinality(file.topics) /\ topics_ = file.topics

RecorderInv == RecorderTypeOK /\ MessagesAscend /\ CountIsWritten /\ TopicsAreWritten /\ HeaderTellsTruth

\* What has reached the file stays there.
FileStays ==
    /\ Readable <= Readable' /\ Readable' \in Nat
    /\ \A i \in 1 .. Readable : file'.messages[i] = file.messages[i]
    /\ grown => grown'

LEMMA ReadableIsWritten ==
    ASSUME RecorderTypeOK
    PROVE  Readable \in 0 .. Len(file.messages) /\ Len(file.messages) \in Nat
<1>1. file.messages \in Seq(1 .. MaxRecords)
  BY DEF RecorderTypeOK, Files
<1>2. Len(file.messages) \in Nat
  BY <1>1, LenProperties
<1> QED
  BY <1>2 DEF RecorderTypeOK, Readable

\* What is lost with the stream's buffer is the end of the file.
LEMMA CutKeeps ==
    ASSUME NEW S, NEW m \in Seq(S), NEW n \in 0 .. Len(m)
    PROVE  LET cut == SubSeq(m, 1, n)
           IN  /\ cut \in Seq(S) /\ Len(cut) = n
               /\ \A i \in 1 .. n : cut[i] = m[i]
<1>1. Len(m) \in Nat /\ \A i \in 1 .. n : m[i] \in S
  BY LenProperties, ElementOfSeq
<1>2. n \in Int /\ 1 \in Int
  BY <1>1
<1> QED
  BY <1>1, <1>2, SubSeqProperties

LEMMA RecorderInitially == RecorderInit => RecorderInv
<1> SUFFICES ASSUME RecorderInit PROVE RecorderInv
  OBVIOUS
<1>1. << >> \in Seq(1 .. MaxRecords) /\ Len(<< >>) = 0
  BY EmptySeq
<1>2. IsFiniteSet({}) /\ Cardinality({}) = 0
  BY FS_EmptySet
<1>3. MaxRecords \in Nat /\ MaxStarts \in Nat
  BY RecorderAssumption
<1>4. file = [header |-> NewHeader, topics |-> {}, messages |-> << >>] /\ NewHeader \in Headers
  BY <1>3 DEF RecorderInit, NewHeader, Headers
<1>5. file \in Files /\ flushed \in 0 .. 2 + Len(file.messages)
  BY <1>1, <1>4 DEF RecorderInit, Files
<1>6. RecorderTypeOK
  <2>1. /\ configured \in BOOLEAN /\ recording_ \in BOOLEAN /\ bad \in BOOLEAN
        /\ stopped \in BOOLEAN /\ grown \in BOOLEAN
    BY DEF RecorderInit
  <2>3. topics_ = {} /\ records = 0 /\ starts = 0
    BY DEF RecorderInit
  <2>4. /\ topics_ \subseteq Topics /\ IsFiniteSet(topics_)
        /\ records \in 0 .. MaxRecords /\ starts \in 0 .. MaxStarts
    BY <1>2, <1>3, <2>3
  <2>2. header_ \in Headers
    BY <1>4 DEF RecorderInit
  <2> QED
    BY <1>5, <2>1, <2>2, <2>4 DEF RecorderTypeOK
<1> QED
  BY <1>1, <1>2, <1>4, <1>6 DEF RecorderInit, RecorderInv, MessagesAscend, CountIsWritten,
       TopicsAreWritten, HeaderTellsTruth, NewHeader

LEMMA ConfigureKeeps ==
    ASSUME RecorderInv, NEW path \in BOOLEAN, Configure(path)
    PROVE  RecorderInv' /\ FileStays
<1>1. RecorderTypeOK'
  BY DEF RecorderInv, RecorderTypeOK, Configure, disk
<1>2. Readable \in Nat
  BY ReadableIsWritten DEF RecorderInv
<1>3. FileStays
  BY <1>2 DEF FileStays, Readable, Configure, disk
<1> QED
  BY <1>1, <1>3 DEF RecorderInv, MessagesAscend, CountIsWritten, TopicsAreWritten, HeaderTellsTruth, Configure, disk

LEMMA AddTopicKeeps ==
    ASSUME RecorderInv, NEW topic \in Topics, AddTopic(topic)
    PROVE  RecorderInv' /\ FileStays
<1>1. IsFiniteSet(topics_ \cup {topic}) /\ Cardinality(topics_ \cup {topic}) \in Nat
  BY FS_AddElement, FS_CardinalityType DEF RecorderInv, RecorderTypeOK, Files
<1>2. header_' \in Headers /\ header_'.message_count = header_.message_count
  BY <1>1 DEF AddTopic, RecorderInv, RecorderTypeOK, Headers
<1>3. RecorderTypeOK'
  BY <1>1, <1>2 DEF RecorderInv, RecorderTypeOK, AddTopic, disk
<1>4. Readable \in Nat
  BY ReadableIsWritten DEF RecorderInv
<1>5. FileStays
  <2>1. Readable' = Readable /\ file' = file
    BY DEF Readable, AddTopic, disk
  <2>2. grown => grown'
    BY DEF AddTopic
  <2> QED
    BY <1>4, <2>1, <2>2 DEF FileStays
<1>6. TopicsAreWritten'
  BY DEF RecorderInv, TopicsAreWritten, AddTopic, disk
<1> QED
  BY <1>2, <1>3, <1>5, <1>6 DEF RecorderInv, MessagesAscend, CountIsWritten, HeaderTellsTruth, AddTopic, disk

LEMMA StartKeeps ==
    ASSUME RecorderInv, Start
    PROVE  RecorderInv'
<1>1. << >> \in Seq(1 .. MaxRecords) /\ Len(<< >>) = 0
  BY EmptySeq
<1>2. MaxRecords \in Nat /\ MaxStarts \in Nat
  BY RecorderAssumption
<1>3. FreshHeader \in Headers
  BY <1>2, FS_CardinalityType DEF FreshHeader, Headers, RecorderInv, RecorderTypeOK
<1>4. /\ file' = [header |-> FreshHeader, topics |-> topics_, messages |-> << >>]
      /\ header_' = FreshHeader
  BY DEF Start
<1>5. RecorderTypeOK'
  <2>1. topics_ \subseteq Topics /\ IsFiniteSet(topics_) /\ topics_' = topics_
    BY DEF RecorderInv, RecorderTypeOK, Start
  <2>2. file' \in Files /\ flushed' \in 0 .. 2 + Len(file'.messages)
    BY <1>1, <1>3, <1>4, <2>1 DEF Start, Files
  <2>3. header_' \in Headers
    BY <1>3, <1>4
  <2>4. /\ configured' \in BOOLEAN /\ recording_' \in BOOLEAN /\ bad' \in BOOLEAN
        /\ stopped' \in BOOLEAN /\ grown' \in BOOLEAN
    BY DEF RecorderInv, RecorderTypeOK, Start
  <2>5. /\ records \in 0 .. MaxRecords /\ starts \in 0 .. MaxStarts
        /\ records' = records /\ starts' = starts + 1 /\ starts < MaxStarts
    BY DEF RecorderInv, RecorderTypeOK, Start
  <2>6. records' \in 0 .. MaxRecords /\ starts' \in 0 .. MaxStarts
    BY <1>2, <2>5
  <2> QED
    BY <2>1, <2>2, <2>3, <2>4, <2>6 DEF RecorderTypeOK
<1>6. records' = records /\ records \in Nat
  BY <1>2 DEF Start, RecorderInv, RecorderTypeOK
<1>7. MessagesAscend'
  BY <1>1, <1>4, <1>6 DEF MessagesAscend, FreshHeader
<1>8. CountIsWritten' /\ TopicsAreWritten' /\ HeaderTellsTruth'
  BY <1>1, <1>4 DEF Start, CountIsWritten, TopicsAreWritten, HeaderTellsTruth, FreshHeader
<1> QED
  BY <1>5, <1>7, <1>8 DEF RecorderInv

LEMMA RecordKeeps ==
    ASSUME RecorderInv, Record
    PROVE  RecorderInv' /\ FileStays
<1> DEFINE m == file.messages
           n == Len(m)
           r == records + 1
<1>1. MaxRecords \in Nat /\ records \in Nat /\ records < MaxRecords /\ records' = r
  BY RecorderAssumption DEF RecorderInv, RecorderTypeOK, Record
<1>2. m \in Seq(1 .. MaxRecords) /\ n \in Nat /\ r \in 1 .. MaxRecords
  BY <1>1, LenProperties DEF RecorderInv, RecorderTypeOK, Files
<1>3. /\ header_' \in Headers
      /\ header_'.message_count = header_.message_count + 1
      /\ header_'.topic_count = header_.topic_count
      /\ header_.message_count \in Nat
  <2>1. header_ \in Headers /\ header_.message_count <= records
    BY DEF RecorderInv, RecorderTypeOK, MessagesAscend
  <2>2. header_' = [header_ EXCEPT !.message_count = @ + 1]
    BY DEF Record
  <2>3. header_.message_count \in Nat /\ header_.message_count + 1 \in 0 .. MaxRecords
    BY <1>1, <2>1 DEF Headers
  <2> QED
    BY <2>1, <2>2, <2>3 DEF Headers
<1>4. Readable \in 0 .. n
  BY ReadableIsWritten DEF RecorderInv
<1>5. /\ flushed' = flushed /\ grown' = grown /\ stopped' = stopped /\ bad' = bad
      /\ recording_ /\ recording_' /\ topics_' = topics_
  BY DEF Record
<1>6. file'.header = file.header /\ file'.topics = file.topics
  BY <1>1 DEF Record, RecorderInv, RecorderTypeOK, Files
<1>7. CASE bad
  <2>1. file' = file
    BY <1>7 DEF Record
  <2>2. RecorderTypeOK'
    BY <1>1, <1>2, <1>3, <2>1 DEF RecorderInv, RecorderTypeOK, Record
  <2>3. MessagesAscend'
    <3>1. \A i \in 1 .. n : m[i] \in 1 .. MaxRecords
      BY <1>2, ElementOfSeq
    <3>2. \A i \in 1 .. n : m[i] \in Nat
      BY <1>1, <3>1
    <3> QED
      BY <1>1, <1>2, <1>3, <2>1, <3>2 DEF RecorderInv, MessagesAscend
  <2> QED
    BY <1>3, <1>4, <1>5, <1>7, <2>1, <2>2, <2>3
       DEF RecorderInv, CountIsWritten, TopicsAreWritten, HeaderTellsTruth, FileStays, Readable
<1>8. CASE ~bad
  <2>1. file' = [file EXCEPT !.messages = Append(m, r)]
    BY <1>1, <1>8 DEF Record
  <2>2. file'.messages = Append(m, r)
    BY <2>1 DEF RecorderInv, RecorderTypeOK, Files
  <2>3. /\ Append(m, r) \in Seq(1 .. MaxRecords) /\ Len(Append(m, r)) = n + 1
        /\ \A i \in 1 .. n : Append(m, r)[i] = m[i]
        /\ Append(m, r)[n + 1] = r
    BY <1>2, AppendProperties
  <2>4. RecorderTypeOK'
    <3>1. file' \in Files
      BY <2>1, <2>3 DEF RecorderInv, RecorderTypeOK, Files
    <3>2. flushed' \in 0 .. 2 + Len(file'.messages)
      BY <1>2, <1>5, <2>2, <2>3 DEF RecorderInv, RecorderTypeOK
    <3> QED
      BY <1>1, <1>2, <1>3, <1>5, <3>1, <3>2 DEF RecorderInv, RecorderTypeOK, Record
  <2>5. MessagesAscend'
    <3> DEFINE a == Append(m, r)
    <3>1. /\ n <= records /\ header_.message_count <= records
          /\ \A i \in 1 .. n : m[i] <= records /\ m[i] \in Nat
          /\ \A i, j \in 1 .. n : i < j => m[i] < m[j]
      <4>1. \A i \in 1 .. n : m[i] \in 1 .. MaxRecords
        BY <1>2, ElementOfSeq
      <4>2. \A i \in 1 .. n : m[i] \in Nat
        BY <1>1, <4>1
      <4> QED
        BY <4>2 DEF RecorderInv, MessagesAscend
    <3>2. /\ Len(a) = n + 1 /\ a[n + 1] = r
          /\ \A i \in 1 .. n : a[i] = m[i]
          /\ \A i \in 1 .. n + 1 : i = n + 1 \/ i \in 1 .. n
      BY <1>2, <2>3
    <3> HIDE DEF a, m
    <3>3. \A i \in 1 .. n + 1 : a[i] <= r
      BY <1>1, <3>1, <3>2
    <3>4. \A i, j \in 1 .. n + 1 : i < j => a[i] < a[j]
      BY <1>1, <1>2, <3>1, <3>2
    <3> USE DEF m
    <3> QED
      BY <1>1, <1>2, <1>3, <2>2, <3>1, <3>2, <3>3, <3>4 DEF MessagesAscend, a
  <2>6. FileStays
    BY <1>2, <1>4, <1>5, <2>2, <2>3 DEF FileStays, Readable
  <2>7. CountIsWritten' /\ HeaderTellsTruth'
    BY <1>2, <1>3, <1>5, <1>6, <1>8, <2>2, <2>3 DEF RecorderInv, CountIsWritten, HeaderTellsTruth
  <2>8. TopicsAreWritten'
    BY <1>3, <1>5, <1>6 DEF RecorderInv, TopicsAreWritten
  <2> QED
    BY <2>4, <2>5, <2>6, <2>7, <2>8 DEF RecorderInv
<1> QED
  BY <1>7, <1>8

LEMMA StopKeeps ==
    ASSUME RecorderInv, Stop
    PROVE  RecorderInv' /\ FileStays
<1> DEFINE n == Len(file.messages)
<1>1. file.messages \in Seq(1 .. MaxRecords) /\ n \in Nat /\ Readable \in 0 .. n
  BY LenProperties, ReadableIsWritten DEF RecorderInv, RecorderTypeOK, Files
<1>2. /\ recording_ /\ ~recording_' /\ stopped' /\ grown' = grown /\ bad' = bad
      /\ header_' = header_ /\ topics_' = topics_ /\ records' = records
  BY DEF Stop
<1>3. CASE bad
  <2>1. file' = file /\ flushed' = flushed
    BY <1>3 DEF Stop
  <2>2. RecorderTypeOK'
    BY <2>1 DEF RecorderInv, RecorderTypeOK, Stop
  <2> QED
    BY <1>1, <1>2, <1>3, <2>1, <2>2
       DEF RecorderInv, MessagesAscend, CountIsWritten, TopicsAreWritten, HeaderTellsTruth, FileStays, Readable
<1>4. CASE ~bad
  <2>1. file' = [file EXCEPT !.header = header_] /\ flushed' = 2 + n
    BY <1>4 DEF Stop
  <2>2. file'.messages = file.messages /\ file'.topics = file.topics /\ file'.header = header_
    BY <2>1 DEF RecorderInv, RecorderTypeOK, Files
  <2>3. RecorderTypeOK'
    <3>1. file' \in Files
      BY <2>1 DEF RecorderInv, RecorderTypeOK, Files
    <3>2. flushed' \in 0 .. 2 + Len(file'.messages)
      BY <1>1, <2>1, <2>2
    <3> QED
      BY <3>1, <3>2 DEF RecorderInv, RecorderTypeOK, Stop
  <2>4. MessagesAscend' /\ TopicsAreWritten'
    BY <1>2, <2>2 DEF RecorderInv, MessagesAscend, TopicsAreWritten
  <2>5. CountIsWritten' /\ HeaderTellsTruth'
    BY <1>1, <1>2, <1>4, <2>1, <2>2 DEF RecorderInv, CountIsWritten, HeaderTellsTruth
  <2>6. FileStays
    BY <1>1, <1>2, <2>1, <2>2 DEF FileStays, Readable
  <2> QED
    BY <2>3, <2>4, <2>5, <2>6 DEF RecorderInv
<1> QED
  BY <1>3, <1>4

LEMMA FlushKeeps ==
    ASSUME RecorderInv, Flush
    PROVE  RecorderInv' /\ FileStays
<1>1. Readable \in Nat /\ Len(file.messages) \in Nat
  BY ReadableIsWritten DEF RecorderInv
<1>2. RecorderTypeOK'
  BY <1>1 DEF RecorderInv, RecorderTypeOK, Flush, recorder
<1>3. HeaderTellsTruth'
  BY DEF RecorderInv, CountIsWritten, HeaderTellsTruth, Flush, recorder
<1>4. FileStays
  BY <1>1 DEF FileStays, Readable, RecorderInv, RecorderTypeOK, Flush, recorder
<1> QED
  BY <1>2, <1>3, <1>4 DEF RecorderInv, MessagesAscend, CountIsWritten, TopicsAreWritten, Flush, recorder

\* What WriteFails and RecorderDies do to the file.
LEMMA LossKeeps ==
    ASSUME RecorderInv, recording_, flushed' = flushed, grown' = grown, records' = records,
           file' = [file EXCEPT !.messages = SubSeq(@, 1, IF flushed < 2 THEN 0 ELSE flushed - 2)]
    PROVE  /\ file' \in Files
           /\ flushed' \in 0 .. 2 + Len(file'.messages)
           /\ file'.header = file.header /\ file'.topics = file.topics
           /\ header_'.message_count <= records => MessagesAscend'
           /\ FileStays
<1> DEFINE m == file.messages
           cut == SubSeq(m, 1, Readable)
<1>1. m \in Seq(1 .. MaxRecords) /\ Readable \in 0 .. Len(m) /\ Len(m) \in Nat
  BY ReadableIsWritten DEF RecorderInv, RecorderTypeOK, Files
<1>2. /\ cut \in Seq(1 .. MaxRecords) /\ Len(cut) = Readable
      /\ \A i \in 1 .. Readable : cut[i] = m[i]
  BY <1>1, CutKeeps
<1>3. file' = [file EXCEPT !.messages = cut]
  BY DEF Readable
<1>4. file'.messages = cut /\ file'.header = file.header /\ file'.topics = file.topics
  BY <1>3 DEF RecorderInv, RecorderTypeOK, Files
<1>5. file' \in Files
  BY <1>2, <1>3 DEF RecorderInv, RecorderTypeOK, Files
<1>6. flushed' \in 0 .. 2 + Len(file'.messages)
  BY <1>2, <1>4 DEF Readable, RecorderInv, RecorderTypeOK
<1>7. header_'.message_count <= records => MessagesAscend'
  <2>1. /\ Len(m) <= records /\ records \in Nat
        /\ \A i \in 1 .. Len(m) : m[i] <= records
        /\ \A i, j \in 1 .. Len(m) : i < j => m[i] < m[j]
    BY RecorderAssumption DEF RecorderInv, RecorderTypeOK, MessagesAscend
  <2>2. \A i \in 1 .. Readable : i \in 1 .. Len(m)
    BY <1>1
  <2> HIDE DEF m, cut
  <2>3. Len(cut) <= records
    BY <1>1, <1>2, <2>1
  <2>4. \A i \in 1 .. Len(cut) : cut[i] <= records
    BY <1>2, <2>1, <2>2
  <2>5. \A i, j \in 1 .. Len(cut) : i < j => cut[i] < cut[j]
    BY <1>2, <2>1, <2>2
  <2> QED
    BY <1>4, <2>3, <2>4, <2>5 DEF MessagesAscend
<1>8. FileStays
  <2>1. Readable' = Readable
    BY DEF Readable
  <2>2. \A i \in 1 .. Readable : file'.messages[i] = file.messages[i]
    BY <1>2, <1>4
  <2>3. Readable <= Readable' /\ Readable' \in Nat
    BY <1>1, <2>1
  <2> QED
    BY <2>2, <2>3 DEF FileStays
<1> QED
  BY <1>4, <1>5, <1>6, <1>7, <1>8

LEMMA WriteFailsKeeps ==
    ASSUME RecorderInv, WriteFails
    PROVE  RecorderInv' /\ FileStays
<1>1. /\ recording_ /\ flushed' = flushed /\ bad' /\ UNCHANGED recorder
      /\ file' = [file EXCEPT !.messages = SubSeq(@, 1, IF flushed < 2 THEN 0 ELSE flushed - 2)]
  BY DEF WriteFails
<1>2. /\ file' \in Files
      /\ flushed' \in 0 .. 2 + Len(file'.messages)
      /\ file'.header = file.header /\ file'.topics = file.topics
      /\ MessagesAscend'
      /\ FileStays
  BY <1>1, LossKeeps DEF recorder, RecorderInv, MessagesAscend
<1>3. RecorderTypeOK'
  BY <1>1, <1>2 DEF RecorderInv, RecorderTypeOK, recorder, WriteFails
<1> QED
  BY <1>1, <1>2, <1>3 DEF RecorderInv, CountIsWritten, TopicsAreWritten, HeaderTellsTruth, recorder

LEMMA RecorderDiesKeeps ==
    ASSUME RecorderInv, RecorderDies
    PROVE  RecorderInv' /\ FileStays
<1>1. /\ recording_ /\ flushed' = flushed /\ UNCHANGED <<records, starts, stopped, grown>>
      /\ file' = [file EXCEPT !.messages = SubSeq(@, 1, IF flushed < 2 THEN 0 ELSE flushed - 2)]
      /\ configured' = FALSE /\ topics_' = {} /\ header_' = NewHeader /\ recording_' = FALSE
      /\ bad' = FALSE
  BY DEF RecorderDies
<1>2. header_'.message_count <= records /\ header_' \in Headers
  BY <1>1, RecorderAssumption DEF NewHeader, Headers, RecorderInv, RecorderTypeOK
<1>3. /\ file' \in Files
      /\ flushed' \in 0 .. 2 + Len(file'.messages)
      /\ file'.header = file.header /\ file'.topics = file.topics
      /\ MessagesAscend'
      /\ FileStays
  BY <1>1, <1>2, LossKeeps
<1>4. RecorderTypeOK'
  BY <1>1, <1>2, <1>3, FS_EmptySet DEF RecorderInv, RecorderTypeOK, Files
<1> QED
  BY <1>1, <1>3, <1>4 DEF RecorderInv, CountIsWritten, TopicsAreWritten, HeaderTellsTruth

LEMMA RecorderKeeps ==
    ASSUME RecorderInv, RecorderGoesOn
    PROVE  RecorderInv' /\ FileStays
  BY ConfigureKeeps, AddTopicKeeps, RecordKeeps, StopKeeps, FlushKeeps, WriteFailsKeeps,
     RecorderDiesKeeps DEF RecorderGoesOn

LEMMA RecorderRests ==
    ASSUME RecorderInv, UNCHANGED recorderVars
    PROVE  RecorderInv' /\ FileStays
<1>1. RecorderTypeOK'
  BY DEF RecorderInv, RecorderTypeOK, recorderVars, recorder, disk
<1>2. Readable \in Nat
  BY ReadableIsWritten DEF RecorderInv
<1> QED
  BY <1>1, <1>2 DEF RecorderInv, MessagesAscend, CountIsWritten, TopicsAreWritten, HeaderTellsTruth,
       FileStays, Readable, recorderVars, recorder, disk

-----------------------------------------------------------------------------
(* The player, apart from what is played *)

\* A play holds a message exactly while it waits or calls.
Holding ==
    \A p \in Players :
        /\ pc[p] = "idle" => message[p] = None
        /\ pc[p] = "loop" => message[p] \in {None, OfEarlierOpen}
        /\ pc[p] \in {"delay", "calling", "inside"} => message[p] # None

\* Unless shared says so, one play is under way.
Alone ==
    /\ ~shared /\ playing_ => \A p, q \in Players : p # q => pc[p] = "idle" \/ pc[q] = "idle"
    /\ paused_ => interrupted

\* The threads that will call the callback whatever happens.
Armed == {p \in Players : pc[p] = "calling"}

Quiet ==
    /\ late <= Cardinality(Players)
    /\ quiet => (~playing_ \/ paused_) /\ late + Cardinality(Armed) <= Cardinality(Players)

Cursor == is_open => position <= Readable

PlayerInv == PlayerTypeOK /\ Holding /\ Alone /\ Quiet /\ Cursor

LEMMA StepTaken ==
    ASSUME PlayerTypeOK, NEW p \in Players, NEW step \in Steps, Goto(p, step)
    PROVE  /\ pc' \in [Players -> Steps] /\ pc'[p] = step
           /\ \A q \in Players : q # p => pc'[q] = pc[q]
  BY DEF PlayerTypeOK, Goto

LEMMA MessageHeld ==
    ASSUME PlayerTypeOK, NEW p \in Players, NEW m \in 0 .. MaxRecords + 2, Hold(p, m)
    PROVE  /\ message' \in [Players -> 0 .. MaxRecords + 2] /\ message'[p] = m
           /\ \A q \in Players : q # p => message'[q] = message[q]
  BY DEF PlayerTypeOK, Hold

LEMMA SomeMessages == {None, Garbage, OfEarlierOpen} \subseteq 0 .. MaxRecords + 2 /\ MaxRecords \in Nat
  BY RecorderAssumption DEF None, Garbage, OfEarlierOpen

LEMMA ArmedAreFew ==
    ASSUME NEW S \in SUBSET Players
    PROVE  /\ Cardinality(Players) \in Nat /\ Cardinality(S) \in Nat /\ IsFiniteSet(S)
           /\ Cardinality(S) <= Cardinality(Players)
           /\ \A R \in SUBSET S : Cardinality(R) \in Nat /\ Cardinality(R) <= Cardinality(S)
<1>1. IsFiniteSet(S) /\ Cardinality(S) <= Cardinality(Players)
  BY PlayerAssumption, FS_Subset
<1> QED
  BY <1>1, PlayerAssumption, FS_Subset, FS_CardinalityType

LEMMA AloneKeeps ==
    ASSUME Alone, playing_' => playing_, shared => shared', interrupted => interrupted',
           paused_' => paused_ \/ interrupted',
           \A p \in Players : pc[p] = "idle" => pc'[p] = "idle"
    PROVE  Alone'
  BY DEF Alone

LEMMA QuietKeeps ==
    ASSUME PlayerInv, late' = late,
           quiet' => quiet /\ Armed' \subseteq Armed /\ (~playing_' \/ paused_')
    PROVE  Quiet'
<1>1. late \in Nat /\ Quiet
  BY DEF PlayerInv, PlayerTypeOK
<1>2. late' <= Cardinality(Players)
  BY <1>1 DEF Quiet
<1>3. CASE ~quiet'
  BY <1>2, <1>3 DEF Quiet
<1>4. CASE quiet'
  <2>1. quiet /\ Armed' \subseteq Armed /\ (~playing_' \/ paused_')
    BY <1>4
  <2>2. Armed \in SUBSET Players
    BY DEF Armed
  <2>3. /\ Cardinality(Armed) \in Nat /\ Cardinality(Armed') \in Nat
        /\ Cardinality(Players) \in Nat /\ Cardinality(Armed') <= Cardinality(Armed)
    BY <2>1, <2>2, ArmedAreFew
  <2>4. late + Cardinality(Armed) <= Cardinality(Players)
    BY <1>1, <2>1 DEF Quiet
  <2>5. late' + Cardinality(Armed') <= Cardinality(Players)
    BY <1>1, <2>3, <2>4
  <2> QED
    BY <1>2, <2>1, <2>5 DEF Quiet
<1> QED
  BY <1>3, <1>4

LEMMA QuietBegins ==
    ASSUME PlayerInv, Quieten, ~playing_' \/ paused_', Armed' \subseteq Armed
    PROVE  Quiet' /\ late' \in Nat /\ quiet'
<1>1. late \in Nat /\ Quiet
  BY DEF PlayerInv, PlayerTypeOK
<1>2. Armed \in SUBSET Players
  BY DEF Armed
<1>3. /\ Cardinality(Armed) \in Nat /\ Cardinality(Armed') \in Nat
      /\ Cardinality(Players) \in Nat /\ Cardinality(Armed') <= Cardinality(Armed)
      /\ Cardinality(Armed) <= Cardinality(Players)
  BY <1>2, ArmedAreFew
<1>4. CASE quiet
  <2>1. late' = late /\ late + Cardinality(Armed) <= Cardinality(Players)
    BY <1>1, <1>4 DEF Quieten, Quiet
  <2>2. late' <= Cardinality(Players) /\ late' + Cardinality(Armed') <= Cardinality(Players)
    BY <1>1, <1>3, <2>1
  <2> QED
    BY <1>1, <2>1, <2>2 DEF Quiet, Quieten
<1>5. CASE ~quiet
  <2>1. late' = 0
    BY <1>5 DEF Quieten
  <2>2. late' <= Cardinality(Players) /\ late' + Cardinality(Armed') <= Cardinality(Players)
    BY <1>3, <2>1
  <2> QED
    BY <2>1, <2>2 DEF Quiet, Quieten
<1> QED
  BY <1>4, <1>5

LEMMA FileRests ==
    ASSUME UNCHANGED recorderVars
    PROVE  Readable' = Readable /\ file' = file /\ grown' = grown /\ UNCHANGED <<flushed, starts>>
  BY DEF recorderVars, recorder, disk, Readable

-----------------------------------------------------------------------------
LEMMA PlayerRests ==
    ASSUME PlayerInv, RecorderInv, FileStays, UNCHANGED player
    PROVE  PlayerInv'
<1> USE DEF player, stream, playback, history
<1>1. PlayerTypeOK'
  BY DEF PlayerInv, PlayerTypeOK
<1>2. Holding' /\ Alone'
  BY DEF PlayerInv, Holding, Alone
<1>3. Quiet'
  <2>1. Armed' = Armed
    BY DEF Armed
  <2> QED
    BY <2>1 DEF PlayerInv, Quiet
<1>4. Cursor'
  <2>1. Readable \in Nat /\ Readable <= Readable' /\ Readable' \in Nat
    BY ReadableIsWritten DEF RecorderInv, FileStays
  <2>2. position \in Nat
    BY SomeMessages DEF PlayerInv, PlayerTypeOK
  <2> QED
    BY <2>1, <2>2 DEF PlayerInv, Cursor
<1> QED
  BY <1>1, <1>2, <1>3, <1>4 DEF PlayerInv

LEMMA ClosedPlayerRests ==
    ASSUME PlayerInv, ~is_open, UNCHANGED player
    PROVE  PlayerInv'
<1> USE DEF player, stream, playback, history
<1>1. PlayerTypeOK'
  BY DEF PlayerInv, PlayerTypeOK
<1>2. Holding' /\ Alone' /\ Cursor'
  BY DEF PlayerInv, Holding, Alone, Cursor
<1>3. Quiet'
  <2>1. Armed' = Armed
    BY DEF Armed
  <2> QED
    BY <2>1 DEF PlayerInv, Quiet
<1> QED
  BY <1>1, <1>2, <1>3 DEF PlayerInv

LEMMA PlayerInitially == BagInit => PlayerInv
<1> SUFFICES ASSUME BagInit PROVE PlayerInv
  OBVIOUS
<1>1. /\ pc = [p \in Players |-> "idle"] /\ message = [p \in Players |-> None]
      /\ is_open = FALSE /\ position = 0 /\ playing_ = FALSE /\ paused_ = FALSE /\ quiet = FALSE
      /\ late = 0 /\ opens = 0 /\ plays = 0 /\ delivered = << >>
      /\ good = FALSE /\ misaligned = FALSE /\ stuck = FALSE /\ interrupted = FALSE /\ shared = FALSE
  BY DEF BagInit
<1>2. << >> \in Seq(1 .. MaxRecords + 1)
  BY EmptySeq
<1>3. MaxRecords \in Nat /\ MaxOpens \in Nat /\ MaxPlays \in Nat
  BY RecorderAssumption, PlayerAssumption
<1>4. pc \in [Players -> Steps] /\ message \in [Players -> 0 .. MaxRecords + 2]
  BY <1>1, <1>3 DEF Steps, None
<1>5. position \in 0 .. MaxRecords /\ opens \in 0 .. MaxOpens /\ plays \in 0 .. MaxPlays /\ late \in Nat
  BY <1>1, <1>3
<1>6. PlayerTypeOK
  BY <1>1, <1>2, <1>4, <1>5 DEF PlayerTypeOK
<1>7. Cardinality(Players) \in Nat
  BY ArmedAreFew
<1> QED
  BY <1>1, <1>6, <1>7 DEF PlayerInv, Holding, Alone, Quiet, Cursor

LEMMA OpenDeadlocksKeeps ==
    ASSUME PlayerInv, RecorderInv, OpenDeadlocks
    PROVE  PlayerInv'
<1> USE DEF stream, playback, history
<1>1. opens' \in 0 .. MaxOpens
  <2>1. opens' = opens + 1 /\ opens < MaxOpens
    BY DEF OpenDeadlocks
  <2>2. opens \in 0 .. MaxOpens
    BY DEF PlayerInv, PlayerTypeOK
  <2> QED
    BY <2>1, <2>2, PlayerAssumption
<1>2. PlayerTypeOK'
  BY <1>1 DEF PlayerInv, PlayerTypeOK, OpenDeadlocks
<1>3. Holding' /\ Alone'
  BY DEF PlayerInv, Holding, Alone, OpenDeadlocks
<1>4. Quiet'
  <2>1. Armed' = Armed
    BY DEF Armed, OpenDeadlocks
  <2> QED
    BY <2>1 DEF PlayerInv, Quiet, OpenDeadlocks
<1>5. Cursor'
  BY FileRests DEF PlayerInv, Cursor, OpenDeadlocks
<1> QED
  BY <1>2, <1>3, <1>4, <1>5 DEF PlayerInv

LEMMA OpenKeeps ==
    ASSUME PlayerInv, RecorderInv, Open
    PROVE  PlayerInv'
<1>1. opens' \in 0 .. MaxOpens
  <2>1. opens' = opens + 1 /\ opens < MaxOpens
    BY DEF Open
  <2>2. opens \in 0 .. MaxOpens
    BY DEF PlayerInv, PlayerTypeOK
  <2> QED
    BY <2>1, <2>2, PlayerAssumption
<1>2. /\ message' = [p \in Players |-> IF pc[p] = "idle" THEN None ELSE OfEarlierOpen]
      /\ pc' = pc /\ plays' = plays /\ stuck' = stuck
      /\ position' = 0 /\ delivered' = << >>
      /\ playing_' = FALSE /\ paused_' = FALSE /\ interrupted' = FALSE /\ shared' = FALSE
      /\ Quieten /\ UNCHANGED recorderVars
  BY DEF Open, ClearFlags
<1>3. message' \in [Players -> 0 .. MaxRecords + 2] /\ position' \in 0 .. MaxRecords
  BY <1>2, SomeMessages
<1>4. is_open' \in BOOLEAN /\ misaligned' \in BOOLEAN /\ good' \in BOOLEAN
  <2>1. is_open' = (flushed > 0) /\ misaligned' = (flushed > 0 /\ file.header.topic_count > Cardinality(file.topics))
    BY DEF Open
  <2>2. misaligned' => good' \in BOOLEAN
    BY DEF Open
  <2>3. ~misaligned' => good' = (is_open' /\ ~TopicsCut)
    BY DEF Open
  <2>4. is_open' \in BOOLEAN
    BY <2>1
  <2>5. misaligned' \in BOOLEAN
    BY <2>1
  <2>6. CASE misaligned'
    BY <2>2, <2>4, <2>5, <2>6
  <2>7. CASE ~misaligned'
    <3>1. good' = (is_open' /\ ~TopicsCut)
      BY <2>3, <2>7
    <3>2. good' \in BOOLEAN
      BY <3>1
    <3> QED
      BY <2>4, <2>5, <3>2
  <2> QED
    BY <2>6, <2>7
<1>5. Quiet' /\ late' \in Nat /\ quiet' \in BOOLEAN
  <2>1. Armed' = Armed
    BY <1>2 DEF Armed
  <2> QED
    BY <1>2, <2>1, QuietBegins
<1>6. << >> \in Seq(1 .. MaxRecords + 1)
  BY EmptySeq
<1>7. PlayerTypeOK'
  BY <1>1, <1>2, <1>3, <1>4, <1>5, <1>6 DEF PlayerInv, PlayerTypeOK
<1>8. Holding'
  <2>1. None # OfEarlierOpen
    BY SomeMessages DEF None, OfEarlierOpen
  <2> QED
    BY <1>2, <2>1 DEF PlayerInv, PlayerTypeOK, Holding
<1>9. Alone'
  BY <1>2 DEF Alone
<1>10. Cursor'
  <2>1. Readable' = Readable /\ Readable \in Nat
    BY <1>2, FileRests, ReadableIsWritten DEF RecorderInv
  <2> QED
    BY <1>2, <2>1 DEF Cursor
<1> QED
  BY <1>5, <1>7, <1>8, <1>9, <1>10 DEF PlayerInv

LEMMA CloseKeeps ==
    ASSUME PlayerInv, RecorderInv, Close
    PROVE  PlayerInv'
<1>1. /\ is_open' = FALSE /\ playing_' = FALSE /\ paused_' = FALSE /\ Quieten
      /\ UNCHANGED <<good, position, misaligned, stuck, pc, message, opens, plays, delivered, interrupted, shared>>
  BY DEF Close, ClearFlags
<1>2. Quiet' /\ late' \in Nat /\ quiet' \in BOOLEAN
  <2>1. Armed' = Armed
    BY <1>1 DEF Armed
  <2> QED
    BY <1>1, <2>1, QuietBegins
<1>3. PlayerTypeOK'
  BY <1>1, <1>2 DEF PlayerInv, PlayerTypeOK
<1>4. Holding' /\ Alone' /\ Cursor'
  BY <1>1 DEF PlayerInv, Holding, Alone, Cursor
<1> QED
  BY <1>2, <1>3, <1>4 DEF PlayerInv

LEMMA StopPlayingKeeps ==
    ASSUME PlayerInv, RecorderInv, StopPlaying
    PROVE  PlayerInv'
<1>1. /\ playing_' = FALSE /\ interrupted' = TRUE /\ Quieten
      /\ UNCHANGED <<recorderVars, is_open, good, position, misaligned, paused_, pc, message, plays,
                     stuck, opens, delivered, shared>>
  BY DEF StopPlaying, stream
<1>2. Quiet' /\ late' \in Nat /\ quiet' \in BOOLEAN
  <2>1. Armed' = Armed
    BY <1>1 DEF Armed
  <2> QED
    BY <1>1, <2>1, QuietBegins
<1>3. PlayerTypeOK'
  BY <1>1, <1>2 DEF PlayerInv, PlayerTypeOK
<1>4. Holding' /\ Alone' /\ Cursor'
  BY <1>1, FileRests DEF PlayerInv, Holding, Alone, Cursor
<1> QED
  BY <1>2, <1>3, <1>4 DEF PlayerInv

LEMMA PauseKeeps ==
    ASSUME PlayerInv, RecorderInv, Pause
    PROVE  PlayerInv'
<1>1. /\ paused_' = TRUE /\ interrupted' = TRUE /\ Quieten
      /\ UNCHANGED <<recorderVars, is_open, good, position, misaligned, playing_, pc, message, plays,
                     stuck, opens, delivered, shared>>
  BY DEF Pause, stream
<1>2. Quiet' /\ late' \in Nat /\ quiet' \in BOOLEAN
  <2>1. Armed' = Armed
    BY <1>1 DEF Armed
  <2> QED
    BY <1>1, <2>1, QuietBegins
<1>3. PlayerTypeOK'
  BY <1>1, <1>2 DEF PlayerInv, PlayerTypeOK
<1>4. Holding' /\ Alone' /\ Cursor'
  BY <1>1, FileRests DEF PlayerInv, Holding, Alone, Cursor
<1> QED
  BY <1>2, <1>3, <1>4 DEF PlayerInv

LEMMA ResumeKeeps ==
    ASSUME PlayerInv, RecorderInv, Resume
    PROVE  PlayerInv'
<1>1. /\ paused_' = FALSE
      /\ UNCHANGED <<recorderVars, is_open, good, position, misaligned, playing_, pc, message, plays,
                     stuck, opens, delivered, interrupted, shared, late>>
  BY DEF Resume, stream
<1>2. quiet' \in BOOLEAN /\ (quiet' => quiet /\ ~playing_)
  BY DEF Resume, PlayerInv, PlayerTypeOK
<1>3. Quiet'
  <2>1. Armed' \subseteq Armed
    BY <1>1 DEF Armed
  <2> QED
    BY <1>1, <1>2, <2>1, QuietKeeps
<1>4. PlayerTypeOK'
  BY <1>1, <1>2 DEF PlayerInv, PlayerTypeOK
<1>5. Holding' /\ Alone' /\ Cursor'
  BY <1>1, FileRests DEF PlayerInv, Holding, Alone, Cursor
<1> QED
  BY <1>3, <1>4, <1>5 DEF PlayerInv

-----------------------------------------------------------------------------
LEMMA PlayKeeps ==
    ASSUME PlayerInv, RecorderInv, NEW p \in Players, Play(p)
    PROVE  PlayerInv'
<1>1. /\ pc[p] = "idle" /\ is_open /\ plays < MaxPlays /\ plays' = plays + 1
      /\ playing_' = TRUE /\ paused_' = FALSE /\ quiet' = FALSE
      /\ UNCHANGED <<recorderVars, is_open, good, position, misaligned, message, stuck, opens,
                     delivered, interrupted, late>>
  BY DEF Play, stream
<1>2. /\ pc' \in [Players -> Steps] /\ pc'[p] = "loop"
      /\ \A q \in Players : q # p => pc'[q] = pc[q]
  BY StepTaken DEF Play, PlayerInv, Steps
<1>3. plays' \in 0 .. MaxPlays
  <2>1. plays \in 0 .. MaxPlays
    BY DEF PlayerInv, PlayerTypeOK
  <2> QED
    BY <1>1, <2>1, PlayerAssumption
<1>4. shared' \in BOOLEAN /\ shared' = (shared \/ OthersPlay(p))
  BY DEF Play, PlayerInv, PlayerTypeOK
<1>5. PlayerTypeOK'
  BY <1>1, <1>2, <1>3, <1>4 DEF PlayerInv, PlayerTypeOK
<1>6. Holding'
  <2>1. message[p] = None
    BY <1>1 DEF PlayerInv, Holding
  <2>2. /\ pc'[p] = "loop" /\ message'[p] = None
        /\ \A q \in Players : q # p => pc'[q] = pc[q] /\ message'[q] = message[q]
    BY <1>1, <1>2, <2>1
  <2> QED
    BY <2>2 DEF PlayerInv, Holding
<1>7. Alone'
  <2>1. ASSUME ~shared' PROVE \A q \in Players : q # p => pc'[q] = "idle"
    BY <1>2, <1>4, <2>1 DEF OthersPlay
  <2> QED
    BY <1>1, <2>1 DEF Alone
<1>8. Quiet'
  BY <1>1 DEF PlayerInv, Quiet
<1>9. Cursor'
  BY <1>1, FileRests DEF PlayerInv, Cursor
<1> QED
  BY <1>5, <1>6, <1>7, <1>8, <1>9 DEF PlayerInv

LEMMA PlayEndsKeeps ==
    ASSUME PlayerInv, RecorderInv, NEW p \in Players, PlayEnds(p), good' \in BOOLEAN
    PROVE  PlayerInv'
<1>1. /\ playing_' = FALSE
      /\ UNCHANGED <<recorderVars, is_open, position, misaligned, paused_, stuck, opens, plays,
                     delivered, shared, quiet, late>>
  BY DEF PlayEnds
<1>2. /\ pc' \in [Players -> Steps] /\ pc'[p] = "idle"
      /\ \A q \in Players : q # p => pc'[q] = pc[q]
  BY StepTaken DEF PlayEnds, PlayerInv, Steps
<1>3. /\ message' \in [Players -> 0 .. MaxRecords + 2] /\ message'[p] = None
      /\ \A q \in Players : q # p => message'[q] = message[q]
  BY SomeMessages, MessageHeld DEF PlayEnds, PlayerInv
<1>4. interrupted' \in BOOLEAN /\ (interrupted => interrupted')
  BY DEF PlayEnds, PlayerInv, PlayerTypeOK
<1>5. PlayerTypeOK'
  BY <1>1, <1>2, <1>3, <1>4 DEF PlayerInv, PlayerTypeOK
<1>6. Holding'
  BY <1>2, <1>3 DEF PlayerInv, Holding
<1>7. Alone'
  BY <1>1, <1>4 DEF PlayerInv, Alone
<1>8. Quiet'
  <2>1. Armed' \subseteq Armed
    BY <1>2 DEF Armed
  <2> QED
    BY <1>1, <2>1, QuietKeeps
<1>9. Cursor'
  BY <1>1, FileRests DEF PlayerInv, Cursor
<1> QED
  BY <1>5, <1>6, <1>7, <1>8, <1>9 DEF PlayerInv

LEMMA ReadKeeps ==
    ASSUME PlayerInv, RecorderInv, NEW p \in Players, Read(p)
    PROVE  PlayerInv'
<1>1. /\ pc[p] = "loop" /\ playing_ /\ ~paused_ /\ position < Readable /\ position' = position + 1
      /\ UNCHANGED <<recorderVars, is_open, good, misaligned, playing_, paused_, stuck, opens, plays,
                     delivered, interrupted, shared, quiet, late>>
  BY DEF Read, MayRead, GoesOn, history
<1>2. PICK m : Hold(p, m) /\ m \in {file.messages[position + 1], Garbage}
  BY DEF Read
<1>3. PICK step \in {"delay", "calling"} : Goto(p, step)
  BY DEF Read
<1>4. position \in Nat /\ Readable \in Nat /\ position' \in 0 .. MaxRecords /\ position' \in 1 .. Len(file.messages)
  <2>1. position \in Nat /\ MaxRecords \in Nat
    BY SomeMessages DEF PlayerInv, PlayerTypeOK
  <2>2. Readable \in 0 .. Len(file.messages) /\ Len(file.messages) \in Nat
    BY ReadableIsWritten DEF RecorderInv
  <2>3. Len(file.messages) <= records /\ records \in 0 .. MaxRecords
    BY DEF RecorderInv, MessagesAscend, RecorderTypeOK
  <2> QED
    BY <1>1, <2>1, <2>2, <2>3
<1>5. m \in 1 .. MaxRecords + 1
  <2>1. file.messages \in Seq(1 .. MaxRecords)
    BY DEF RecorderInv, RecorderTypeOK, Files
  <2>2. file.messages[position + 1] \in 1 .. MaxRecords
    BY <1>1, <1>4, <2>1, ElementOfSeq
  <2> QED
    BY <1>2, <2>2, SomeMessages DEF Garbage
<1>6. /\ message' \in [Players -> 0 .. MaxRecords + 2] /\ message'[p] = m /\ m # None
      /\ \A q \in Players : q # p => message'[q] = message[q]
  <2>1. m \in 0 .. MaxRecords + 2 /\ m # None
    BY <1>5, SomeMessages DEF None
  <2> QED
    BY <1>2, <2>1, MessageHeld DEF PlayerInv
<1>7. /\ pc' \in [Players -> Steps] /\ pc'[p] = step
      /\ \A q \in Players : q # p => pc'[q] = pc[q]
  BY <1>3, StepTaken DEF PlayerInv, Steps
<1>8. PlayerTypeOK'
  BY <1>1, <1>4, <1>6, <1>7 DEF PlayerInv, PlayerTypeOK
<1>9. Holding'
  <2>1. step # "idle" /\ step # "loop"
    OBVIOUS
  <2> QED
    BY <1>6, <1>7, <2>1 DEF PlayerInv, Holding
<1>10. Alone'
  <2>1. pc[p] # "idle"
    BY <1>1
  <2>2. \A q \in Players : pc[q] = "idle" => pc'[q] = "idle"
    BY <1>7, <2>1
  <2> QED
    BY <1>1, <2>2, AloneKeeps DEF PlayerInv
<1>11. Quiet'
  <2>1. ~quiet
    BY <1>1 DEF PlayerInv, Quiet
  <2> QED
    BY <1>1, <2>1, QuietKeeps
<1>12. Cursor'
  BY <1>1, <1>4, FileRests DEF Cursor
<1> QED
  BY <1>8, <1>9, <1>10, <1>11, <1>12 DEF PlayerInv

LEMMA DelayEndsKeeps ==
    ASSUME PlayerInv, RecorderInv, NEW p \in Players, DelayEnds(p)
    PROVE  PlayerInv'
<1>1. /\ pc[p] = "delay" /\ playing_ /\ ~paused_
      /\ UNCHANGED <<recorderVars, is_open, good, position, misaligned, playing_, paused_, message, stuck, opens, plays,
                     delivered, interrupted, shared, quiet, late>>
  BY DEF DelayEnds, stream, history
<1>2. /\ pc' \in [Players -> Steps] /\ pc'[p] = "calling"
      /\ \A q \in Players : q # p => pc'[q] = pc[q]
  BY StepTaken DEF DelayEnds, PlayerInv, Steps
<1>3. PlayerTypeOK'
  BY <1>1, <1>2 DEF PlayerInv, PlayerTypeOK
<1>4. Holding'
  BY <1>1, <1>2 DEF PlayerInv, Holding
<1>5. Alone'
  <2>1. \A q \in Players : pc[q] = "idle" => pc'[q] = "idle"
    BY <1>1, <1>2
  <2> QED
    BY <1>1, <2>1, AloneKeeps DEF PlayerInv
<1>6. Quiet'
  <2>1. ~quiet
    BY <1>1 DEF PlayerInv, Quiet
  <2> QED
    BY <1>1, <2>1, QuietKeeps
<1>7. Cursor'
  BY <1>1, FileRests DEF PlayerInv, Cursor
<1> QED
  BY <1>3, <1>4, <1>5, <1>6, <1>7 DEF PlayerInv

\* A play that drops its message, or is done with it.
LEMMA HandEmptied ==
    ASSUME PlayerInv, RecorderInv, NEW p \in Players, NEW step \in {"idle", "loop"},
           pc[p] # "idle", Goto(p, step), Hold(p, None),
           UNCHANGED <<recorderVars, stream, playing_, paused_, plays, stuck, opens, history>>
    PROVE  PlayerInv'
<1>1. UNCHANGED <<recorderVars, is_open, good, position, misaligned, playing_, paused_, stuck, opens, plays,
                  delivered, interrupted, shared, quiet, late>>
  BY DEF stream, history
<1>2. /\ pc' \in [Players -> Steps] /\ pc'[p] = step
      /\ \A q \in Players : q # p => pc'[q] = pc[q]
  BY StepTaken DEF PlayerInv, Steps
<1>3. /\ message' \in [Players -> 0 .. MaxRecords + 2] /\ message'[p] = None
      /\ \A q \in Players : q # p => message'[q] = message[q]
  BY SomeMessages, MessageHeld DEF PlayerInv
<1>4. PlayerTypeOK'
  BY <1>1, <1>2, <1>3 DEF PlayerInv, PlayerTypeOK
<1>5. Holding'
  BY <1>2, <1>3 DEF PlayerInv, Holding
<1>6. Alone'
  <2>1. \A q \in Players : pc[q] = "idle" => pc'[q] = "idle"
    BY <1>2
  <2> QED
    BY <1>1, <2>1, AloneKeeps DEF PlayerInv
<1>7. Quiet'
  <2>1. Armed' \subseteq Armed
    BY <1>2 DEF Armed
  <2>2. quiet => ~playing_ \/ paused_
    BY DEF PlayerInv, Quiet
  <2> QED
    BY <1>1, <2>1, <2>2, QuietKeeps
<1>8. Cursor'
  BY <1>1, FileRests DEF PlayerInv, Cursor
<1> QED
  BY <1>4, <1>5, <1>6, <1>7, <1>8 DEF PlayerInv

\* The message a callback gets.
LEMMA MessageDelivered ==
    ASSUME PlayerInv, NEW p \in Players, pc[p] = "calling"
    PROVE  message[p] \in 1 .. MaxRecords \/ message[p] = Garbage \/ message[p] = OfEarlierOpen
<1>1. message[p] \in 0 .. MaxRecords + 2 /\ message[p] # None
  BY DEF PlayerInv, PlayerTypeOK, Holding
<1> QED
  BY <1>1, SomeMessages DEF None, Garbage, OfEarlierOpen

LEMMA CallbackBeginsKeeps ==
    ASSUME PlayerInv, RecorderInv, NEW p \in Players, CallbackBegins(p)
    PROVE  PlayerInv'
<1>1. /\ pc[p] = "calling"
      /\ late' = IF quiet THEN late + 1 ELSE late
      /\ UNCHANGED <<recorderVars, is_open, good, position, misaligned, playing_, paused_, message, stuck, opens, plays,
                     interrupted, shared, quiet>>
  BY DEF CallbackBegins, stream
<1>2. /\ pc' \in [Players -> Steps] /\ pc'[p] = "inside"
      /\ \A q \in Players : q # p => pc'[q] = pc[q]
  BY StepTaken DEF CallbackBegins, PlayerInv, Steps
<1>3. delivered' \in Seq(1 .. MaxRecords + 1)
  <2>1. delivered \in Seq(1 .. MaxRecords + 1)
    BY DEF PlayerInv, PlayerTypeOK
  <2>2. delivered' = IF message[p] = OfEarlierOpen THEN delivered ELSE Append(delivered, message[p])
    BY DEF CallbackBegins
  <2>3. message[p] # OfEarlierOpen => message[p] \in 1 .. MaxRecords + 1
    BY <1>1, MessageDelivered, SomeMessages DEF Garbage
  <2> QED
    BY <2>1, <2>2, <2>3, AppendProperties
<1>4. late \in Nat /\ late' \in Nat
  BY <1>1 DEF PlayerInv, PlayerTypeOK
<1>5. PlayerTypeOK'
  BY <1>1, <1>2, <1>3, <1>4 DEF PlayerInv, PlayerTypeOK
<1>6. Holding'
  BY <1>1, <1>2 DEF PlayerInv, Holding
<1>7. Alone'
  <2>1. \A q \in Players : pc[q] = "idle" => pc'[q] = "idle"
    BY <1>1, <1>2
  <2> QED
    BY <1>1, <2>1, AloneKeeps DEF PlayerInv
<1>8. Quiet'
  <2>1. p \in Armed /\ Armed \in SUBSET Players /\ Armed' = Armed \ {p}
    BY <1>1, <1>2 DEF Armed
  <2>2. /\ Cardinality(Armed) \in Nat /\ Cardinality(Armed') \in Nat /\ Cardinality(Players) \in Nat
        /\ Cardinality(Armed') = Cardinality(Armed) - 1
    BY <2>1, ArmedAreFew, FS_RemoveElement
  <2>3. Quiet
    BY DEF PlayerInv
  <2>4. CASE quiet
    <3>1. late' = late + 1 /\ late + Cardinality(Armed) <= Cardinality(Players)
      BY <1>1, <2>3, <2>4 DEF Quiet
    <3>2. late' <= Cardinality(Players) /\ late' + Cardinality(Armed') <= Cardinality(Players)
      BY <1>4, <2>2, <3>1
    <3> QED
      BY <1>1, <2>3, <2>4, <3>2 DEF Quiet
  <2>5. CASE ~quiet
    BY <1>1, <2>3, <2>5 DEF Quiet
  <2> QED
    BY <2>4, <2>5
<1>9. Cursor'
  BY <1>1, FileRests DEF PlayerInv, Cursor
<1> QED
  BY <1>5, <1>6, <1>7, <1>8, <1>9 DEF PlayerInv

LEMMA PlayerKeeps ==
    ASSUME PlayerInv, RecorderInv, Open \/ OpenDeadlocks \/ Close \/ StopPlaying \/ Pause \/ Resume
                                   \/ \E p \in Players : Play(p) \/ Playback(p)
    PROVE  PlayerInv'
<1>1. CASE Open \/ OpenDeadlocks \/ Close \/ StopPlaying \/ Pause \/ Resume
  BY <1>1, OpenKeeps, OpenDeadlocksKeeps, CloseKeeps, StopPlayingKeeps, PauseKeeps, ResumeKeeps
<1>2. ASSUME NEW p \in Players, Play(p)
      PROVE  PlayerInv'
  BY <1>2, PlayKeeps
<1>3. ASSUME NEW p \in Players, Playback(p)
      PROVE  PlayerInv'
  <2>1. CASE LoopEnds(p) \/ ReadFails(p) \/ DelayStopped(p)
    <3>1. PlayEnds(p) /\ good' \in BOOLEAN
      BY <2>1 DEF LoopEnds, ReadFails, DelayStopped, PlayerInv, PlayerTypeOK
    <3> QED
      BY <3>1, PlayEndsKeeps
  <2>2. CASE Read(p)
    BY <2>2, ReadKeeps
  <2>3. CASE DelayEnds(p)
    BY <2>3, DelayEndsKeeps
  <2>4. CASE DelayPaused(p)
    <3>1. pc[p] # "idle" /\ Goto(p, "loop") /\ Hold(p, None)
      BY <2>4 DEF DelayPaused
    <3>2. UNCHANGED <<recorderVars, stream, playing_, paused_, plays, stuck, opens, history>>
      BY <2>4 DEF DelayPaused
    <3> QED
      BY <3>1, <3>2, HandEmptied
  <2>5. CASE CallbackBegins(p)
    BY <2>5, CallbackBeginsKeeps
  <2>6. CASE CallbackReturns(p)
    <3>1. pc[p] # "idle" /\ Goto(p, "loop") /\ Hold(p, None)
      BY <2>6 DEF CallbackReturns
    <3>2. UNCHANGED <<recorderVars, stream, playing_, paused_, plays, stuck, opens, history>>
      BY <2>6 DEF CallbackReturns
    <3> QED
      BY <3>1, <3>2, HandEmptied
  <2>7. CASE CallbackThrows(p)
    <3>1. pc[p] # "idle" /\ Goto(p, "idle") /\ Hold(p, None)
      BY <2>7 DEF CallbackThrows
    <3>2. UNCHANGED <<recorderVars, stream, playing_, paused_, plays, stuck, opens, history>>
      BY <2>7 DEF CallbackThrows
    <3> QED
      BY <3>1, <3>2, HandEmptied
  <2> QED
    BY <1>3, <2>1, <2>2, <2>3, <2>4, <2>5, <2>6, <2>7 DEF Playback
<1> QED
  BY <1>1, <1>2, <1>3

\* What the player does leaves the recorder alone.
LEMMA PlayerLeavesRecorder ==
    ASSUME Open \/ OpenDeadlocks \/ Close \/ StopPlaying \/ Pause \/ Resume
           \/ \E p \in Players : Play(p) \/ Playback(p)
    PROVE  UNCHANGED recorderVars
<1>1. CASE Open \/ OpenDeadlocks \/ Close \/ StopPlaying \/ Pause \/ Resume
  BY <1>1 DEF Open, OpenDeadlocks, Close, StopPlaying, Pause, Resume
<1>2. ASSUME NEW p \in Players, Play(p) \/ Playback(p)
      PROVE  UNCHANGED recorderVars
  BY <1>2 DEF Play, Playback, LoopEnds, Read, ReadFails, DelayEnds, DelayPaused, DelayStopped,
       PlayEnds, CallbackBegins, CallbackReturns, CallbackThrows
<1> QED
  BY <1>1, <1>2

-----------------------------------------------------------------------------
(* What is played *)

\* A message that was read and that the callback will get, or did.
InHand(p) == pc[p] \in {"delay", "calling"} /\ message[p] \in 1 .. MaxRecords
WasRead(m) == \E i \in 1 .. position : file.messages[i] = m
Got(m) == \E i \in 1 .. Len(delivered) : delivered[i] = m

DeliveredWasRead == \A i \in 1 .. Len(delivered) : WasRead(delivered[i])

HandsWereRead == \A p \in Players : InHand(p) => WasRead(message[p]) /\ ~Got(message[p])

HandsDiffer == \A p, q \in Players : InHand(p) /\ InHand(q) /\ message[p] = message[q] => p = q

DeliveredOnce ==
    \A i, j \in 1 .. Len(delivered) :
        i < j => delivered[i] # delivered[j] /\ (shared \/ delivered[i] < delivered[j])

\* A play that is alone has read its message last.
HandIsNewest == \A p \in Players : InHand(p) => shared \/ message[p] = file.messages[position]

NothingLeftOut ==
    /\ ~interrupted => \A i \in 1 .. position :
          Got(file.messages[i]) \/ \E p \in Players : InHand(p) /\ message[p] = file.messages[i]
    /\ ~interrupted /\ ~playing_ => \A p \in Players : ~InHand(p)

NoGarbage == ~misaligned /\ \A p \in Players : message[p] # Garbage

PlayedInv ==
    is_open /\ ~grown =>
        /\ DeliveredWasRead /\ HandsWereRead /\ HandsDiffer /\ DeliveredOnce
        /\ HandIsNewest /\ NothingLeftOut /\ NoGarbage

BagInv == RecorderInv /\ PlayerInv /\ PlayedInv

\* No message is read or delivered, and none is dropped that is owed.
NothingNew ==
    /\ is_open' => is_open
    /\ grown => grown'
    /\ UNCHANGED <<misaligned, position, delivered>>
    /\ \A i \in 1 .. position : file'.messages[i] = file.messages[i]
    /\ shared => shared'
    /\ interrupted => interrupted'
    /\ \A p \in Players : message'[p] \in {None, message[p]}
    /\ \A p \in Players : InHand(p)' => InHand(p) /\ message'[p] = message[p]
    /\ \A p \in Players : ~interrupted' /\ InHand(p) => InHand(p)' /\ message'[p] = message[p]
    /\ \A p \in Players : ~interrupted' /\ ~playing_' => ~InHand(p)'

LEMMA NothingNewKeeps ==
    ASSUME BagInv, NothingNew
    PROVE  PlayedInv'
<1> SUFFICES ASSUME is_open', ~grown'
             PROVE  (/\ DeliveredWasRead /\ HandsWereRead /\ HandsDiffer /\ DeliveredOnce
                     /\ HandIsNewest /\ NothingLeftOut /\ NoGarbage)'
  BY DEF PlayedInv
<1>1. /\ DeliveredWasRead /\ HandsWereRead /\ HandsDiffer /\ DeliveredOnce
      /\ HandIsNewest /\ NothingLeftOut /\ NoGarbage
  BY DEF NothingNew, BagInv, PlayedInv
<1>2. position' = position /\ delivered' = delivered /\ position \in Nat
  BY SomeMessages DEF NothingNew, BagInv, PlayerInv, PlayerTypeOK
<1>3. \A m : (WasRead(m) => WasRead(m)') /\ (Got(m)' <=> Got(m))
  BY <1>2 DEF WasRead, Got, NothingNew
<1>4. DeliveredWasRead'
  <2>1. \A i \in 1 .. Len(delivered) : WasRead(delivered[i])'
    BY <1>1, <1>2, <1>3 DEF DeliveredWasRead
  <2> QED
    BY <1>2, <2>1 DEF DeliveredWasRead
<1>5. HandsWereRead'
  <2> SUFFICES ASSUME NEW p \in Players, InHand(p)'
               PROVE  WasRead(message[p])' /\ ~Got(message[p])'
    BY DEF HandsWereRead
  <2>1. InHand(p) /\ message'[p] = message[p]
    BY DEF NothingNew
  <2>2. WasRead(message[p]) /\ ~Got(message[p])
    BY <1>1, <2>1 DEF HandsWereRead
  <2> QED
    BY <1>2, <2>1, <2>2 DEF WasRead, Got, NothingNew
<1>6. HandsDiffer'
  BY <1>1 DEF NothingNew, HandsDiffer
<1>7. DeliveredOnce'
  BY <1>1, <1>2 DEF NothingNew, DeliveredOnce
<1>8. HandIsNewest'
  <2> SUFFICES ASSUME NEW p \in Players, InHand(p)', ~shared'
               PROVE  message'[p] = file'.messages[position']
    BY DEF HandIsNewest
  <2>1. InHand(p) /\ message'[p] = message[p] /\ ~shared
    BY DEF NothingNew
  <2>2. message[p] = file.messages[position]
    BY <1>1, <2>1 DEF HandIsNewest
  <2>3. position \in 1 .. position
    BY <1>1, <1>2, <2>1 DEF HandsWereRead, WasRead
  <2> QED
    BY <1>2, <2>1, <2>2, <2>3 DEF NothingNew
<1>9. NothingLeftOut'
  <2>1. ASSUME ~interrupted', NEW i \in 1 .. position'
        PROVE  Got(file.messages[i])' \/ \E p \in Players : InHand(p)' /\ message'[p] = file'.messages[i]
    <3>1. file'.messages[i] = file.messages[i] /\ i \in 1 .. position /\ ~interrupted
      BY <1>2, <2>1 DEF NothingNew
    <3>2. CASE Got(file.messages[i])
      BY <1>2, <3>1, <3>2 DEF Got
    <3>3. CASE \E p \in Players : InHand(p) /\ message[p] = file.messages[i]
      BY <2>1, <3>1, <3>3 DEF NothingNew
    <3> QED
      BY <1>1, <3>1, <3>2, <3>3 DEF NothingLeftOut
  <2>2. ~interrupted' /\ ~playing_' => \A p \in Players : ~InHand(p)'
    BY DEF NothingNew
  <2> QED
    BY <2>1, <2>2 DEF NothingLeftOut
<1>10. NoGarbage'
  <2>1. None # Garbage
    BY SomeMessages DEF None, Garbage
  <2> QED
    BY <1>1, <2>1 DEF NoGarbage, NothingNew
<1> QED
  BY <1>4, <1>5, <1>6, <1>7, <1>8, <1>9, <1>10

\* A play that has nothing in hand any more: what it had in hand was not owed.
LEMMA HandGone ==
    ASSUME BagInv, NEW p \in Players, NEW step \in {"idle", "loop"}, Goto(p, step), Hold(p, None),
           UNCHANGED recorderVars, UNCHANGED <<is_open, misaligned, position, delivered, shared>>,
           interrupted => interrupted',
           ~interrupted' => ~InHand(p),
           ~interrupted' /\ ~playing_' => \A q \in Players \ {p} : ~InHand(q)
    PROVE  PlayedInv'
<1>1. PlayerTypeOK
  BY DEF BagInv, PlayerInv
<1>2. pc'[p] = step /\ \A q \in Players : q # p => pc'[q] = pc[q]
  BY <1>1, StepTaken DEF Steps
<1>3. message'[p] = None /\ \A q \in Players : q # p => message'[q] = message[q]
  BY <1>1, SomeMessages, MessageHeld
<1>4. ~InHand(p)'
  BY <1>2 DEF InHand
<1>5. \A q \in Players : q # p => (InHand(q)' <=> InHand(q))
  BY <1>2, <1>3 DEF InHand
<1>6. file' = file /\ grown' = grown
  BY FileRests
<1>7. \A q \in Players : message'[q] \in {None, message[q]}
  BY <1>3
<1>8. \A q \in Players : InHand(q)' => InHand(q) /\ message'[q] = message[q]
  BY <1>3, <1>4, <1>5
<1>9. \A q \in Players : ~interrupted' /\ InHand(q) => InHand(q)' /\ message'[q] = message[q]
  BY <1>3, <1>5
<1>10. \A q \in Players : ~interrupted' /\ ~playing_' => ~InHand(q)'
  BY <1>4, <1>5
<1>11. NothingNew
  BY <1>6, <1>7, <1>8, <1>9, <1>10 DEF NothingNew
<1> QED
  BY <1>11, NothingNewKeeps

\* Steps that touch no hand.
LEMMA HandsRest ==
    ASSUME BagInv, UNCHANGED <<is_open, misaligned, position, delivered, message>>,
           \A i \in 1 .. position : file'.messages[i] = file.messages[i],
           grown => grown', shared => shared', interrupted => interrupted',
           \A p \in Players : InHand(p)' <=> InHand(p),
           interrupted' \/ (playing_ => playing_') \/ (\A p \in Players : ~InHand(p))
    PROVE  PlayedInv'
<1>1. CASE is_open /\ ~grown
  <2>1. NothingLeftOut
    BY <1>1 DEF BagInv, PlayedInv
  <2>2. \A p \in Players : ~interrupted' /\ ~playing_' => ~InHand(p)'
    BY <2>1 DEF NothingLeftOut
  <2>3. NothingNew
    BY <2>2 DEF NothingNew
  <2> QED
    BY <2>3, NothingNewKeeps
<1>2. CASE ~(is_open /\ ~grown)
  BY <1>2 DEF PlayedInv
<1> QED
  BY <1>1, <1>2

LEMMA PlayEndsPlayed ==
    ASSUME BagInv, NEW p \in Players, PlayEnds(p), pc[p] = "loop" \/ (pc[p] = "delay" /\ ~playing_)
    PROVE  PlayedInv'
<1>1. CASE is_open /\ ~grown
  <2>1. /\ Goto(p, "idle") /\ Hold(p, None) /\ UNCHANGED recorderVars
        /\ UNCHANGED <<is_open, misaligned, position, delivered, shared>>
        /\ interrupted' = (interrupted \/ OthersPlay(p))
    BY DEF PlayEnds
  <2>2. ~interrupted' => ~InHand(p)
    <3>1. ~interrupted /\ ~playing_ => ~InHand(p)
      BY <1>1 DEF BagInv, PlayedInv, NothingLeftOut
    <3>2. pc[p] = "loop" => ~InHand(p)
      BY DEF InHand
    <3> QED
      BY <2>1, <3>1, <3>2
  <2>3. ~interrupted' => \A q \in Players \ {p} : ~InHand(q)
    BY <2>1 DEF OthersPlay, InHand
  <2>4. interrupted => interrupted'
    BY <2>1
  <2> QED
    BY <2>1, <2>2, <2>3, <2>4, HandGone
<1>2. CASE ~(is_open /\ ~grown)
  <2>1. is_open' = is_open /\ grown' = grown
    BY FileRests DEF PlayEnds
  <2> QED
    BY <1>2, <2>1 DEF PlayedInv
<1> QED
  BY <1>1, <1>2

LEMMA DelayPausedPlayed ==
    ASSUME BagInv, NEW p \in Players, DelayPaused(p)
    PROVE  PlayedInv'
<1>1. /\ Goto(p, "loop") /\ Hold(p, None) /\ UNCHANGED recorderVars /\ paused_
      /\ UNCHANGED <<is_open, misaligned, position, delivered, shared, interrupted>>
  BY DEF DelayPaused, DelayDrops, stream, history
<1>2. interrupted
  BY <1>1 DEF BagInv, PlayerInv, Alone
<1> QED
  BY <1>1, <1>2, HandGone

\* A callback ends: the hand was empty already.
LEMMA CallbackEndsPlayed ==
    ASSUME BagInv, NEW p \in Players, NEW step \in {"idle", "loop"}, pc[p] = "inside", Goto(p, step), Hold(p, None),
           UNCHANGED <<recorderVars, stream, playing_, paused_, plays, stuck, opens, history>>
    PROVE  PlayedInv'
<1>1. CASE is_open /\ ~grown
  <2>1. /\ UNCHANGED recorderVars /\ playing_' = playing_
        /\ UNCHANGED <<is_open, misaligned, position, delivered, shared, interrupted>>
    BY DEF stream, history
  <2>2. ~InHand(p)
    BY DEF InHand
  <2>3. ~interrupted' /\ ~playing_' => \A q \in Players \ {p} : ~InHand(q)
    BY <1>1, <2>1 DEF BagInv, PlayedInv, NothingLeftOut
  <2> QED
    BY <2>1, <2>2, <2>3, HandGone
<1>2. CASE ~(is_open /\ ~grown)
  <2>1. is_open' = is_open /\ grown' = grown
    BY FileRests DEF stream
  <2> QED
    BY <1>2, <2>1 DEF PlayedInv
<1> QED
  BY <1>1, <1>2

LEMMA OpenPlayed ==
    ASSUME BagInv, Open
    PROVE  PlayedInv'
<1> SUFFICES ASSUME is_open', ~grown'
             PROVE  (/\ DeliveredWasRead /\ HandsWereRead /\ HandsDiffer /\ DeliveredOnce
                     /\ HandIsNewest /\ NothingLeftOut /\ NoGarbage)'
  BY DEF PlayedInv
<1>1. /\ message' = [p \in Players |-> IF pc[p] = "idle" THEN None ELSE OfEarlierOpen]
      /\ position' = 0 /\ delivered' = << >> /\ UNCHANGED recorderVars
      /\ misaligned' = (flushed > 0 /\ file.header.topic_count > Cardinality(file.topics))
  BY DEF Open
<1>2. \A p \in Players : ~InHand(p)' /\ message'[p] # Garbage
  BY <1>1, SomeMessages DEF InHand, None, Garbage, OfEarlierOpen
<1>3. ~misaligned'
  <2>1. ~grown
    BY <1>1, FileRests
  <2>2. file.header.topic_count = Cardinality(file.topics) /\ file.header.topic_count \in Nat
    BY <2>1 DEF BagInv, RecorderInv, TopicsAreWritten, RecorderTypeOK, Files, Headers
  <2>3. ~(file.header.topic_count > Cardinality(file.topics))
    BY <2>2
  <2> QED
    BY <1>1, <2>3
<1>4. Len(delivered') = 0 /\ 1 .. position' = {} /\ 1 .. Len(delivered') = {}
  BY <1>1, EmptySeq
<1>5. HandsWereRead' /\ HandsDiffer' /\ HandIsNewest'
  BY <1>2 DEF HandsWereRead, HandsDiffer, HandIsNewest
<1>6. DeliveredWasRead' /\ DeliveredOnce'
  BY <1>4 DEF DeliveredWasRead, DeliveredOnce
<1>7. NothingLeftOut'
  BY <1>2, <1>4 DEF NothingLeftOut
<1>8. NoGarbage'
  BY <1>2, <1>3 DEF NoGarbage
<1> QED
  BY <1>5, <1>6, <1>7, <1>8

\* The message that is read next was neither read nor delivered.
LEMMA ReadPlayed ==
    ASSUME BagInv, NEW p \in Players, Read(p)
    PROVE  PlayedInv'
<1> SUFFICES ASSUME is_open', ~grown'
             PROVE  (/\ DeliveredWasRead /\ HandsWereRead /\ HandsDiffer /\ DeliveredOnce
                     /\ HandIsNewest /\ NothingLeftOut /\ NoGarbage)'
  BY DEF PlayedInv
<1> DEFINE n == position + 1
           m == file.messages[n]
<1>1. /\ pc[p] = "loop" /\ playing_ /\ position < Readable /\ position' = n
      /\ UNCHANGED <<recorderVars, is_open, misaligned, playing_, delivered, interrupted, shared>>
  BY DEF Read, MayRead, GoesOn, history
<1>2. file' = file /\ grown' = grown /\ is_open /\ ~grown
  BY <1>1, FileRests
<1>3. /\ DeliveredWasRead /\ HandsWereRead /\ HandsDiffer /\ DeliveredOnce
      /\ HandIsNewest /\ NothingLeftOut /\ NoGarbage
  BY <1>2 DEF BagInv, PlayedInv
<1>4. Hold(p, m)
  BY <1>3 DEF Read, NoGarbage
<1>5. /\ position \in Nat /\ n \in 1 .. Len(file.messages) /\ \A i \in 1 .. position : i \in 1 .. Len(file.messages) /\ i < n
  <2>1. position \in Nat
    BY SomeMessages DEF BagInv, PlayerInv, PlayerTypeOK
  <2>2. Readable \in 0 .. Len(file.messages) /\ Len(file.messages) \in Nat
    BY ReadableIsWritten DEF BagInv, RecorderInv
  <2> QED
    BY <1>1, <2>1, <2>2
<1>6. m \in 1 .. MaxRecords
  <2>1. file.messages \in Seq(1 .. MaxRecords)
    BY DEF BagInv, RecorderInv, RecorderTypeOK, Files
  <2> QED
    BY <1>5, <2>1, ElementOfSeq
<1>7. \A i \in 1 .. position : file.messages[i] # m
  <2>1. \A i \in 1 .. position : file.messages[i] < m
    BY <1>5 DEF BagInv, RecorderInv, MessagesAscend
  <2> HIDE DEF m
  <2> QED
    BY <1>6, <2>1
<1>8. ~WasRead(m) /\ ~Got(m)
  <2>1. ~WasRead(m)
    BY <1>7 DEF WasRead
  <2> HIDE DEF m
  <2>2. ~Got(m)
    BY <1>3, <2>1 DEF Got, DeliveredWasRead
  <2> QED
    BY <2>1, <2>2
<1>9. /\ message'[p] = m /\ \A q \in Players : q # p => message'[q] = message[q]
  <2>1. m \in 0 .. MaxRecords + 2
    BY <1>6, SomeMessages
  <2> QED
    BY <1>4, <2>1, MessageHeld DEF BagInv, PlayerInv
<1>10. /\ pc'[p] \in {"delay", "calling"}
       /\ \A q \in Players : q # p => pc'[q] = pc[q]
  <2>1. PICK step \in {"delay", "calling"} : Goto(p, step)
    BY DEF Read
  <2> QED
    BY <2>1, StepTaken DEF BagInv, PlayerInv, Steps
<1>11. InHand(p)' /\ \A q \in Players : q # p => (InHand(q)' <=> InHand(q))
  BY <1>6, <1>9, <1>10 DEF InHand
<1>12. \A x : (WasRead(x)' <=> WasRead(x) \/ x = m)
  <2>1. \A i \in 1 .. n : i \in 1 .. position \/ i = n
    BY <1>5
  <2>2. \A i \in 1 .. position : i \in 1 .. n
    BY <1>5
  <2>3. n \in 1 .. n
    BY <1>5
  <2> QED
    BY <1>1, <1>2, <2>1, <2>2, <2>3 DEF WasRead
<1>13. \A x : Got(x)' <=> Got(x)
  BY <1>1 DEF Got
<1> HIDE DEF m, n
<1>14. DeliveredWasRead'
  <2>1. \A i \in 1 .. Len(delivered) : WasRead(delivered[i])'
    BY <1>1, <1>3, <1>12 DEF DeliveredWasRead
  <2> QED
    BY <1>1, <2>1 DEF DeliveredWasRead
<1>15. ASSUME NEW q \in Players, InHand(q)'
       PROVE  WasRead(message[q])' /\ ~Got(message[q])'
  <2>1. CASE q = p
    <3>1. PICK x : x = m
      OBVIOUS
    <3>2. message'[q] = x /\ ~Got(x)' /\ WasRead(x)'
      BY <1>8, <1>9, <1>12, <1>13, <2>1, <3>1
    <3> QED
      BY <3>2 DEF Got, WasRead
  <2>2. CASE q # p
    <3>1. message'[q] = message[q] /\ WasRead(message[q]) /\ ~Got(message[q])
      BY <1>3, <1>9, <1>11, <1>15, <2>2 DEF HandsWereRead
    <3> QED
      BY <1>1, <1>2, <1>5, <3>1 DEF WasRead, Got, n
  <2> QED
    BY <2>1, <2>2
<1>16. HandsWereRead'
  BY <1>15 DEF HandsWereRead
<1>17. HandsDiffer'
  <2>1. \A q \in Players : q # p /\ InHand(q)' => message'[q] # m
    BY <1>3, <1>8, <1>9, <1>11 DEF HandsWereRead
  <2>2. \A q, r \in Players : q # p /\ r # p /\ InHand(q)' /\ InHand(r)' /\ message'[q] = message'[r] => q = r
    BY <1>3, <1>9, <1>11 DEF HandsDiffer
  <2> QED
    BY <1>9, <2>1, <2>2 DEF HandsDiffer
<1>18. DeliveredOnce'
  BY <1>1, <1>3 DEF DeliveredOnce
<1>19. HandIsNewest'
  <2>1. ASSUME ~shared, NEW q \in Players, q # p
        PROVE  ~InHand(q)
    BY <1>1, <2>1 DEF InHand, BagInv, PlayerInv, Alone
  <2>2. message'[p] = file'.messages[position']
    BY <1>1, <1>2, <1>9 DEF m
  <2> QED
    BY <1>1, <1>11, <2>1, <2>2 DEF HandIsNewest
<1>20. NothingLeftOut'
  <2>1. ASSUME ~interrupted, NEW i \in 1 .. n
        PROVE  Got(file.messages[i]) \/ \E q \in Players : InHand(q)' /\ message'[q] = file.messages[i]
    <3>1. CASE i = n
      BY <1>9, <1>11, <3>1 DEF m
    <3>2. CASE i # n
      <4>1. i \in 1 .. position
        BY <1>5, <3>2 DEF n
      <4>2. Got(file.messages[i]) \/ \E q \in Players : InHand(q) /\ message[q] = file.messages[i]
        BY <1>3, <2>1, <4>1 DEF NothingLeftOut
      <4>3. ASSUME NEW q \in Players, InHand(q) PROVE q # p
        BY <1>1, <4>3 DEF InHand
      <4> QED
        BY <1>9, <1>11, <4>2, <4>3
    <3> QED
      BY <3>1, <3>2
  <2>2. ~interrupted => \A i \in 1 .. n :
           Got(file.messages[i])' \/ \E q \in Players : InHand(q)' /\ message'[q] = file'.messages[i]
    BY <1>1, <1>2, <2>1 DEF Got
  <2> QED
    BY <1>1, <2>2 DEF NothingLeftOut
<1>21. NoGarbage'
  <2>1. m # Garbage
    BY <1>6, SomeMessages DEF Garbage
  <2> QED
    BY <1>1, <1>3, <1>9, <2>1 DEF NoGarbage
<1> QED
  BY <1>14, <1>16, <1>17, <1>18, <1>19, <1>20, <1>21

\* The callback gets what its play had in hand.
LEMMA CallbackBeginsPlayed ==
    ASSUME BagInv, NEW p \in Players, CallbackBegins(p)
    PROVE  PlayedInv'
<1> SUFFICES ASSUME is_open', ~grown'
             PROVE  (/\ DeliveredWasRead /\ HandsWereRead /\ HandsDiffer /\ DeliveredOnce
                     /\ HandIsNewest /\ NothingLeftOut /\ NoGarbage)'
  BY DEF PlayedInv
<1>1. /\ pc[p] = "calling"
      /\ UNCHANGED <<recorderVars, is_open, misaligned, position, playing_, message, interrupted, shared>>
      /\ delivered' = IF message[p] = OfEarlierOpen THEN delivered ELSE Append(delivered, message[p])
  BY DEF CallbackBegins, stream
<1>2. file' = file /\ grown' = grown /\ is_open /\ ~grown
  BY <1>1, FileRests
<1>3. /\ DeliveredWasRead /\ HandsWereRead /\ HandsDiffer /\ DeliveredOnce
      /\ HandIsNewest /\ NothingLeftOut /\ NoGarbage
  BY <1>2 DEF BagInv, PlayedInv
<1>4. /\ pc'[p] = "inside" /\ \A q \in Players : q # p => pc'[q] = pc[q]
  BY StepTaken DEF CallbackBegins, BagInv, PlayerInv, Steps
<1>5. ~InHand(p)' /\ \A q \in Players : q # p => (InHand(q)' <=> InHand(q))
  BY <1>1, <1>4 DEF InHand
<1>6. \A x : WasRead(x)' <=> WasRead(x)
  BY <1>1, <1>2 DEF WasRead
<1>7. NoGarbage'
  BY <1>1, <1>3 DEF NoGarbage
<1>8. HandsDiffer' /\ HandIsNewest'
  BY <1>1, <1>2, <1>3, <1>5 DEF HandsDiffer, HandIsNewest
<1>9. CASE message[p] = OfEarlierOpen
  <2>1. ~InHand(p)
    BY <1>9, SomeMessages DEF InHand, OfEarlierOpen
  <2>2. delivered' = delivered
    BY <1>1, <1>9
  <2>3. \A q \in Players : InHand(q)' <=> InHand(q)
    BY <1>5, <2>1
  <2>4. interrupted' \/ (playing_ => playing_')
    BY <1>1
  <2>5. PlayedInv'
    BY <1>1, <1>2, <2>2, <2>3, <2>4, HandsRest
  <2> QED
    BY <2>5 DEF PlayedInv
<1>10. CASE message[p] # OfEarlierOpen
  <2> DEFINE n == Len(delivered)
             m == message[p]
             d == Append(delivered, m)
  <2>1. m \in 1 .. MaxRecords
    BY <1>1, <1>3, <1>10, MessageDelivered DEF BagInv, NoGarbage
  <2>2. InHand(p)
    BY <1>1, <2>1 DEF InHand
  <2>3. WasRead(m) /\ ~Got(m)
    BY <1>3, <2>2 DEF HandsWereRead
  <2>4. delivered \in Seq(1 .. MaxRecords + 1) /\ n \in Nat /\ m \in 1 .. MaxRecords + 1
    BY <2>1, SomeMessages, LenProperties DEF BagInv, PlayerInv, PlayerTypeOK
  <2>5. /\ Len(d) = n + 1 /\ d[n + 1] = m /\ \A i \in 1 .. n : d[i] = delivered[i]
    BY <2>4, AppendProperties
  <2>6. /\ \A i \in 1 .. n + 1 : i \in 1 .. n \/ i = n + 1
        /\ \A i \in 1 .. n : i \in 1 .. n + 1
        /\ n + 1 \in 1 .. n + 1
    BY <2>4
  <2>7. delivered' = d
    BY <1>1, <1>10
  <2>8. \A x : Got(x)' <=> (Got(x) \/ x = m)
    <3> HIDE DEF d, m
    <3> QED
      BY <2>5, <2>6, <2>7 DEF Got
  <2>9. \A i \in 1 .. n : delivered[i] # m
    BY <2>3 DEF Got
  <2>10. DeliveredWasRead'
    <3> HIDE DEF d, m, n
    <3>1. \A i \in 1 .. n + 1 : WasRead(d[i])
      BY <1>3, <2>3, <2>5, <2>6 DEF DeliveredWasRead, n
    <3>2. \A i \in 1 .. Len(delivered') : \E k \in 1 .. position' : file'.messages[k] = delivered'[i]
      BY <1>1, <1>2, <2>5, <2>7, <3>1 DEF WasRead
    <3> QED
      BY <3>2 DEF DeliveredWasRead, WasRead
  <2>11. HandsWereRead'
    <3> SUFFICES ASSUME NEW q \in Players, InHand(q)'
                 PROVE  WasRead(message[q])' /\ ~Got(message[q])'
      BY DEF HandsWereRead
    <3>1. q # p /\ InHand(q) /\ message'[q] = message[q]
      BY <1>1, <1>5
    <3>2. message[q] # m /\ WasRead(message[q]) /\ ~Got(message[q])
      BY <1>3, <2>2, <3>1 DEF HandsWereRead, HandsDiffer
    <3>3. PICK x : x = message[q]
      OBVIOUS
    <3>4. WasRead(x)' /\ ~Got(x)' /\ message'[q] = x
      BY <1>6, <2>8, <3>1, <3>2, <3>3
    <3> QED
      BY <3>4 DEF WasRead, Got
  <2>12. DeliveredOnce'
    <3>1. \A i \in 1 .. n : shared \/ delivered[i] < m
      <4>1. ASSUME ~shared, NEW i \in 1 .. n
            PROVE  delivered[i] < m
        <5>1. m = file.messages[position]
          BY <1>3, <2>2, <4>1 DEF HandIsNewest
        <5>2. PICK k \in 1 .. position : file.messages[k] = delivered[i]
          BY <1>3 DEF DeliveredWasRead, WasRead
        <5>3. k # position /\ position \in Nat
          BY <2>9, <5>1, <5>2, SomeMessages DEF BagInv, PlayerInv, PlayerTypeOK
        <5>4. position \in 1 .. Len(file.messages) /\ k \in 1 .. Len(file.messages) /\ k < position
          <6>1. Readable \in 0 .. Len(file.messages) /\ Len(file.messages) \in Nat
            BY ReadableIsWritten DEF BagInv, RecorderInv
          <6>2. position <= Readable
            BY <1>2 DEF BagInv, PlayerInv, Cursor
          <6> QED
            BY <5>2, <5>3, <6>1, <6>2
        <5>5. file.messages[k] < file.messages[position]
          BY <5>4 DEF BagInv, RecorderInv, MessagesAscend
        <5> QED
          BY <5>1, <5>2, <5>5
      <4> QED
        BY <4>1
    <3>2. \A i, j \in 1 .. n : i < j => delivered[i] # delivered[j] /\ (shared \/ delivered[i] < delivered[j])
      BY <1>3 DEF DeliveredOnce
    <3>3. \A i, j \in 1 .. n + 1 : i < j => i \in 1 .. n
      BY <2>4
    <3> HIDE DEF d, m, n
    <3>4. \A i, j \in 1 .. n + 1 : i < j => d[i] # d[j] /\ (shared \/ d[i] < d[j])
      <4> SUFFICES ASSUME NEW i \in 1 .. n + 1, NEW j \in 1 .. n + 1, i < j
                   PROVE  d[i] # d[j] /\ (shared \/ d[i] < d[j])
        OBVIOUS
      <4>1. i \in 1 .. n /\ d[i] = delivered[i]
        BY <2>5, <3>3
      <4>2. CASE j = n + 1
        <5>1. delivered[i] # m
          BY <2>9, <4>1 DEF n
        <5> QED
          BY <2>5, <3>1, <4>1, <4>2, <5>1
      <4>3. CASE j # n + 1
        <5>1. j \in 1 .. n /\ d[j] = delivered[j]
          BY <2>5, <2>6, <4>3
        <5> QED
          BY <3>2, <4>1, <5>1
      <4> QED
        BY <4>2, <4>3
    <3> QED
      BY <1>1, <2>5, <2>7, <3>4 DEF DeliveredOnce
  <2>13. NothingLeftOut'
    <3>1. ASSUME ~interrupted, NEW i \in 1 .. position
          PROVE  Got(file.messages[i])' \/ \E q \in Players : InHand(q)' /\ message'[q] = file'.messages[i]
      <4>1. PICK x : x = file.messages[i]
        OBVIOUS
      <4>2. Got(x)' => Got(file.messages[i])'
        BY <1>2, <4>1 DEF Got
      <4>3. CASE Got(x)
        BY <2>8, <4>2, <4>3
      <4>4. CASE \E q \in Players : InHand(q) /\ message[q] = x
        <5>1. PICK q \in Players : InHand(q) /\ message[q] = x
          BY <4>4
        <5>2. CASE q = p
          BY <2>8, <4>2, <5>1, <5>2
        <5>3. CASE q # p
          <6>1. InHand(q)' /\ message'[q] = file'.messages[i]
            BY <1>1, <1>2, <1>5, <4>1, <5>1, <5>3
          <6> QED
            BY <6>1
        <5> QED
          BY <5>2, <5>3
      <4> QED
        BY <1>3, <3>1, <4>1, <4>3, <4>4 DEF NothingLeftOut
    <3>2. ~interrupted /\ ~playing_ => \A q \in Players : ~InHand(q)'
      BY <1>3, <1>5 DEF NothingLeftOut
    <3> QED
      BY <1>1, <3>1, <3>2 DEF NothingLeftOut
  <2> QED
    BY <1>7, <1>8, <2>10, <2>11, <2>12, <2>13
<1> QED
  BY <1>9, <1>10

-----------------------------------------------------------------------------
LEMMA RecorderPlayed ==
    ASSUME BagInv, UNCHANGED player, (RecorderInv' /\ FileStays) \/ ~is_open
    PROVE  PlayedInv'
<1>1. UNCHANGED <<is_open, misaligned, position, playing_, delivered, message, pc, shared, interrupted>>
  BY DEF player, stream, playback, history
<1>2. CASE ~is_open
  BY <1>1, <1>2 DEF PlayedInv
<1>3. CASE is_open /\ FileStays
  <2>1. grown => grown'
    BY <1>3 DEF FileStays
  <2>2. \A i \in 1 .. position : file'.messages[i] = file.messages[i]
    <3>1. Readable \in Nat /\ position <= Readable /\ position \in Nat
      BY <1>3, ReadableIsWritten, SomeMessages DEF BagInv, RecorderInv, PlayerInv, PlayerTypeOK, Cursor
    <3>2. \A i \in 1 .. position : i \in 1 .. Readable
      BY <3>1
    <3> QED
      BY <1>3, <3>2 DEF FileStays
  <2>3. \A p \in Players : InHand(p)' <=> InHand(p)
    BY <1>1 DEF InHand
  <2> QED
    BY <1>1, <2>1, <2>2, <2>3, HandsRest
<1> QED
  BY <1>2, <1>3

\* Steps of the player that deliver, read and drop nothing.
LEMMA OtherStepsPlayed ==
    ASSUME BagInv, OpenDeadlocks \/ Close \/ StopPlaying \/ Pause \/ Resume
                   \/ \E p \in Players : Play(p) \/ DelayEnds(p)
    PROVE  PlayedInv'
<1>1. CASE Close
  BY <1>1 DEF Close, PlayedInv
<1>2. ASSUME UNCHANGED <<recorderVars, is_open, misaligned, position, delivered, message>>,
             shared => shared', interrupted => interrupted', interrupted' \/ (playing_ => playing_'),
             \A p \in Players : InHand(p)' <=> InHand(p)
      PROVE  PlayedInv'
  BY <1>2, FileRests, HandsRest
<1>3. CASE OpenDeadlocks \/ StopPlaying \/ Pause \/ Resume
  <2>1. /\ UNCHANGED <<recorderVars, is_open, misaligned, position, delivered, message, pc, shared>>
        /\ interrupted => interrupted'
        /\ interrupted' \/ (playing_ => playing_')
    BY <1>3 DEF OpenDeadlocks, StopPlaying, Pause, Resume, stream, playback, history
  <2>2. \A p \in Players : InHand(p)' <=> InHand(p)
    BY <2>1 DEF InHand
  <2> QED
    BY <1>2, <2>1, <2>2
<1>4. ASSUME NEW p \in Players, Play(p)
      PROVE  PlayedInv'
  <2>1. /\ UNCHANGED <<recorderVars, is_open, misaligned, position, delivered, message, interrupted>>
        /\ pc[p] = "idle" /\ playing_' /\ (shared => shared')
    BY <1>4 DEF Play, stream
  <2>2. pc'[p] = "loop" /\ \A q \in Players : q # p => pc'[q] = pc[q]
    BY <1>4, StepTaken DEF Play, BagInv, PlayerInv, Steps
  <2>3. \A q \in Players : InHand(q)' <=> InHand(q)
    BY <2>1, <2>2 DEF InHand
  <2> QED
    BY <1>2, <2>1, <2>3
<1>5. ASSUME NEW p \in Players, DelayEnds(p)
      PROVE  PlayedInv'
  <2>1. /\ UNCHANGED <<recorderVars, is_open, misaligned, position, delivered, message, interrupted, shared, playing_>>
        /\ pc[p] = "delay"
    BY <1>5 DEF DelayEnds, stream, history
  <2>2. pc'[p] = "calling" /\ \A q \in Players : q # p => pc'[q] = pc[q]
    BY <1>5, StepTaken DEF DelayEnds, BagInv, PlayerInv, Steps
  <2>3. \A q \in Players : InHand(q)' <=> InHand(q)
    BY <2>1, <2>2 DEF InHand
  <2> QED
    BY <1>2, <2>1, <2>3
<1> QED
  BY <1>1, <1>3, <1>4, <1>5

LEMMA PlaybackPlayed ==
    ASSUME BagInv, NEW p \in Players, Playback(p)
    PROVE  PlayedInv'
<1>1. CASE LoopEnds(p) \/ ReadFails(p) \/ DelayStopped(p)
  <2>1. PlayEnds(p) /\ (pc[p] = "loop" \/ (pc[p] = "delay" /\ ~playing_))
    BY <1>1 DEF LoopEnds, ReadFails, DelayStopped
  <2> QED
    BY <2>1, PlayEndsPlayed
<1>2. CASE Read(p)
  BY <1>2, ReadPlayed
<1>3. CASE DelayEnds(p)
  BY <1>3, OtherStepsPlayed
<1>4. CASE DelayPaused(p)
  BY <1>4, DelayPausedPlayed
<1>5. CASE CallbackBegins(p)
  BY <1>5, CallbackBeginsPlayed
<1>6. CASE CallbackReturns(p)
  <2>1. pc[p] = "inside" /\ Goto(p, "loop") /\ Hold(p, None)
    BY <1>6 DEF CallbackReturns
  <2>2. UNCHANGED <<recorderVars, stream, playing_, paused_, plays, stuck, opens, history>>
    BY <1>6 DEF CallbackReturns
  <2> QED
    BY <2>1, <2>2, CallbackEndsPlayed
<1>7. CASE CallbackThrows(p)
  <2>1. pc[p] = "inside" /\ Goto(p, "idle") /\ Hold(p, None)
    BY <1>7 DEF CallbackThrows
  <2>2. UNCHANGED <<recorderVars, stream, playing_, paused_, plays, stuck, opens, history>>
    BY <1>7 DEF CallbackThrows
  <2> QED
    BY <2>1, <2>2, CallbackEndsPlayed
<1> QED
  BY <1>1, <1>2, <1>3, <1>4, <1>5, <1>6, <1>7 DEF Playback

LEMMA BagInitially == BagInit => BagInv
<1> SUFFICES ASSUME BagInit PROVE BagInv
  OBVIOUS
<1>1. RecorderInv /\ PlayerInv
  BY RecorderInitially, PlayerInitially DEF BagInit
<1>2. is_open = FALSE
  BY DEF BagInit
<1> QED
  BY <1>1, <1>2 DEF BagInv, PlayedInv

LEMMA BagStep == BagInv /\ [BagNext]_bagVars => BagInv'
<1> SUFFICES ASSUME BagInv, [BagNext]_bagVars PROVE BagInv'
  OBVIOUS
<1> USE DEF BagInv
<1>1. CASE RecorderGoesOn /\ UNCHANGED player
  BY <1>1, RecorderKeeps, PlayerRests, RecorderPlayed
<1>2. CASE ~is_open /\ Start /\ UNCHANGED player
  <2>1. RecorderInv' /\ PlayedInv'
    BY <1>2, StartKeeps, RecorderPlayed
  <2>2. PlayerInv'
    BY <1>2, ClosedPlayerRests
  <2> QED
    BY <2>1, <2>2
<1>3. CASE Open \/ OpenDeadlocks \/ Close \/ StopPlaying \/ Pause \/ Resume
           \/ \E p \in Players : Play(p) \/ Playback(p)
  <2>1. RecorderInv' /\ PlayerInv'
    BY <1>3, PlayerLeavesRecorder, RecorderRests, PlayerKeeps
  <2>2. PlayedInv'
    BY <1>3, OpenPlayed, OtherStepsPlayed, PlaybackPlayed
  <2> QED
    BY <2>1, <2>2
<1>4. CASE UNCHANGED bagVars
  <2>1. UNCHANGED recorderVars /\ UNCHANGED player
    BY <1>4 DEF bagVars
  <2> QED
    BY <2>1, RecorderRests, PlayerRests, RecorderPlayed
<1> QED
  BY <1>1, <1>2, <1>3, <1>4 DEF BagNext

LEMMA BagInvariance == BagSpec => []BagInv
<1> QED
  BY BagInitially, BagStep, PTL DEF BagSpec

\* The state of the recorder, the file and the player always has its type.
THEOREM BagTypeCorrect == BagSpec => []BagTypeOK
<1>1. BagInv => BagTypeOK
  BY DEF BagInv, RecorderInv, PlayerInv, BagTypeOK
<1> QED
  BY <1>1, BagInvariance, PTL

\* A header that counts messages counts those that are in the file (bag_recorder.cpp
\* stop), however the recording ends.
THEOREM HeaderCountsTheFile == BagSpec => []HeaderTellsTruth
<1>1. BagInv => HeaderTellsTruth
  BY DEF BagInv, RecorderInv
<1> QED
  BY <1>1, BagInvariance, PTL

\* What the callbacks of any number of plays get is what was recorded, once and, for
\* a play that is alone, in order and without gaps (bag_recorder.cpp play).
THEOREM RecordedIsPlayed == BagSpec => []PlayedIsRecorded
<1>1. ASSUME BagInv PROVE PlayedIsRecorded
  <2> SUFFICES ASSUME is_open, ~grown
               PROVE  LET read == {file.messages[i] : i \in 1 .. position}
                          inHand == {message[p] : p \in {q \in Players : pc[q] # "inside"}} \cap 1 .. MaxRecords
                      IN  /\ \A i, j \in DOMAIN delivered :
                                i < j => /\ delivered[i] # delivered[j]
                                         /\ shared \/ delivered[i] < delivered[j]
                          /\ \A i \in DOMAIN delivered : delivered[i] \in read
                          /\ ~interrupted /\ playing_ => read \subseteq inHand \cup {delivered[i] : i \in DOMAIN delivered}
    BY DEF PlayedIsRecorded
  <2>1. DeliveredWasRead /\ DeliveredOnce /\ NothingLeftOut
    BY <1>1 DEF BagInv, PlayedInv
  <2>2. DOMAIN delivered = 1 .. Len(delivered)
    BY <1>1, LenProperties DEF BagInv, PlayerInv, PlayerTypeOK
  <2>3. \A i, j \in DOMAIN delivered :
           i < j => delivered[i] # delivered[j] /\ (shared \/ delivered[i] < delivered[j])
    BY <2>1, <2>2 DEF DeliveredOnce
  <2>4. \A i \in DOMAIN delivered : delivered[i] \in {file.messages[k] : k \in 1 .. position}
    BY <2>1, <2>2 DEF DeliveredWasRead, WasRead
  <2>5. ASSUME ~interrupted, NEW i \in 1 .. position
        PROVE  file.messages[i] \in ({message[p] : p \in {q \in Players : pc[q] # "inside"}} \cap 1 .. MaxRecords)
                                      \cup {delivered[k] : k \in DOMAIN delivered}
    <3>1. CASE Got(file.messages[i])
      BY <2>2, <3>1 DEF Got
    <3>2. CASE \E p \in Players : InHand(p) /\ message[p] = file.messages[i]
      <4>1. PICK p \in Players : InHand(p) /\ message[p] = file.messages[i]
        BY <3>2
      <4>2. pc[p] # "inside" /\ message[p] \in 1 .. MaxRecords
        BY <4>1 DEF InHand
      <4> QED
        BY <4>1, <4>2
    <3> QED
      BY <2>1, <2>5, <3>1, <3>2 DEF NothingLeftOut
  <2> QED
    BY <2>3, <2>4, <2>5
<1> QED
  BY <1>1, BagInvariance, PTL

\* After stop, pause or close, no more callbacks begin than there are threads that
\* play (bag_recorder.cpp play looks at playing_ before it lets go of the mutex).
THEOREM StopQuietens == BagSpec => []QuietAfterStop
<1>1. BagInv => QuietAfterStop
  BY DEF BagInv, PlayerInv, Quiet, QuietAfterStop
<1> QED
  BY <1>1, BagInvariance, PTL

-----------------------------------------------------------------------------
(* SignalSlot: nobody waits in a circle, because the calls of a thread climb *)

\* An order of the signals in which slots operate on later ones only.
Rank == CHOOSE rank \in [Signals -> 1 .. Cardinality(Signals)] :
            \A nest \in Nests : nest \in Signals \X Signals /\ rank[nest[1]] < rank[nest[2]]

\* Each call of a thread is about a later signal than those that surround it.
Climbing ==
    \A t \in Threads : \A k, l \in 1 .. Len(calls[t]) :
        k < l => Rank[calls[t][k].signal] < Rank[calls[t][l].signal]

\* The guards of the steps of GoOn: the innermost call of t has the mutex or can
\* have it.
CanGoOn(t) == Emitting(t) \/ \E op \in {"connect", "disconnect", "disconnectAll", "emit"} :
                                Waits(t, op) /\ Free(Last(calls[t]).signal)

SomebodyGoesOn == (\E t \in Threads : calls[t] # << >>) => \E t \in Threads : CanGoOn(t)

LEMMA RankFacts ==
  /\ Cardinality(Signals) \in Nat
  /\ Rank \in [Signals -> 1 .. Cardinality(Signals)]
  /\ \A r, s \in Signals : <<r, s>> \in Nests => Rank[r] < Rank[s]
  /\ \A s \in Signals : Rank[s] \in Nat /\ Rank[s] <= Cardinality(Signals)
<1>1. Cardinality(Signals) \in Nat
  BY SignalAssumption, FS_CardinalityType
<1>2. /\ Rank \in [Signals -> 1 .. Cardinality(Signals)]
      /\ \A nest \in Nests : nest \in Signals \X Signals /\ Rank[nest[1]] < Rank[nest[2]]
  BY NestsAssumption DEF Rank
<1>3. \A s \in Signals : Rank[s] \in 1 .. Cardinality(Signals)
  BY <1>2
<1> QED
  BY <1>1, <1>2, <1>3

LEMMA SignalsOfCalls ==
  ASSUME calls \in Stacks, NEW t \in Threads
  PROVE  /\ Len(calls[t]) \in Nat /\ calls[t] \in Seq(Frames)
         /\ \A k \in 1 .. Len(calls[t]) : calls[t][k].signal \in Signals /\ Rank[calls[t][k].signal] \in Nat
<1>1. calls[t] \in Seq(Frames) /\ Len(calls[t]) \in Nat
  BY LenProperties DEF Stacks
<1>2. \A k \in 1 .. Len(calls[t]) : calls[t][k] \in Frames
  BY <1>1, ElementOfSeq
<1> QED
  BY <1>1, <1>2, RankFacts DEF Frames

\* A thread's innermost call is about its latest signal.
LEMMA LastIsHighest ==
  ASSUME IndInv, Climbing, NEW t \in Threads, calls[t] # << >>, NEW k \in 1 .. Len(calls[t])
  PROVE  Rank[calls[t][k].signal] <= Rank[Last(calls[t]).signal]
<1>1. Len(calls[t]) \in 1 .. Len(calls[t]) /\ Last(calls[t]) = calls[t][Len(calls[t])]
  BY EmittingFrame
<1>2. calls \in Stacks
  BY DEF IndInv, TypeOK, Stacks
<1>3. /\ Len(calls[t]) \in Nat
      /\ Rank[calls[t][k].signal] \in Nat /\ Rank[calls[t][Len(calls[t])].signal] \in Nat
  BY <1>1, <1>2, SignalsOfCalls
<1>4. CASE k = Len(calls[t])
  BY <1>1, <1>3, <1>4
<1>5. CASE k # Len(calls[t])
  <2>1. k < Len(calls[t])
    BY <1>3, <1>5
  <2>2. Rank[calls[t][k].signal] < Rank[calls[t][Len(calls[t])].signal]
    BY <1>1, <2>1 DEF Climbing
  <2> QED
    BY <1>1, <1>3, <2>2
<1> QED
  BY <1>4, <1>5

LEMMA GrowingClimbs ==
  ASSUME IndInv, Climbing, NEW t \in Threads, NEW f \in Frames, Grown(t, f), MayCall(t, f.signal), IndInv'
  PROVE  Climbing'
<1> SUFFICES ASSUME NEW u \in Threads, NEW k \in 1 .. Len(calls'[u]), NEW l \in 1 .. Len(calls'[u]), k < l
             PROVE  Rank[calls'[u][k].signal] < Rank[calls'[u][l].signal]
  BY DEF Climbing
<1>1. calls \in Stacks /\ f.signal \in Signals
  BY DEF IndInv, TypeOK, Stacks, Frames
<1>2. Len(calls[u]) \in Nat /\ k \in Nat /\ l \in Nat
  BY <1>1, SignalsOfCalls
<1>3. CASE l \in 1 .. Len(calls[u])
  <2>1. k \in 1 .. Len(calls[u])
    BY <1>2, <1>3
  <2>2. calls'[u][k].signal = calls[u][k].signal /\ calls'[u][l].signal = calls[u][l].signal
    BY <1>2, <1>3, <2>1 DEF Grown, SameButOwed
  <2> QED
    BY <1>3, <2>1, <2>2 DEF Climbing
<1>4. CASE l \notin 1 .. Len(calls[u])
  <2>1. u = t /\ l = Len(calls[t]) + 1 /\ calls'[t][l] = f
    BY <1>4 DEF Grown
  <2>2. k \in 1 .. Len(calls[t])
    BY <1>2, <2>1
  <2>3. calls'[t][k].signal = calls[t][k].signal
    BY <1>2, <2>1, <2>2 DEF Grown, SameButOwed
  <2>4. calls[t] # << >>
    BY <2>2, EmptySeq
  <2>5. Last(calls[t]).signal \in Signals /\ <<Last(calls[t]).signal, f.signal>> \in Nests
    BY <2>4, EmittingFrame DEF MayCall
  <2>6. Rank[calls[t][k].signal] <= Rank[Last(calls[t]).signal]
    BY <2>2, <2>4, LastIsHighest
  <2>7. /\ Rank[Last(calls[t]).signal] < Rank[f.signal]
        /\ Rank[Last(calls[t]).signal] \in Nat /\ Rank[f.signal] \in Nat /\ Rank[calls[t][k].signal] \in Nat
    BY <1>1, <2>2, <2>5, RankFacts, SignalsOfCalls
  <2> QED
    BY <2>1, <2>3, <2>6, <2>7
<1> QED
  BY <1>3, <1>4

LEMMA EndingClimbs ==
  ASSUME Climbing, NEW t \in Threads, Ended(t)
  PROVE  Climbing'
  BY DEF Climbing, Ended

LEMMA SetTopClimbs ==
  ASSUME IndInv, Climbing, NEW t \in Threads, calls[t] # << >>, NEW f, SetTop(t, f),
         f.signal = Last(calls[t]).signal, IndInv'
  PROVE  Climbing'
<1>1. calls \in Stacks
  BY DEF IndInv, TypeOK, Stacks
<1>2. Len(calls[t]) \in 1 .. Len(calls[t]) /\ Last(calls[t]) = calls[t][Len(calls[t])] /\ calls[t] \in Seq(Frames)
  BY <1>1, EmittingFrame, SignalsOfCalls
<1>3. /\ \A u \in Threads : u # t => calls'[u] = calls[u]
      /\ calls'[t] = [calls[t] EXCEPT ![Len(calls[t])] = f]
  BY <1>1 DEF SetTop, Stacks
<1>4. DOMAIN calls[t] = 1 .. Len(calls[t]) /\ DOMAIN calls'[t] = 1 .. Len(calls'[t])
      /\ Len(calls[t]) \in Nat /\ Len(calls'[t]) \in Nat
  BY <1>2, LenProperties DEF IndInv, TypeOK
<1>5. /\ DOMAIN calls'[t] = DOMAIN calls[t]
      /\ \A k \in 1 .. Len(calls[t]) : calls'[t][k] = IF k = Len(calls[t]) THEN f ELSE calls[t][k]
  BY <1>3, <1>4
<1>6. Len(calls'[t]) = Len(calls[t])
  BY <1>4, <1>5
<1>7. \A k \in 1 .. Len(calls[t]) : calls'[t][k].signal = calls[t][k].signal
  BY <1>2, <1>5
<1> QED
  BY <1>3, <1>6, <1>7 DEF Climbing

LEMMA CallClimbs ==
  ASSUME IndInv, Climbing, NEW t \in Threads, NEW s \in Signals, IndInv',
         \/ ConnectCall(t, s) \/ DisconnectAllCall(t, s) \/ EmitCall(t, s)
         \/ \E conn \in Connections : DisconnectCall(t, s, conn) \/ DisconnectIgnored(t, s, conn)
  PROVE  Climbing'
<1>1. \A id \in Ids \cup {0} : /\ Frame("connect", s, id) \in Frames /\ Frame("connect", s, id).signal = s
                               /\ Frame("disconnect", s, id) \in Frames /\ Frame("disconnect", s, id).signal = s
                               /\ Frame("disconnectAll", s, id) \in Frames /\ Frame("disconnectAll", s, id).signal = s
                               /\ Frame("emit", s, id) \in Frames /\ Frame("emit", s, id).signal = s
  BY DEF Frame, Frames
<1>2. CASE ConnectCall(t, s)
  <2> DEFINE f == Frame("connect", s, next_id[s])
  <2>1. next_id[s] \in Ids
    BY <1>2, SignalAssumption DEF IndInv, TypeOK, ConnectCall, Ids
  <2>2. f \in Frames /\ f.signal = s
    BY <1>1, <2>1
  <2>3. calls' = [calls EXCEPT ![t] = Append(@, f)] /\ MayCall(t, f.signal)
    BY <1>2 DEF ConnectCall, Call
  <2> HIDE DEF f
  <2> QED
    BY <2>2, <2>3, CallAppends, GrowingClimbs
<1>3. CASE EmitCall(t, s)
  <2> DEFINE g == Frame("emit", s, 0)
             f == [g EXCEPT !.owed = Settled(s)]
  <2>1. Settled(s) \in SUBSET Ids
    BY DEF Settled
  <2>2. f \in Frames /\ f.signal = s
    <3>1. g \in Frames /\ g.signal = s
      BY <1>1
    <3> HIDE DEF g
    <3> QED
      BY <2>1, <3>1 DEF Frames
  <2>3. calls' = [calls EXCEPT ![t] = Append(@, f)] /\ MayCall(t, f.signal)
    BY <1>3 DEF EmitCall, Call
  <2> HIDE DEF f
  <2> QED
    BY <2>2, <2>3, CallAppends, GrowingClimbs
<1>4. CASE DisconnectAllCall(t, s)
  <2> DEFINE f == Frame("disconnectAll", s, 0)
  <2>1. f \in Frames /\ f.signal = s
    BY <1>1
  <2>2. calls' = [Forgive(s, Ids) EXCEPT ![t] = Append(@, f)] /\ MayCall(t, s)
    BY <1>4 DEF DisconnectAllCall
  <2> HIDE DEF f
  <2>3. Grown(t, f)
    BY <2>1, <2>2, ForgivingCallAppends
  <2> QED
    BY <2>1, <2>2, <2>3, GrowingClimbs
<1>5. ASSUME NEW conn \in Connections, DisconnectCall(t, s, conn)
      PROVE  Climbing'
  <2>1. PICK id \in Ids : id = conn.id
    BY DEF Connections
  <2> DEFINE f == Frame("disconnect", s, id)
             ids == {id}
  <2>2. f \in Frames /\ f.signal = s
    BY <1>1
  <2>3. calls' = [Forgive(s, ids) EXCEPT ![t] = Append(@, f)] /\ MayCall(t, s)
    BY <1>5, <2>1 DEF DisconnectCall
  <2>4. ids \in SUBSET Ids
    OBVIOUS
  <2> HIDE DEF f, ids
  <2>5. Grown(t, f)
    BY <2>2, <2>3, <2>4, ForgivingCallAppends
  <2> QED
    BY <2>2, <2>3, <2>5, GrowingClimbs
<1>6. ASSUME NEW conn \in Connections, DisconnectIgnored(t, s, conn)
      PROVE  Climbing'
  BY <1>6 DEF DisconnectIgnored, Climbing
<1> QED
  BY <1>2, <1>3, <1>4, <1>5, <1>6

LEMMA GoOnClimbs ==
  ASSUME IndInv, Climbing, NEW t \in Threads, IndInv', GoOn(t)
  PROVE  Climbing'
<1> DEFINE call == Last(calls[t])
<1>1. calls[t] # << >>
  BY DEF GoOn, Connect, Disconnect, DisconnectAll, EmitLock, SlotBegins, SlotReturns, SlotThrows, EmitReturns,
         Waits, Emitting
<1>2. call \in Frames
  BY <1>1, EmittingFrame
<1>3. CASE Connect(t) \/ Disconnect(t) \/ DisconnectAll(t) \/ EmitReturns(t)
  <2>1. Return(t)
    BY <1>3 DEF Connect, Disconnect, DisconnectAll, EmitReturns
  <2> QED
    BY <1>1, <2>1, ReturnEnds, EndingClimbs
<1>4. CASE EmitLock(t) \/ SlotReturns(t) \/ SlotThrows(t) \/ SlotBegins(t)
  <2>1. \E f : SetTop(t, f) /\ f.signal = call.signal
    <3>1. CASE EmitLock(t)
      <4>1. SetTop(t, [call EXCEPT !.index = 1]) /\ [call EXCEPT !.index = 1].signal = call.signal
        BY <1>2, <3>1 DEF EmitLock, Frames
      <4> QED
        BY <4>1
    <3>2. CASE SlotReturns(t) \/ SlotThrows(t)
      <4> DEFINE f == [call EXCEPT !.index = @ + 1, !.inside = FALSE]
      <4>1. SetTop(t, f)
        BY <3>2 DEF SlotReturns, SlotThrows
      <4>2. f.signal = call.signal
        BY <1>2 DEF Frames
      <4> QED
        BY <4>1, <4>2
    <3>3. CASE SlotBegins(t)
      <4>1. PICK j : SetTop(t, [call EXCEPT !.index = j, !.inside = TRUE,
                                            !.called = Append(@, slots[call.signal][j].id)])
        BY <3>3 DEF SlotBegins
      <4> DEFINE f == [call EXCEPT !.index = j, !.inside = TRUE,
                                   !.called = Append(@, slots[call.signal][j].id)]
      <4>2. f.signal = call.signal
        BY <1>2 DEF Frames
      <4> QED
        BY <4>1, <4>2
    <3> QED
      BY <1>4, <3>1, <3>2, <3>3
  <2> QED
    BY <1>1, <2>1, SetTopClimbs
<1> QED
  BY <1>3, <1>4 DEF GoOn

-----------------------------------------------------------------------------
LEMMA CallsClimb == Spec => []Climbing
<1>1. Init => Climbing
  BY DEF Init, Climbing
<1>2. IndInv /\ IndInv' /\ Climbing /\ [Next]_vars => Climbing'
  <2> SUFFICES ASSUME IndInv, IndInv', Climbing, [Next]_vars PROVE Climbing'
    OBVIOUS
  <2>1. CASE UNCHANGED vars
    BY <2>1 DEF vars, Climbing
  <2>2. CASE Next
    BY <2>2, CallClimbs, GoOnClimbs DEF Next
  <2> QED
    BY <2>1, <2>2
<1> QED
  BY <1>1, <1>2, Invariance, PTL DEF Spec

\* What holds of no least number holds of none.
LEMMA LeastOf ==
  ASSUME NEW T \in SUBSET Nat, T # {}
  PROVE  \E n \in T : \A m \in T : n <= m
<1> DEFINE Below == {ss \in Nat \X Nat : ss[1] < ss[2]}
<1>1. IsWellFoundedOn(Below, Nat)
  BY NatLessThanWellFounded, Zenon DEF OpToRel
<1> HIDE DEF Below
<1>2. PICK n \in T : \A m \in T : ~ (<<m, n>> \in Below)
  BY <1>1, WFMin
<1>3. \A m \in T : m \in Nat /\ n \in Nat /\ <<m, n>> \in Nat \X Nat
  BY <1>2
<1>4. \A m \in T : ~ (m < n)
  BY <1>2, <1>3 DEF Below
<1> QED
  BY <1>3, <1>4

\* Who cannot go on waits for the mutex of a signal that somebody emits.
LEMMA WhoWaits ==
  ASSUME IndInv, NEW t \in Threads, calls[t] # << >>, ~CanGoOn(t)
  PROVE  /\ Last(calls[t]).index = 0
         /\ \E u \in Threads : Emits(u, Last(calls[t]).signal)
<1> DEFINE call == Last(calls[t])
<1>1. call \in Frames /\ call = calls[t][Len(calls[t])] /\ Len(calls[t]) \in 1 .. Len(calls[t])
  BY EmittingFrame
<1>2. call.index \in Nat /\ call.op \in {"connect", "disconnect", "disconnectAll", "emit"} /\ call.signal \in Signals
  BY <1>1 DEF Frames
<1>3. call.index > 0 => call.op = "emit"
  BY <1>1 DEF IndInv, Stacked
<1>4. call.index = 0
  BY <1>2, <1>3 DEF CanGoOn, Emitting
<1>5. ~Free(call.signal)
  BY <1>2, <1>4 DEF CanGoOn, Waits
<1>6. mutex_[call.signal] \in Threads
  BY <1>2, <1>5 DEF Free, IndInv, TypeOK
<1>7. Emits(mutex_[call.signal], call.signal)
  BY <1>2, <1>6 DEF IndInv, TypeOK
<1> QED
  BY <1>4, <1>6, <1>7

LEMMA NoCycle ==
  ASSUME IndInv, Climbing
  PROVE  SomebodyGoesOn
<1> SUFFICES ASSUME \E t \in Threads : calls[t] # << >>, \A t \in Threads : ~CanGoOn(t)
             PROVE  FALSE
  BY DEF SomebodyGoesOn
<1> DEFINE Busy == {t \in Threads : calls[t] # << >>}
           Left(t) == Cardinality(Signals) - Rank[Last(calls[t]).signal]
<1>1. \A t \in Busy : /\ Left(t) \in Nat
                      /\ Rank[Last(calls[t]).signal] \in Nat /\ Cardinality(Signals) \in Nat
  <2> TAKE t \in Busy
  <2>1. Last(calls[t]).signal \in Signals
    BY EmittingFrame
  <2> QED
    BY <2>1, RankFacts
<1> DEFINE Numbers == {Left(t) : t \in Busy}
<1>2. Numbers \in SUBSET Nat /\ Numbers # {}
  BY <1>1
<1>3. PICK n \in Numbers : \A m \in Numbers : n <= m
  <2> HIDE DEF Numbers
  <2> QED
    BY <1>2, LeastOf
<1>4. PICK t \in Busy : \A v \in Busy : Left(t) <= Left(v)
  BY <1>3
<1>5. PICK u \in Threads : Emits(u, Last(calls[t]).signal)
  BY <1>4, WhoWaits
<1>6. PICK k \in DOMAIN calls[u] : calls[u][k].signal = Last(calls[t]).signal /\ calls[u][k].index > 0
  BY <1>5 DEF Emits
<1>7. Len(calls[u]) \in Nat /\ k \in 1 .. Len(calls[u]) /\ calls[u] # << >>
  BY <1>6, CallsAreFrames DEF IndInv
<1>8. /\ Len(calls[u]) \in 1 .. Len(calls[u]) /\ Last(calls[u]) = calls[u][Len(calls[u])]
      /\ Last(calls[u]).index = 0
  BY <1>7, EmittingFrame, WhoWaits
<1>9. k < Len(calls[u])
  <2>1. k # Len(calls[u])
    BY <1>6, <1>8
  <2> QED
    BY <1>7, <2>1
<1>10. Rank[Last(calls[t]).signal] < Rank[Last(calls[u]).signal]
  BY <1>6, <1>7, <1>8, <1>9 DEF Climbing
<1>11. u \in Busy
  BY <1>7
<1>12. Left(t) <= Left(u)
  BY <1>4, <1>11
<1> QED
  BY <1>1, <1>4, <1>10, <1>11, <1>12

\* While a call is under way some innermost call has its mutex or can have it, however
\* threads and slots nest: nobody waits in a circle (include/lwipc/signal_slot.hpp).
THEOREM NobodyWaitsInACircle == Spec => []SomebodyGoesOn
  BY Invariance, CallsClimb, NoCycle, PTL
=============================================================================
