---------------------------- MODULE PlayerProofs ----------------------------
(***************************************************************************)
(* Proofs about Player, for any number of commands and clicks: types, the  *)
(* silence of a component that is gone, that a refused load shows, and     *)
(* that a change of the user's is told from one of the page's.             *)
(***************************************************************************)
EXTENDS Player, SequenceTheorems, TLAPS

Report == [state : States, by : {"page", "user"}]

Typed == TypeOK /\ reports \in Seq(Report)

LEMMA TypedInit == Init => Typed
<1> SUFFICES ASSUME Init PROVE Typed
  OBVIOUS
<1>1. mounted \in BOOLEAN /\ timer \in BOOLEAN /\ (mounted <=> player # "none")
  BY DEF Init
<1>2. /\ player \in {"none", "loading", "ready"} /\ (timer => player = "ready")
      /\ expects \in {"none", "playing", "paused", "cued"} /\ known \in States
  BY DEF Init, States
<1>3. /\ orders \in Seq(Orders) /\ video \in [state : States, by : {"page", "user"}]
      /\ acts \in 0..MaxActs /\ reports \in Seq(Report)
  BY ActsAssumption DEF Init, States
<1> QED BY <1>1, <1>2, <1>3 DEF Typed, TypeOK

-----------------------------------------------------------------------------
(* What the iframe does keeps its state and its reports well typed.        *)

Reported == video' \in Report /\ reports' \in Seq(Report)

LEMMA BecomesTyped ==
    ASSUME Typed, NEW state \in States, NEW by \in {"page", "user"}, Becomes(state, by)
    PROVE  Reported
BY DEF Becomes, Typed, Report, Reported

LEMMA SameTyped ==
    ASSUME Typed, Same
    PROVE  Reported
BY DEF Same, Typed, TypeOK, Report, Reported

LEMMA ObeyTyped ==
    ASSUME Typed, Obey
    PROVE  orders' \in Seq(Orders) /\ Reported
<1>1. orders' \in Seq(Orders)
  BY DEF Obey, Typed, TypeOK
<1>2. Loads => Reported
  BY BecomesTyped DEF Loads, Starts, States
<1>3. Plays => Reported
  BY BecomesTyped, SameTyped DEF Plays, Starts, States
<1>4. Pauses => Reported
  BY BecomesTyped, SameTyped DEF Pauses, States
<1>5. Seeks => Reported
  BY BecomesTyped, SameTyped DEF Seeks, Starts, States
<1>6. Becomes("cued", "page") => Reported
  BY BecomesTyped DEF States
<1>7. Loads \/ Plays \/ Pauses \/ Seeks \/ Becomes("cued", "page")
  BY DEF Obey
<1>8. Reported
  BY <1>2, <1>3, <1>4, <1>5, <1>6, <1>7
<1> QED BY <1>1, <1>8

LEMMA TypedStep == Typed /\ [Next]_vars => Typed'
<1> SUFFICES ASSUME Typed, [Next]_vars PROVE Typed'
  OBVIOUS
<1> USE ActsAssumption
<1>1. CASE OnReady
  BY <1>1 DEF OnReady, Typed, TypeOK, iframe
<1>2. ASSUME NEW order \in Orders, Order(order)
      PROVE  Typed'
  <2>1. expects' \in {"none", "playing", "paused", "cued"}
    BY <1>2 DEF Order, Expectation, Orders, Typed, TypeOK
  <2>2. orders' \in Seq(Orders)
    BY <1>2 DEF Order, Typed, TypeOK
  <2>3. timer' \in BOOLEAN /\ player' = "ready" /\ mounted' = mounted
    BY <1>2 DEF Order
  <2>4. acts' \in 0..MaxActs
    BY <1>2 DEF Order, Typed, TypeOK
  <2>5. known' = known /\ video' = video /\ reports' = reports /\ player = "ready"
    BY <1>2 DEF Order
  <2> QED BY <2>1, <2>2, <2>3, <2>4, <2>5 DEF Typed, TypeOK
<1>3. CASE Lapse
  BY <1>3 DEF Lapse, Typed, TypeOK, iframe
<1>4. CASE OnStateChange
  <2>1. known' \in States /\ reports' \in Seq(Report)
    <3>1. reports # <<>> /\ known' = Head(reports).state /\ reports' = Tail(reports)
      BY <1>4 DEF OnStateChange
    <3>2. Head(reports) \in Report /\ Tail(reports) \in Seq(Report)
      BY <3>1, HeadTailProperties DEF Typed
    <3> QED BY <3>1, <3>2 DEF Report
  <2>2. expects' \in {"none", "playing", "paused", "cued"}
    BY <1>4 DEF OnStateChange, Typed, TypeOK
  <2>3. timer' \in BOOLEAN /\ player = "ready"
    BY <1>4 DEF OnStateChange, StopTimer
  <2>4. UNCHANGED <<mounted, player, orders, video, acts>>
    BY <1>4 DEF OnStateChange
  <2> QED BY <2>1, <2>2, <2>3, <2>4 DEF Typed, TypeOK
<1>5. CASE AutoplayTimer
  BY <1>5 DEF AutoplayTimer, Typed, TypeOK, iframe
<1>6. CASE Unmount
  <2>1. mounted' = FALSE /\ timer' = FALSE /\ player' = "none"
    BY <1>6 DEF Unmount
  <2>2. orders' = <<>> /\ reports' = <<>> /\ UNCHANGED <<expects, known, video, acts>>
    BY <1>6 DEF Unmount
  <2>3. orders' \in Seq(Orders) /\ reports' \in Seq(Report)
    BY <2>2
  <2> QED BY <2>1, <2>2, <2>3 DEF Typed, TypeOK
<1>7. CASE Obey
  <2>1. orders' \in Seq(Orders) /\ Reported
    BY <1>7, ObeyTyped
  <2>2. UNCHANGED <<component, acts>>
    BY <1>7 DEF Obey
  <2> QED BY <2>1, <2>2 DEF component, Typed, TypeOK, Reported, Report
<1>8. CASE BufferFull \/ Ends
  <2>1. Reported
    BY <1>8, BecomesTyped DEF BufferFull, Ends, States, Typed, TypeOK
  <2>2. UNCHANGED <<component, orders, acts>>
    BY <1>8 DEF BufferFull, Ends
  <2> QED BY <2>1, <2>2 DEF component, Typed, TypeOK, Reported, Report
<1>9. CASE Click
  <2>1. Reported
    BY <1>9, BecomesTyped DEF Click, States
  <2>2. UNCHANGED <<component, orders>> /\ acts' \in 0..MaxActs
    BY <1>9 DEF Click, Typed, TypeOK
  <2> QED BY <2>1, <2>2 DEF component, Typed, TypeOK, Reported, Report
<1>10. CASE UNCHANGED vars
  BY <1>10 DEF vars, component, iframe, Typed, TypeOK
<1> QED BY <1>1, <1>2, <1>3, <1>4, <1>5, <1>6, <1>7, <1>8, <1>9, <1>10 DEF Next

(* Every variable stays in its range, and a timer runs only in a player    *)
(* that is ready on a page.                                                *)
THEOREM TypeCorrect == Spec => []TypeOK
<1>1. Typed => TypeOK
  BY DEF Typed
<1> QED BY <1>1, TypedInit, TypedStep, PTL DEF Spec

-----------------------------------------------------------------------------
(* A component that is gone has neither a player nor a timer, and all      *)
(* calls to the page come from these.                                      *)
LEMMA SilentStep ==
    ASSUME Typed, Next, ~mounted'
    PROVE  told' = "none"
<1>1. CASE OnReady
  BY <1>1 DEF OnReady, Typed, TypeOK
<1>2. CASE OnStateChange
  BY <1>2 DEF OnStateChange, Typed, TypeOK
<1>3. CASE AutoplayTimer
  BY <1>3 DEF AutoplayTimer, Typed, TypeOK
<1>4. CASE (\E order \in Orders : Order(order)) \/ Lapse \/ Unmount
  BY <1>4 DEF Order, Lapse, Unmount
<1>5. CASE Obey \/ BufferFull \/ Ends \/ Click
  BY <1>5 DEF Obey, BufferFull, Ends, Click
<1> QED BY <1>1, <1>2, <1>3, <1>4, <1>5 DEF Next

(* A component that has left the page calls it no more.                    *)
THEOREM GoneIsSilentHolds == Spec => GoneIsSilent
<1>1. Typed /\ [Next]_vars => [~mounted' => told' = "none"]_vars
  BY SilentStep
<1> QED BY <1>1, TypedInit, TypedStep, PTL DEF Spec, GoneIsSilent

-----------------------------------------------------------------------------
(* Why a refusal shows.  As long as the browser lets nothing play, no      *)
(* report stops the timer, nor does the timer find the player playing; and *)
(* a load that is on its way has its timer running, or it has run out.     *)

Running == {"playing", "buffering"}

Barred ==
    ~allowed =>
        /\ known \notin Running /\ video.state \notin Running
        /\ \A i \in 1..Len(reports) : reports[i].state \notin Running

NewestIsLoad ==
    \E i \in 1..Len(orders) :
        orders[i] = "load" /\ \A j \in (i + 1)..Len(orders) : orders[j] \notin Anew

Awaited == NewestIsLoad /\ ~allowed /\ mounted => timer \/ shown

Noticed == Typed /\ Barred /\ Awaited /\ RefusalShows

LEMMA NoticedInit == Init => Noticed
BY TypedInit DEF Init, Noticed, Barred, Awaited, NewestIsLoad, RefusalShows, Running

LEMMA BecomesBarred ==
    ASSUME Typed, Barred, NEW state \in States, NEW by \in {"page", "user"},
           Becomes(state, by), known' = known, allowed' = allowed, state \notin Running
    PROVE  Barred'
<1>1. video'.state = state /\ reports' = Append(reports, [state |-> state, by |-> by])
  BY DEF Becomes
<1>2. reports \in Seq(Report) /\ [state |-> state, by |-> by] \in Report
  BY DEF Typed, Report
<1>3. ~allowed => \A i \in 1..Len(reports') : reports'[i].state \notin Running
  BY <1>1, <1>2 DEF Barred
<1> QED BY <1>1, <1>3 DEF Barred

(* An order that is taken from the queue leaves the newest load there, or  *)
(* was it.                                                                 *)
LEMMA TailIsLoad ==
    ASSUME Typed, orders # <<>>, orders' = Tail(orders), NewestIsLoad'
    PROVE  NewestIsLoad
<1>1. orders \in Seq(Orders)
  BY DEF Typed, TypeOK
<1>2. PICK i \in 1..Len(orders') :
        orders'[i] = "load" /\ \A j \in (i + 1)..Len(orders') : orders'[j] \notin Anew
  BY DEF NewestIsLoad
<1>3. Len(orders') = Len(orders) - 1 /\ \A k \in 1..Len(orders') : orders'[k] = orders[k + 1]
  BY <1>1
<1>4. i + 1 \in 1..Len(orders) /\ orders[i + 1] = "load"
  BY <1>1, <1>2, <1>3
<1>5. ASSUME NEW j \in (i + 2)..Len(orders) PROVE orders[j] \notin Anew
  <2>1. j - 1 \in (i + 1)..Len(orders') /\ orders'[j - 1] = orders[j]
    BY <1>1, <1>2, <1>3
  <2> QED BY <1>2, <2>1
<1> QED BY <1>4, <1>5 DEF NewestIsLoad

(* What an order that is carried out may do to the iframe's permission and *)
(* to the memory of a refusal.                                             *)
Refuses ==
    /\ Head(orders) = "load" /\ Becomes("unstarted", "page")
    /\ refused' = \A i \in DOMAIN orders' : orders'[i] \notin Anew

Leaves ==
    /\ UNCHANGED refused
    /\ Same \/ Becomes("paused", "page") \/ Becomes("cued", "page")

LEMMA ObeyChanges ==
    ASSUME Obey
    PROVE  allowed' = TRUE \/ (allowed' = allowed /\ (Refuses \/ Leaves))
<1>1. CASE Head(orders) = "load" /\ Loads
  BY <1>1 DEF Loads, Starts, Refuses
<1>2. CASE Plays
  BY <1>2 DEF Plays, Starts, Vain, Leaves
<1>3. CASE Pauses
  BY <1>3 DEF Pauses, Vain, Leaves
<1>4. CASE Seeks
  BY <1>4 DEF Seeks, Starts, Vain, Leaves
<1>5. CASE Becomes("cued", "page") /\ UNCHANGED <<allowed, refused, plain>>
  BY <1>5 DEF Leaves
<1>6. \/ Head(orders) = "load" /\ Loads
      \/ Plays \/ Pauses \/ Seeks
      \/ Becomes("cued", "page") /\ UNCHANGED <<allowed, refused, plain>>
  BY DEF Obey
<1> QED BY <1>1, <1>2, <1>3, <1>4, <1>5, <1>6

LEMMA SameBarred ==
    ASSUME Barred, known' = known, allowed' = allowed, video' = video, reports' = reports
    PROVE  Barred'
BY DEF Barred

LEMMA ObeyNotices ==
    ASSUME Noticed, Obey
    PROVE  Barred' /\ Awaited' /\ RefusalShows'
<1>1. /\ orders # <<>> /\ orders' = Tail(orders)
      /\ mounted' = mounted /\ timer' = timer /\ shown' = shown /\ known' = known
  BY DEF Obey, component
<1>2. CASE allowed' = TRUE
  BY <1>2 DEF Barred, Awaited, RefusalShows
<1>3. CASE allowed' = allowed /\ Leaves
  <2>1. Barred'
    BY <1>1, <1>3, SameBarred, BecomesBarred DEF Noticed, Leaves, Same, States, Running
  <2>2. Awaited'
    BY <1>1, <1>3, TailIsLoad DEF Noticed, Awaited
  <2>3. RefusalShows'
    BY <1>1, <1>3 DEF Noticed, RefusalShows, Leaves
  <2> QED BY <2>1, <2>2, <2>3
<1>4. CASE allowed' = allowed /\ Refuses
  <2>1. Barred'
    BY <1>1, <1>4, BecomesBarred DEF Noticed, Refuses, States, Running
  <2>2. Awaited'
    BY <1>1, <1>4, TailIsLoad DEF Noticed, Awaited
  <2>3. refused' => NewestIsLoad
    <3> SUFFICES ASSUME refused' PROVE NewestIsLoad
      OBVIOUS
    <3>1. orders \in Seq(Orders) /\ orders[1] = "load" /\ 1 \in 1..Len(orders)
      BY <1>1, <1>4 DEF Noticed, Typed, TypeOK, Refuses
    <3>2. ASSUME NEW j \in 2..Len(orders) PROVE orders[j] \notin Anew
      <4>1. j - 1 \in DOMAIN orders' /\ orders'[j - 1] = orders[j]
        BY <1>1, <3>1
      <4> QED BY <1>4, <4>1 DEF Refuses
    <3> QED BY <3>1, <3>2 DEF NewestIsLoad
  <2>4. RefusalShows'
    BY <1>1, <1>4, <2>3 DEF Noticed, Awaited, RefusalShows
  <2> QED BY <2>1, <2>2, <2>4
<1> QED BY <1>2, <1>3, <1>4, ObeyChanges

LEMMA OrderNotices ==
    ASSUME Noticed, NEW order \in Orders, Order(order)
    PROVE  Barred' /\ Awaited' /\ RefusalShows'
<1>1. /\ orders' = Append(orders, order) /\ orders \in Seq(Orders)
      /\ UNCHANGED <<mounted, known, video, reports, allowed>>
  BY DEF Order, Noticed, Typed, TypeOK
<1>2. Barred'
  BY <1>1, SameBarred DEF Noticed
<1>3. CASE order = "load"
  BY <1>2, <1>3 DEF Order, Anew, Awaited, RefusalShows
<1>4. CASE order = "cue"
  <2>1. ~NewestIsLoad'
    <3> SUFFICES ASSUME NewestIsLoad' PROVE FALSE
      OBVIOUS
    <3>1. PICK i \in 1..Len(orders') :
            /\ orders'[i] = "load"
            /\ \A j \in (i + 1)..Len(orders') : orders'[j] \notin Anew
      BY DEF NewestIsLoad
    <3>2. Len(orders') = Len(orders) + 1 /\ orders'[Len(orders) + 1] = "cue"
      BY <1>1, <1>4
    <3>3. i # Len(orders) + 1
      BY <3>1, <3>2
    <3>4. Len(orders) + 1 \in (i + 1)..Len(orders')
      BY <1>1, <3>2, <3>3
    <3> QED BY <3>1, <3>2, <3>4 DEF Anew
  <2>2. ~refused'
    BY <1>4 DEF Order, Anew
  <2> QED BY <1>2, <2>1, <2>2 DEF Awaited, RefusalShows
<1>5. CASE order \notin Anew
  <2>1. (timer' <=> timer) /\ (shown' <=> shown) /\ (refused' <=> refused)
    BY <1>5, Zenon DEF Order, Anew
  <2>2. NewestIsLoad' => NewestIsLoad
    <3> SUFFICES ASSUME NewestIsLoad' PROVE NewestIsLoad
      OBVIOUS
    <3>1. PICK i \in 1..Len(orders') :
            /\ orders'[i] = "load"
            /\ \A j \in (i + 1)..Len(orders') : orders'[j] \notin Anew
      BY DEF NewestIsLoad
    <3>2. /\ Len(orders') = Len(orders) + 1 /\ orders'[Len(orders) + 1] = order
          /\ \A k \in 1..Len(orders) : orders'[k] = orders[k]
      BY <1>1
    <3>3. i \in 1..Len(orders)
      BY <1>1, <1>5, <3>1, <3>2 DEF Anew
    <3> QED BY <3>1, <3>2, <3>3 DEF NewestIsLoad
  <2> QED BY <1>1, <1>2, <2>1, <2>2 DEF Noticed, Awaited, RefusalShows
<1> QED BY <1>3, <1>4, <1>5 DEF Anew

LEMMA NoticedStep == Noticed /\ [Next]_vars => Noticed'
<1> SUFFICES ASSUME Noticed, [Next]_vars PROVE Barred' /\ Awaited' /\ RefusalShows'
  BY TypedStep DEF Noticed
<1>1. ASSUME UNCHANGED <<mounted, known, iframe, refused, shown>>, timer' <=> timer
      PROVE  Barred' /\ Awaited' /\ RefusalShows'
  <2>1. UNCHANGED <<orders, video, reports, allowed>>
    BY <1>1 DEF iframe
  <2>2. Barred'
    BY <1>1, <2>1, SameBarred DEF Noticed
  <2>3. NewestIsLoad' <=> NewestIsLoad
    BY <2>1 DEF NewestIsLoad
  <2> QED BY <1>1, <2>1, <2>2, <2>3 DEF Noticed, Awaited, RefusalShows
<1>2. CASE OnReady \/ Lapse
  BY <1>1, <1>2 DEF OnReady, Lapse, history
<1>3. ASSUME NEW order \in Orders, Order(order)
      PROVE  Barred' /\ Awaited' /\ RefusalShows'
  BY <1>3, OrderNotices
<1>4. CASE OnStateChange
  <2>1. /\ reports # <<>> /\ known' = Head(reports).state /\ reports' = Tail(reports)
        /\ StopTimer(Head(reports).state)
        /\ UNCHANGED <<mounted, orders, video, allowed, refused, shown>>
    BY <1>4 DEF OnStateChange
  <2>2. reports \in Seq(Report)
    BY DEF Noticed, Typed
  <2>3. Barred'
    <3>1. /\ Head(reports) = reports[1] /\ 1 \in 1..Len(reports)
          /\ \A i \in 1..Len(reports') : i + 1 \in 1..Len(reports) /\ reports'[i] = reports[i + 1]
      BY <2>1, <2>2
    <3>2. ASSUME ~allowed PROVE \A i \in 1..Len(reports') : reports'[i].state \notin Running
      BY <3>1, <3>2 DEF Noticed, Barred
    <3>3. ASSUME ~allowed PROVE known' \notin Running /\ video'.state \notin Running
      BY <2>1, <3>1, <3>3 DEF Noticed, Barred
    <3>4. ~allowed' => ~allowed
      BY <2>1
    <3>5. CASE ~allowed
      BY <3>2, <3>3, <3>5 DEF Barred
    <3> QED BY <3>4, <3>5 DEF Barred
  <2>4. ~allowed => (timer' <=> timer)
    <3>1. ~allowed => Head(reports).state # "playing"
      BY <2>1, <2>2 DEF Noticed, Barred, Running
    <3> QED BY <2>1, <3>1, Zenon DEF StopTimer
  <2>5. NewestIsLoad' <=> NewestIsLoad
    BY <2>1 DEF NewestIsLoad
  <2> QED BY <2>1, <2>3, <2>4, <2>5 DEF Noticed, Awaited, RefusalShows
<1>5. CASE AutoplayTimer
  <2>1. UNCHANGED <<mounted, known, orders, video, reports, allowed, refused>>
    BY <1>5 DEF AutoplayTimer, iframe
  <2>2. ~allowed => shown'
    BY <1>5 DEF AutoplayTimer, Noticed, Barred, Running
  <2>3. Barred'
    BY <2>1, SameBarred DEF Noticed
  <2> QED BY <2>1, <2>2, <2>3 DEF Awaited, RefusalShows
<1>6. CASE Unmount
  <2>1. ~mounted' /\ reports' = <<>> /\ UNCHANGED <<known, video, allowed>>
    BY <1>6 DEF Unmount
  <2> QED BY <2>1 DEF Noticed, Barred, Awaited, RefusalShows
<1>7. CASE Obey
  BY <1>7, ObeyNotices
<1>8. CASE BufferFull \/ Ends
  <2>1. allowed /\ allowed'
    BY <1>8 DEF BufferFull, Ends, Noticed, Barred, Running
  <2> QED BY <2>1 DEF Barred, Awaited, RefusalShows
<1>9. CASE Click
  BY <1>9 DEF Click, Barred, Awaited, RefusalShows
<1>10. CASE UNCHANGED vars
  BY <1>1, <1>10 DEF vars, component, history
<1> QED BY <1>2, <1>3, <1>4, <1>5, <1>6, <1>7, <1>8, <1>9, <1>10 DEF Next

(* A load that the browser refuses is noticed.                             *)
THEOREM RefusalShowsHolds == Spec => []RefusalShows
<1>1. Noticed => RefusalShows
  BY DEF Noticed
<1> QED BY <1>1, NoticedInit, NoticedStep, PTL DEF Spec

-----------------------------------------------------------------------------
(* Why a change is put down to the right author.  As long as nothing       *)
(* blurs it there is one command or one click at a time: a command that    *)
(* has not reached the iframe is expected to change what it will change,   *)
(* and behind it no playing or paused is on its way; after it there is at  *)
(* most one of these, expected if the page has brought it about, and       *)
(* nothing is expected if the user has.                                    *)

Turning == {"playing", "paused"}

Latest ==
    IF reports = <<>> THEN known = video.state
                      ELSE reports[Len(reports)].state = video.state

Suits(order) ==
    /\ order # "seek" => expects = Expectation(order)
    /\ order = "seek" =>
         /\ expects \in {"none", "playing"}
         /\ video.state = "playing" => expects = "playing"
         /\ video.state = "paused" => expects = "none"

Ordered == orders # <<>> =>
    /\ Len(orders) = 1 /\ Suits(orders[1]) /\ video.state # "buffering"
    /\ \A i \in 1..Len(reports) : reports[i].state = "ended"

Owned(by, state) == expects = (IF by = "page" THEN state ELSE "none")

Buffers == video.state = "buffering" => Owned(video.by, "playing")

Turns == \A i \in 1..Len(reports) : reports[i].state \in Turning =>
    /\ Owned(reports[i].by, reports[i].state)
    /\ video.state # "buffering"
    /\ \A j \in 1..Len(reports) : reports[j].state \in Turning => j = i

Owes == expects # "none" /\ orders = <<>> =>
    video.state = "buffering" \/ \E i \in 1..Len(reports) : reports[i].state = expects

Clean == Ordered /\ Buffers /\ Turns /\ Owes

Traced == Typed /\ (mounted => Latest /\ (plain => Clean))

LEMMA TracedInit == Init => Traced
BY TypedInit DEF Init, Traced, Latest, Clean, Ordered, Buffers, Turns, Owes

(* With all quiet nothing is expected and the component is up to date.     *)
LEMMA CleanIsQuiet ==
    ASSUME Typed, Clean, Quiet, Latest
    PROVE  expects = "none" /\ known = video.state
BY DEF Quiet, Clean, Owes, Latest, Typed, TypeOK

LEMMA BecomesLatest ==
    ASSUME Typed, NEW state \in States, NEW by \in {"page", "user"}, Becomes(state, by)
    PROVE  /\ Len(reports') = Len(reports) + 1 /\ reports' # <<>>
           /\ reports'[Len(reports) + 1] = [state |-> state, by |-> by]
           /\ \A i \in 1..Len(reports) : reports'[i] = reports[i]
           /\ video' = [state |-> state, by |-> by]
           /\ Latest'
<1>1. reports \in Seq(Report) /\ [state |-> state, by |-> by] \in Report
  BY DEF Typed, Report
<1>2. reports' = Append(reports, [state |-> state, by |-> by]) /\ video' = [state |-> state, by |-> by]
  BY DEF Becomes
<1>3. /\ Len(reports') = Len(reports) + 1 /\ reports' # <<>>
      /\ reports'[Len(reports) + 1] = [state |-> state, by |-> by]
      /\ \A i \in 1..Len(reports) : reports'[i] = reports[i]
  BY <1>1, <1>2
<1> QED BY <1>2, <1>3 DEF Latest

(* Nothing on its way says that the iframe plays or is paused.             *)
Dull == \A i \in 1..Len(reports) : reports[i].state \notin Turning

(* A change of the iframe, all orders carried out, with what is expected.  *)
LEMMA BecomesClean ==
    ASSUME Typed, Dull, NEW state \in States, NEW by \in {"page", "user"}, Becomes(state, by),
           orders' = <<>>, expects' = expects,
           state = "buffering" => Owned(by, "playing"),
           state \in Turning => Owned(by, state),
           expects # "none" => state \in {"buffering", expects}
    PROVE  Clean'
<1>1. /\ Len(reports') = Len(reports) + 1
      /\ reports'[Len(reports) + 1] = [state |-> state, by |-> by]
      /\ \A i \in 1..Len(reports) : reports'[i] = reports[i]
      /\ video' = [state |-> state, by |-> by]
  BY BecomesLatest
<1>2. Len(reports) \in Nat
  BY DEF Typed
<1>3. \A i \in 1..Len(reports') : reports'[i].state \in Turning => i = Len(reports) + 1
  BY <1>1, <1>2 DEF Dull
<1>4. Turns'
  <2> SUFFICES ASSUME NEW i \in 1..Len(reports'), reports'[i].state \in Turning
               PROVE  /\ Owned(reports[i].by, reports[i].state)'
                      /\ video'.state # "buffering"
                      /\ \A j \in 1..Len(reports') : reports'[j].state \in Turning => j = i
    BY DEF Turns
  <2>1. i = Len(reports) + 1 /\ reports'[i] = [state |-> state, by |-> by] /\ state \in Turning
    BY <1>1, <1>3
  <2>2. expects' = (IF reports'[i].by = "page" THEN reports'[i].state ELSE "none")
    BY <2>1 DEF Owned
  <2> QED BY <1>1, <1>3, <2>1, <2>2 DEF Owned, Turning
<1>5. Owes'
  <2>1. Len(reports) + 1 \in 1..Len(reports')
    BY <1>1, <1>2
  <2> QED BY <1>1, <2>1 DEF Owes
<1>6. Ordered' /\ Buffers'
  BY <1>1 DEF Ordered, Buffers, Owned
<1> QED BY <1>4, <1>5, <1>6 DEF Clean

(* The end of a song says nothing of either.                               *)
LEMMA EndsClean ==
    ASSUME Typed, Clean, Ends
    PROVE  Clean'
<1>1. /\ video.state = "playing" /\ Becomes("ended", video.by) /\ video.by \in {"page", "user"}
      /\ orders' = orders /\ expects' = expects /\ known' = known
  BY DEF Ends, component, Typed, TypeOK
<1>2. /\ Len(reports') = Len(reports) + 1
      /\ reports'[Len(reports) + 1] = [state |-> "ended", by |-> video.by]
      /\ \A i \in 1..Len(reports) : reports'[i] = reports[i]
      /\ video' = [state |-> "ended", by |-> video.by]
  BY <1>1, BecomesLatest DEF States
<1>3. Len(reports) \in Nat
  BY DEF Typed
<1>4. Ordered'
  <2> SUFFICES ASSUME orders # <<>> PROVE Ordered'
    BY <1>1 DEF Ordered
  <2>1. Suits(orders[1]) /\ Len(orders) = 1
    BY DEF Clean, Ordered
  <2>2. Suits(orders[1])'
    BY <1>1, <1>2, <2>1 DEF Suits, Expectation
  <2>3. \A i \in 1..Len(reports') : reports'[i].state = "ended"
    BY <1>2, <1>3 DEF Clean, Ordered
  <2> QED BY <1>1, <1>2, <2>1, <2>2, <2>3 DEF Ordered
<1>5. Turns'
  <2> SUFFICES ASSUME NEW i \in 1..Len(reports'), reports'[i].state \in Turning
               PROVE  /\ Owned(reports[i].by, reports[i].state)'
                      /\ video'.state # "buffering"
                      /\ \A j \in 1..Len(reports') : reports'[j].state \in Turning => j = i
    BY DEF Turns
  <2>1. \A j \in 1..Len(reports') :
          reports'[j].state \in Turning => j \in 1..Len(reports) /\ reports'[j] = reports[j]
    BY <1>2, <1>3 DEF Turning
  <2>2. i \in 1..Len(reports) /\ reports'[i] = reports[i] /\ reports[i].state \in Turning
    BY <2>1
  <2>3. /\ Owned(reports[i].by, reports[i].state)
        /\ \A j \in 1..Len(reports) : reports[j].state \in Turning => j = i
    BY <2>2 DEF Clean, Turns
  <2>4. \A j \in 1..Len(reports') : reports'[j].state \in Turning => j = i
    BY <2>1, <2>3
  <2> QED BY <1>1, <1>2, <2>2, <2>3, <2>4 DEF Owned
<1>6. Owes'
  <2> SUFFICES ASSUME expects # "none", orders = <<>>
               PROVE  \E i \in 1..Len(reports') : reports'[i].state = expects'
    BY <1>1 DEF Owes
  <2>1. PICK i \in 1..Len(reports) : reports[i].state = expects
    BY <1>1 DEF Clean, Owes
  <2> QED BY <1>1, <1>2, <1>3, <2>1
<1>7. Buffers'
  BY <1>2 DEF Buffers
<1> QED BY <1>4, <1>5, <1>6, <1>7 DEF Clean

(* The component hears of a change.                                        *)
LEMMA HearsClean ==
    ASSUME Traced, mounted, plain, OnStateChange
    PROVE  Clean'
<1>1. /\ reports # <<>> /\ known' = Head(reports).state /\ reports' = Tail(reports)
      /\ expects' = IF Head(reports).state = expects THEN "none" ELSE expects
      /\ UNCHANGED <<orders, video>>
  BY DEF OnStateChange
<1>2. reports \in Seq(Report) /\ Clean
  BY DEF Traced, Typed
<1>3. /\ Head(reports) = reports[1] /\ 1 \in 1..Len(reports)
      /\ Len(reports') = Len(reports) - 1
      /\ \A i \in 1..Len(reports') : i + 1 \in 1..Len(reports) /\ reports'[i] = reports[i + 1]
      /\ \A i \in 1..Len(reports) : i # 1 => i - 1 \in 1..Len(reports') /\ reports'[i - 1] = reports[i]
  BY <1>1, <1>2
<1>4. Len(reports) \in Nat /\ Len(reports') \in Nat
  BY <1>1, <1>2, HeadTailProperties
<1>5. expects \in {"none", "playing", "paused", "cued"}
  BY DEF Traced, Typed, TypeOK
<1>6. Ordered'
  <2> SUFFICES ASSUME orders # <<>> PROVE Ordered'
    BY <1>1 DEF Ordered
  <2>1. /\ Len(orders) = 1 /\ Suits(orders[1]) /\ video.state # "buffering"
        /\ \A i \in 1..Len(reports) : reports[i].state = "ended"
    BY <1>2 DEF Clean, Ordered
  <2>2. expects' = expects
    BY <1>1, <1>3, <1>5, <2>1
  <2>3. Expectation(orders[1])' = Expectation(orders[1]) \/ orders[1] = "seek"
    BY <1>1 DEF Expectation
  <2>4. Suits(orders[1])'
    BY <1>1, <2>1, <2>2, <2>3 DEF Suits
  <2>5. \A i \in 1..Len(reports') : reports'[i].state = "ended"
    BY <1>3, <2>1
  <2> QED BY <1>1, <2>1, <2>4, <2>5 DEF Ordered
<1>7. \A i \in 1..Len(reports') : reports'[i].state \in Turning =>
        /\ Owned(reports[i + 1].by, reports[i + 1].state) /\ video.state # "buffering"
        /\ \A j \in 1..Len(reports') : reports'[j].state \in Turning => j = i
        /\ Head(reports).state \notin Turning
  <2> SUFFICES ASSUME NEW i \in 1..Len(reports'), reports'[i].state \in Turning
               PROVE  /\ Owned(reports[i + 1].by, reports[i + 1].state)
                      /\ video.state # "buffering"
                      /\ \A j \in 1..Len(reports') : reports'[j].state \in Turning => j = i
                      /\ Head(reports).state \notin Turning
    OBVIOUS
  <2>1. i + 1 \in 1..Len(reports) /\ reports[i + 1].state \in Turning
    BY <1>3
  <2>2. /\ Owned(reports[i + 1].by, reports[i + 1].state) /\ video.state # "buffering"
        /\ \A j \in 1..Len(reports) : reports[j].state \in Turning => j = i + 1
    BY <1>2, <2>1 DEF Clean, Turns
  <2>3. \A j \in 1..Len(reports') : reports'[j].state \in Turning => j = i
    BY <1>3, <1>4, <2>2
  <2>4. Head(reports).state \notin Turning
    BY <1>3, <1>4, <2>2
  <2> QED BY <2>2, <2>3, <2>4
<1>8. Turns'
  <2> SUFFICES ASSUME NEW i \in 1..Len(reports'), reports'[i].state \in Turning
               PROVE  Owned(reports[i].by, reports[i].state)'
    BY <1>1, <1>7 DEF Turns
  <2>1. reports'[i] = reports[i + 1] /\ Head(reports).state \notin Turning
    BY <1>3, <1>7
  <2>2. expects = (IF reports'[i].by = "page" THEN reports'[i].state ELSE "none")
    BY <1>7, <2>1 DEF Owned
  <2>3. expects' = expects
    BY <1>1, <2>1, <2>2 DEF Turning
  <2> QED BY <2>2, <2>3 DEF Owned
<1>9. Buffers'
  <2> SUFFICES ASSUME video.state = "buffering" PROVE Owned(video.by, "playing")'
    BY <1>1 DEF Buffers
  <2>1. expects = (IF video.by = "page" THEN "playing" ELSE "none")
    BY <1>2 DEF Clean, Buffers, Owned
  <2>2. Head(reports).state # "playing"
    BY <1>2, <1>3 DEF Clean, Turns, Turning
  <2>3. expects' = expects
    BY <1>1, <2>1, <2>2
  <2> QED BY <1>1, <2>1, <2>3 DEF Owned
<1>10. Owes'
  <2> SUFFICES ASSUME expects' # "none", orders' = <<>>, video'.state # "buffering"
               PROVE  \E i \in 1..Len(reports') : reports'[i].state = expects'
    BY DEF Owes
  <2>1. expects' = expects /\ Head(reports).state # expects
    BY <1>1
  <2>2. PICK i \in 1..Len(reports) : reports[i].state = expects
    BY <1>1, <1>2, <2>1 DEF Clean, Owes
  <2>3. i # 1
    BY <1>3, <2>1, <2>2
  <2> QED BY <1>3, <2>1, <2>2, <2>3
<1> QED BY <1>6, <1>8, <1>9, <1>10 DEF Clean

LEMMA TailEnds ==
    ASSUME NEW S, NEW s \in Seq(S), s # <<>>
    PROVE  /\ Tail(s) = <<>> => s[Len(s)] = Head(s)
           /\ Tail(s) # <<>> => Tail(s)[Len(Tail(s))] = s[Len(s)]
<1> DEFINE tail == Tail(s)
<1>1. Len(s) \in Nat \ {0} /\ Head(s) = s[1]
  BY EmptySeq
<1>2. /\ Len(tail) = Len(s) - 1 /\ tail \in Seq(S)
      /\ \A i \in 1..Len(tail) : tail[i] = s[i + 1]
  BY HeadTailProperties
<1>3. (tail = <<>> => Len(tail) = 0) /\ (tail # <<>> => Len(tail) \in Nat \ {0})
  BY <1>2, EmptySeq
<1> HIDE DEF tail
<1>4. CASE tail = <<>>
  <2>1. Len(s) = 1
    BY <1>1, <1>2, <1>3, <1>4
  <2> QED BY <1>1, <1>4, <2>1 DEF tail
<1>5. CASE tail # <<>>
  <2>1. Len(tail) \in 1..Len(tail) /\ Len(tail) + 1 = Len(s)
    BY <1>1, <1>2, <1>3, <1>5
  <2>2. tail[Len(tail)] = s[Len(s)]
    BY <1>2, <2>1
  <2> QED BY <1>5, <2>2 DEF tail
<1> QED BY <1>4, <1>5

LEMMA HearsLatest ==
    ASSUME Typed, Latest, OnStateChange
    PROVE  Latest'
<1>1. /\ reports # <<>> /\ known' = Head(reports).state /\ reports' = Tail(reports)
      /\ video' = video
  BY DEF OnStateChange
<1>2. reports \in Seq(Report) /\ reports[Len(reports)].state = video.state
  BY <1>1 DEF Typed, Latest
<1>3. /\ reports' = <<>> => reports[Len(reports)] = Head(reports)
      /\ reports' # <<>> => reports'[Len(reports')] = reports[Len(reports)]
  BY <1>1, <1>2, TailEnds
<1> QED BY <1>1, <1>2, <1>3 DEF Latest

(* An order is given with all quiet, and is all there is.                  *)
LEMMA OrderClean ==
    ASSUME Traced, mounted, NEW order \in Orders, Order(order), plain'
    PROVE  Clean'
<1>1. /\ plain /\ Quiet /\ expects' = Expectation(order) /\ orders' = Append(orders, order)
      /\ UNCHANGED <<known, video, reports>>
  BY DEF Order
<1>2. expects = "none" /\ known = video.state
  BY <1>1, CleanIsQuiet DEF Traced
<1>3. orders' = <<order>> /\ reports' = <<>> /\ video'.state # "buffering"
  BY <1>1 DEF Quiet
<1>4. Expectation(order)' = Expectation(order) \/ order = "seek"
  BY <1>1 DEF Expectation
<1>5. order = "seek" => expects' = (IF video.state = "playing" THEN "playing" ELSE "none")
  BY <1>1, <1>2 DEF Expectation
<1>6. Suits(order)'
  BY <1>1, <1>4, <1>5 DEF Suits
<1>7. Len(orders') = 1 /\ orders'[1] = order /\ orders' # <<>> /\ Len(reports') = 0
  BY <1>3
<1>8. Ordered'
  BY <1>3, <1>6, <1>7 DEF Ordered
<1> QED BY <1>3, <1>7, <1>8 DEF Clean, Buffers, Turns, Owes

(* An order is carried out: there was no other, and it does what has been  *)
(* expected of it or blurs the matter.                                     *)
LEMMA ObeyClean ==
    ASSUME Traced, mounted, plain, Obey, plain'
    PROVE  Clean'
<1> DEFINE order == Head(orders)
<1>1. /\ Typed /\ Clean /\ orders # <<>> /\ orders \in Seq(Orders) /\ expects' = expects
      /\ orders' = Tail(orders)
  BY DEF Obey, component, Traced, Typed, TypeOK
<1>2. /\ Len(orders) = 1 /\ Suits(orders[1]) /\ video.state # "buffering"
      /\ \A i \in 1..Len(reports) : reports[i].state = "ended"
  BY <1>1 DEF Clean, Ordered
<1>3. orders' = <<>> /\ order = orders[1] /\ Suits(order)
  BY <1>1, <1>2
<1>4. Dull
  BY <1>2 DEF Dull, Turning
<1> HIDE DEF order
<1>5. ASSUME NEW state \in {"buffering", "paused", "cued"}, Becomes(state, "page"),
             expects = IF state = "buffering" THEN "playing" ELSE state
      PROVE  Clean'
  <2>1. /\ state = "buffering" => Owned("page", "playing")
        /\ state \in Turning => Owned("page", state)
        /\ expects # "none" => state \in {"buffering", expects}
    BY <1>5 DEF Owned, Turning
  <2> QED BY <1>1, <1>3, <1>4, <1>5, <2>1, BecomesClean DEF States
<1>6. CASE order = "load" /\ Loads
  <2>1. expects = "playing" /\ Becomes("buffering", "page")
    BY <1>3, <1>6 DEF Suits, Expectation, Loads, Starts
  <2> QED BY <1>5, <2>1
<1>7. CASE order = "cue" /\ Becomes("cued", "page")
  BY <1>3, <1>5, <1>7 DEF Suits, Expectation
<1>8. CASE order \in {"play", "seekPlay"} /\ Plays
  <2>1. expects = "playing" /\ Becomes("buffering", "page")
    BY <1>3, <1>8 DEF Suits, Expectation, Plays, Starts, Vain
  <2> QED BY <1>5, <2>1
<1>9. CASE order \in {"pause", "seekPause"} /\ Pauses
  <2>1. expects = "paused" /\ Becomes("paused", "page")
    BY <1>3, <1>9 DEF Suits, Expectation, Pauses, Vain
  <2> QED BY <1>5, <2>1
<1>10. CASE order \in {"seek", "seekPlay"} /\ Seeks /\ (order = "seekPlay" => video.state = "playing")
  <2>1. CASE video.state = "playing"
    <3>1. expects = "playing" /\ Becomes("buffering", "page")
      BY <1>3, <1>10, <2>1 DEF Suits, Expectation, Seeks, Starts
    <3> QED BY <1>5, <3>1
  <2>2. CASE video.state # "playing"
    <3>1. video.state = "paused" /\ Same
      BY <1>2, <1>10, <2>2 DEF Seeks, Vain
    <3>2. expects' = "none" /\ reports' = reports /\ video' = video
      BY <1>1, <1>3, <1>10, <2>2, <3>1 DEF Suits, Same
    <3>3. Turns'
      BY <1>4, <3>2 DEF Dull, Turns
    <3> QED BY <1>3, <3>1, <3>2, <3>3 DEF Clean, Ordered, Buffers, Owes
  <2> QED BY <2>1, <2>2
<1>11. \/ order = "load" /\ Loads
       \/ order = "cue" /\ Becomes("cued", "page")
       \/ order \in {"play", "seekPlay"} /\ Plays
       \/ order \in {"pause", "seekPause"} /\ Pauses
       \/ order \in {"seek", "seekPlay"} /\ Seeks /\ (order = "seekPlay" => video.state = "playing")
  BY DEF Obey, order
<1> QED BY <1>6, <1>7, <1>8, <1>9, <1>10, <1>11

LEMMA ObeyLatest ==
    ASSUME Typed, Latest, Obey
    PROVE  Latest'
<1>1. Same => Latest'
  BY DEF Same, Latest, Obey, component
<1>2. \A state \in States : Becomes(state, "page") => Latest'
  BY BecomesLatest
<1>3. Loads \/ Plays \/ Pauses \/ Seeks \/ Becomes("cued", "page")
  BY DEF Obey
<1>4. Same \/ \E state \in States : Becomes(state, "page")
  BY <1>3 DEF Loads, Plays, Pauses, Seeks, Starts, States
<1> QED BY <1>1, <1>2, <1>4

LEMMA BufferFullClean ==
    ASSUME Typed, Clean, BufferFull
    PROVE  Clean'
<1>1. /\ video.state = "buffering" /\ Becomes("playing", video.by) /\ video.by \in {"page", "user"}
      /\ orders' = orders /\ expects' = expects
  BY DEF BufferFull, component, Typed, TypeOK
<1>2. orders = <<>>
  BY <1>1 DEF Clean, Ordered
<1>3. Dull
  BY <1>1 DEF Clean, Turns, Dull
<1>4. Owned(video.by, "playing")
  BY <1>1 DEF Clean, Buffers
<1>5. expects \in {"none", "playing"}
  BY <1>4 DEF Owned
<1> QED BY <1>1, <1>2, <1>3, <1>4, <1>5, BecomesClean DEF States

LEMMA ClickClean ==
    ASSUME Traced, mounted, Click, plain'
    PROVE  Clean'
<1>1. plain /\ Quiet /\ orders' = orders /\ expects' = expects
  BY DEF Click, component
<1>2. PICK state \in {"paused", "buffering"} : Becomes(state, "user")
  BY DEF Click
<1>3. expects = "none" /\ Typed
  BY <1>1, CleanIsQuiet DEF Traced
<1>4. orders = <<>> /\ Dull
  BY <1>1 DEF Quiet, Dull
<1>5. Owned("user", "playing") /\ Owned("user", state)
  BY <1>3 DEF Owned
<1> QED BY <1>1, <1>2, <1>3, <1>4, <1>5, BecomesClean DEF States

LEMMA TracedStep == Traced /\ [Next]_vars => Traced'
<1> SUFFICES ASSUME Traced, [Next]_vars, mounted' PROVE Latest' /\ (plain' => Clean')
  BY TypedStep DEF Traced
<1>1. ASSUME UNCHANGED <<mounted, expects, known, orders, video, reports, plain>>
      PROVE  Latest' /\ (plain' => Clean')
  <2>1. Latest'
    BY <1>1 DEF Traced, Latest
  <2>2. Clean' <=> Clean
    <3>1. Suits(orders[1])' <=> Suits(orders[1])
      BY <1>1 DEF Suits, Expectation
    <3>2. Ordered' <=> Ordered
      BY <1>1, <3>1 DEF Ordered
    <3>3. Buffers' <=> Buffers
      BY <1>1 DEF Buffers, Owned
    <3>4. Turns' <=> Turns
      BY <1>1 DEF Turns, Owned
    <3>5. Owes' <=> Owes
      BY <1>1 DEF Owes
    <3> QED BY <3>2, <3>3, <3>4, <3>5 DEF Clean
  <2> QED BY <1>1, <2>1, <2>2 DEF Traced
<1>2. CASE OnReady
  BY <1>1, <1>2 DEF OnReady, iframe, history
<1>3. ASSUME NEW order \in Orders, Order(order)
      PROVE  Latest' /\ (plain' => Clean')
  <2>1. mounted /\ UNCHANGED <<known, video, reports>>
    BY <1>3 DEF Order
  <2>2. Latest'
    BY <2>1 DEF Traced, Latest
  <2> QED BY <1>3, <2>1, <2>2, OrderClean
<1>4. CASE Lapse
  <2>1. mounted /\ UNCHANGED <<known, orders, video, reports>> /\ expects' = "none" /\ plain' = Quiet
    BY <1>4 DEF Lapse, iframe
  <2>2. Latest'
    BY <2>1 DEF Traced, Latest
  <2>3. Quiet' <=> Quiet
    BY <2>1 DEF Quiet
  <2>4. Quiet' => Clean'
    BY <2>1 DEF Quiet, Clean, Ordered, Buffers, Turns, Owes
  <2> QED BY <2>1, <2>2, <2>3, <2>4
<1>5. CASE OnStateChange
  <2>1. mounted /\ Typed
    BY <1>5 DEF OnStateChange, Traced
  <2>2. Latest'
    BY <1>5, <2>1, HearsLatest DEF Traced
  <2>3. plain' => plain \/ (Quiet' /\ expects' = "none")
    BY <1>5 DEF OnStateChange, Clear
  <2>4. Quiet' /\ expects' = "none" => Clean'
    BY DEF Quiet, Clean, Ordered, Buffers, Turns, Owes
  <2> QED BY <1>5, <2>1, <2>2, <2>3, <2>4, HearsClean
<1>6. CASE AutoplayTimer
  BY <1>1, <1>6 DEF AutoplayTimer, iframe
<1>7. CASE Unmount
  BY <1>7 DEF Unmount
<1>8. CASE Obey
  <2>1. mounted /\ Typed /\ (plain' => plain)
    <3>1. mounted /\ Typed
      BY <1>8 DEF Obey, component, Traced
    <3>2. Loads \/ Plays \/ Pauses \/ Seeks \/ UNCHANGED plain
      BY <1>8 DEF Obey
    <3>3. plain' = plain \/ plain' = FALSE
      BY <3>2 DEF Loads, Plays, Pauses, Seeks, Starts, Vain
    <3> QED BY <3>1, <3>3
  <2> QED BY <1>8, <2>1, ObeyLatest, ObeyClean DEF Traced
<1>9. CASE BufferFull \/ Ends
  <2>1. /\ mounted /\ Typed /\ plain' = plain
        /\ \E state \in States : Becomes(state, video.by)
    BY <1>9 DEF BufferFull, Ends, component, history, Traced, States
  <2>2. video.by \in {"page", "user"}
    BY <2>1 DEF Typed, TypeOK
  <2> QED BY <1>9, <2>1, <2>2, BecomesLatest, BufferFullClean, EndsClean DEF Traced
<1>10. CASE Click
  <2>1. mounted /\ Typed /\ \E state \in States : Becomes(state, "user")
    BY <1>10 DEF Click, component, Traced, States
  <2> QED BY <1>10, <2>1, BecomesLatest, ClickClean
<1>11. CASE UNCHANGED vars
  BY <1>1, <1>11 DEF vars, component, iframe, history
<1> QED BY <1>2, <1>3, <1>4, <1>5, <1>6, <1>7, <1>8, <1>9, <1>10, <1>11 DEF Next

LEMMA TellsApart ==
    ASSUME Traced, plain, OnStateChange, Head(reports).state \in {"playing", "paused"}
    PROVE  told' # "none" <=> Head(reports).by = "user"
<1>1. /\ reports # <<>> /\ told' = Callback(Head(reports).state) /\ player = "ready"
      /\ reports \in Seq(Report) /\ mounted
  BY DEF OnStateChange, Traced, Typed, TypeOK
<1>2. Head(reports) = reports[1] /\ 1 \in 1..Len(reports) /\ reports[1] \in Report
  BY <1>1
<1>3. Owned(Head(reports).by, Head(reports).state)
  BY <1>1, <1>2 DEF Traced, Clean, Turns, Turning
<1>4. Head(reports).by \in {"page", "user"}
  BY <1>2 DEF Report
<1> QED BY <1>1, <1>3, <1>4 DEF Callback, Owned

(* A change is announced as the user's if and only if it is, when commands *)
(* and clicks do not overlap and have their effect in time.                *)
THEOREM DistinguishesHolds == Spec => Distinguishes
<1>1. Traced /\ [Next]_vars =>
        [plain /\ OnStateChange /\ Head(reports).state \in {"playing", "paused"}
           => (told' # "none" <=> Head(reports).by = "user")]_vars
  BY TellsApart
<1> QED BY <1>1, TracedInit, TracedStep, PTL DEF Spec, Distinguishes

=============================================================================
