-------------------------------- MODULE Feed --------------------------------
(***************************************************************************)
(* The event feed of event/feed.go: Send, Subscribe and Unsubscribe over   *)
(* the channels sendLock and removeSub, the inbox and the case list.       *)
(*                                                                         *)
(* A subscription is identified with its channel.  sendCases leaves out    *)
(* the case of removeSub, which the code keeps at index 0, so its indices  *)
(* here start at firstSubSendCase = 1 as they do there; `cases' is always  *)
(* a prefix of sendCases and is given by its length, active.  Which        *)
(* goroutine sends does not matter, only that one of them holds sendLock,  *)
(* so the state of Send is one program counter.  The value sent is its     *)
(* position in the order in which Sends collect the inbox.                 *)
(***************************************************************************)
EXTENDS Naturals, Sequences, SequencesExt

CONSTANTS
  Subs,          \* subscriptions, each with a channel of its own
  Buffer,        \* capacity of a subscriber's channel
  MaxSends       \* bound of the model on the number of Sends

\* What Feed assumes of its parameters; the theorems have it as a hypothesis.
FeedAssumption ==
  Buffer \in Nat \ {0} /\ MaxSends \in Nat

VARIABLES
  inbox,         \* Feed.inbox
  sendCases,     \* Feed.sendCases
  active,        \* length of Send's local `cases'
  index,         \* Send's loop variable i
  send,          \* "idle" (sendLock is free), "locked", "trying", "selecting"
  sub,           \* per subscription "new", "on", "removing" or "off"
  queued,        \* number of values in a channel's buffer
  sent,          \* history: Sends that collected the inbox
  since,         \* history: sent when the subscription was made
  delivered      \* history: the values put into a channel

feedVars == <<inbox, sendCases, active, index, send>>
vars == <<feedVars, sub, queued, sent, since, delivered>>

Init ==
  /\ inbox = <<>> /\ sendCases = <<>>
  /\ active = 0 /\ index = 1 /\ send = "idle"
  /\ sub = [s \in Subs |-> "new"]
  /\ queued = [s \in Subs |-> 0]
  /\ sent = 0
  /\ since = [s \in Subs |-> 0]
  /\ delivered = [s \in Subs |-> <<>>]

-----------------------------------------------------------------------------
(* caseList. *)

\* caseList.find, 0 in place of -1.
Find(cases, s) == SelectInSeq(cases, LAMBDA c : c = s)

\* caseList.deactivate: the case at i changes places with the last active one.
Deactivate(cases, n, i) ==
  [cases EXCEPT ![i] = cases[n], ![n] = cases[i]]

\* What becomes of `cases' when Send deletes the case at i.
Shrunk(n, i) == IF i <= n THEN n - 1 ELSE n

-----------------------------------------------------------------------------
(* Subscriptions. *)

Subscribe(s) ==
  /\ sub[s] = "new"
  /\ sub' = [sub EXCEPT ![s] = "on"]
  /\ inbox' = Append(inbox, s)
  /\ since' = [since EXCEPT ![s] = sent]
  /\ UNCHANGED <<sendCases, active, index, send, queued, sent, delivered>>

\* Unsubscribe under f.mu: the channel is still in the inbox, or it is not.
RemoveFromInbox(s) ==
  /\ sub[s] = "on"
  /\ LET i == Find(inbox, s) IN
       IF i # 0
       THEN /\ inbox' = RemoveAt(inbox, i)
            /\ sub' = [sub EXCEPT ![s] = "off"]
       ELSE /\ sub' = [sub EXCEPT ![s] = "removing"]
            /\ UNCHANGED inbox
  /\ UNCHANGED <<sendCases, active, index, send, queued, sent, since, delivered>>

\* remove's select took sendLock: no Send is in progress.
RemoveLocked(s) ==
  /\ sub[s] = "removing"
  /\ send = "idle"
  /\ sendCases' = RemoveAt(sendCases, Find(sendCases, s))
  /\ sub' = [sub EXCEPT ![s] = "off"]
  /\ UNCHANGED <<inbox, active, index, send, queued, sent, since, delivered>>

\* remove's select handed the channel to the Send that waits in its own select.
RemoveBySend(s) ==
  /\ sub[s] = "removing"
  /\ send = "selecting"
  /\ LET i == Find(sendCases, s) IN
       /\ sendCases' = RemoveAt(sendCases, i)
       /\ active' = Shrunk(active, i)
  /\ send' = "trying" /\ index' = 1
  /\ sub' = [sub EXCEPT ![s] = "off"]
  /\ UNCHANGED <<inbox, queued, sent, since, delivered>>

\* The subscriber takes a value from its channel.
Receive(s) ==
  /\ queued[s] > 0
  /\ queued' = [queued EXCEPT ![s] = @ - 1]
  /\ UNCHANGED <<feedVars, sub, sent, since, delivered>>

-----------------------------------------------------------------------------
(* Send. *)

SendLock ==
  /\ send = "idle"
  /\ sent < MaxSends
  /\ send' = "locked"
  /\ UNCHANGED <<inbox, sendCases, active, index, sub, queued, sent, since,
                 delivered>>

SendCollect ==
  /\ send = "locked"
  /\ sendCases' = sendCases \o inbox
  /\ inbox' = <<>>
  /\ active' = Len(sendCases')
  /\ send' = "trying" /\ index' = 1
  /\ sent' = sent + 1
  /\ UNCHANGED <<sub, queued, since, delivered>>

\* The value goes into the channel of the active case i.
Deliver(i) ==
  LET s == sendCases[i] IN
    /\ queued[s] < Buffer
    /\ queued' = [queued EXCEPT ![s] = @ + 1]
    /\ delivered' = [delivered EXCEPT ![s] = Append(@, sent)]
    /\ sendCases' = Deactivate(sendCases, active, i)
    /\ active' = active - 1

\* One turn of the loop of TrySends; after the last one Send ends or selects.
TrySend ==
  /\ send = "trying"
  /\ index <= active
  /\ \/ Deliver(index) /\ UNCHANGED index
     \/ /\ queued[sendCases[index]] = Buffer
        /\ index' = index + 1
        /\ UNCHANGED <<sendCases, active, queued, delivered>>
  /\ UNCHANGED <<inbox, send, sub, sent, since>>

TriedAll ==
  /\ send = "trying"
  /\ index > active
  /\ send' = IF active = 0 THEN "idle" ELSE "selecting"
  /\ UNCHANGED <<inbox, sendCases, active, index, sub, queued, sent, since,
                 delivered>>

SelectSend ==
  /\ send = "selecting"
  /\ \E i \in 1 .. active : Deliver(i)
  /\ send' = "trying" /\ index' = 1
  /\ UNCHANGED <<inbox, sub, sent, since>>

-----------------------------------------------------------------------------
Sending == SendCollect \/ TrySend \/ TriedAll \/ SelectSend
Removing(s) == RemoveLocked(s) \/ RemoveBySend(s)

Next ==
  \/ SendLock
  \/ Sending
  \/ \E s \in Subs :
       Subscribe(s) \/ RemoveFromInbox(s) \/ Removing(s) \/ Receive(s)

\* The goroutine in Send goes on while it can; a goroutine in Unsubscribe
\* queues on both channels of its select and is served once either is ready
\* often enough.  Nothing is assumed of a subscriber's reading.
Fairness ==
  /\ WF_vars(Sending)
  /\ \A s \in Subs : SF_vars(Removing(s))

Spec == Init /\ [][Next]_vars /\ Fairness

-----------------------------------------------------------------------------
(* Properties. *)

TypeOK ==
  /\ inbox \in Seq(Subs) /\ sendCases \in Seq(Subs)
  /\ active \in 0 .. Len(sendCases) /\ index \in Nat \ {0}
  /\ send \in {"idle", "locked", "trying", "selecting"}
  /\ sub \in [Subs -> {"new", "on", "removing", "off"}]
  /\ queued \in [Subs -> 0 .. Buffer]
  /\ sent \in Nat /\ since \in [Subs -> Nat]
  /\ delivered \in [Subs -> Seq(Nat)]

\* A channel receives the values of consecutive Sends, each once, from the
\* first Send that began to collect after Subscribe on.
Consecutive ==
  \A s \in Subs : delivered[s] = [k \in 1 .. Len(delivered[s]) |-> since[s] + k]

\* "Future sends will be delivered on the channel until the subscription is
\* canceled": a subscriber in the case list has every value up to the current
\* Send, whose value it has exactly when its case is not active any more; one
\* in the inbox has missed none.
NoneMissed ==
  /\ \A i \in DOMAIN sendCases :
       LET s == sendCases[i] IN
         since[s] + Len(delivered[s]) = IF i <= active THEN sent - 1 ELSE sent
  /\ \A i \in DOMAIN inbox : since[inbox[i]] + Len(delivered[inbox[i]]) = sent

\* Every running subscription has one entry, and a caller that looks for its
\* channel in the case list finds it (delete would panic at index -1).
OneEntry ==
  /\ IsInjective(sendCases \o inbox)
  /\ \A s \in Subs : sub[s] \in {"on", "removing"}
                       <=> s \in Range(sendCases) \cup Range(inbox)
  /\ \A s \in Subs : sub[s] = "removing" => s \in Range(sendCases)

\* Once Unsubscribe has returned nothing is put into the channel.
SilentAfterUnsubscribe ==
  [][\A s \in Subs : sub[s] = "off" => delivered'[s] = delivered[s]]_vars

\* Unsubscribe returns even if the subscriber and all others stopped reading
\* and a Send is blocked on their channels.
UnsubscribeReturns == \A s \in Subs : sub[s] = "removing" ~> sub[s] = "off"

\* Send returns if every subscriber reads its channel or has unsubscribed.
SendReturns ==
  (\A s \in Subs : WF_vars(Receive(s))) => (send # "idle" ~> send = "idle")
=============================================================================
