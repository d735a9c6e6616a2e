----------------------------- MODULE AlertRelay -----------------------------
(***************************************************************************)
(* Alertmanager's webhook and the relay to Discord: alert-relay.py, with   *)
(* the requests of an Alertmanager configured as alerting.nix does.  Time  *)
(* is in minutes, and passes when nothing is left to do in this one.       *)
(***************************************************************************)
EXTENDS Naturals

CONSTANTS
  Groups,       \* Alertmanager's groups of alerts
  Alerts,       \* how many alerts a notification of each has
  SendTimeout,  \* SEND_TIMEOUT
  Deadline,     \* the receiver's timeout
  Interval,     \* group_interval, which also bounds the retries of a flush
  MaxTurns,     \* bound: how often alerts begin to fire or resolve
  Threads       \* bound: the threads there may be at once, numbered

\* "Well under it, even for a request of several alerts."
ASSUME RelayAssumption ==
  /\ SendTimeout \in Nat \ {0} /\ Deadline \in Nat /\ Interval \in Nat /\ Deadline < Interval
  /\ MaxTurns \in Nat
  /\ Alerts \in [Groups -> Nat \ {0}]
  /\ \A g \in Groups : Alerts[g] * SendTimeout < Deadline

VARIABLES
  status,    \* Alertmanager: what each group's alerts are
  turns,     \* history: how often they began to fire or resolved
  sent,      \* its log of what it notified
  flush,     \* what it is notifying
  age,       \* minutes since it began to
  tried,     \* whether an attempt of this flush failed
  thread,    \* the relay's threads, one per request
  shown,     \* Discord: the last post about each alert
  agreed     \* history: the last attempt was answered with 200, and when it began no
             \* attempt that Alertmanager had given up was still running

relayVars == <<status, turns, sent, flush, age, tried, thread, shown, agreed>>

Kinds == {"none", "firing", "resolved"}
Free == [group |-> "none"]
Live == {t \in Threads : thread[t] # Free}
Waiting(g) == {t \in Live : thread[t].group = g /\ thread[t].awaited}

\* A request, in the thread that handles it.
Requests ==
  [group : Groups, kind : Kinds \ {"none"},
   next : Nat \ {0}, spent : 0..SendTimeout, ok : BOOLEAN, \* the alert, the minutes on it
   awaited : BOOLEAN, waited : 0..Deadline,                \* by Alertmanager, and for how long
   first : BOOLEAN, alone : BOOLEAN]                       \* of its flush, of its group

RelayTypeOK ==
  /\ status \in [Groups -> Kinds] /\ sent \in [Groups -> Kinds] /\ flush \in [Groups -> Kinds]
  /\ turns \in 0..MaxTurns /\ age \in [Groups -> 0..Interval]
  /\ tried \in [Groups -> BOOLEAN] /\ agreed \in [Groups -> BOOLEAN]
  /\ thread \in [Threads -> Requests \cup {Free}]
  /\ \A t \in Live : thread[t].next <= Alerts[thread[t].group] + 1
  /\ DOMAIN shown = Groups /\ \A g \in Groups : shown[g] \in [1..Alerts[g] -> Kinds]

RelayInit ==
  /\ status = [g \in Groups |-> "none"] /\ sent = status /\ flush = status /\ turns = 0
  /\ age = [g \in Groups |-> Interval]
  /\ tried = [g \in Groups |-> FALSE] /\ agreed = tried
  /\ thread = [t \in Threads |-> Free]
  /\ shown = [g \in Groups |-> [i \in 1..Alerts[g] |-> "none"]]

---------------------------------------------------------------------------
\* Alertmanager.

Turns(g) ==
  /\ turns < MaxTurns /\ turns' = turns + 1
  /\ status' = [status EXCEPT ![g] = IF @ = "firing" THEN "resolved" ELSE "firing"]
  /\ UNCHANGED <<sent, flush, age, tried, thread, shown, agreed>>

\* At most once per interval, but for a group that was dropped as all of it had
\* resolved.
Flush(g) ==
  /\ flush[g] = "none" /\ (age[g] = Interval \/ sent[g] # "firing")
  /\ \/ status[g] = "firing" /\ sent[g] # "firing"
     \/ status[g] = "resolved" /\ sent[g] = "firing"
  /\ flush' = [flush EXCEPT ![g] = status[g]]
  /\ age' = [age EXCEPT ![g] = 0] /\ tried' = [tried EXCEPT ![g] = FALSE]
  /\ UNCHANGED <<status, turns, sent, thread, shown, agreed>>

Request(g, t) ==
  /\ flush[g] # "none" /\ age[g] < Interval /\ Waiting(g) = {}
  /\ thread[t] = Free /\ \A u \in Threads \ Live : t <= u
  /\ thread' = [thread EXCEPT ![t] = [group |-> g, kind |-> flush[g], next |-> 1, ok |-> TRUE,
                                      spent |-> 0, awaited |-> TRUE, waited |-> 0, first |-> ~ tried[g],
                                      alone |-> \A u \in Live : thread[u].group # g]]
  /\ agreed' = [agreed EXCEPT ![g] = FALSE]
  /\ UNCHANGED <<status, turns, sent, flush, age, tried, shown>>

\* The receiver's timeout has passed, and the attempt failed, or the flush has
\* lasted an interval, and it is cut.
GiveUp(g) ==
  /\ flush[g] # "none"
  /\ age[g] = Interval \/ \E t \in Waiting(g) : thread[t].waited = Deadline
  /\ flush' = [flush EXCEPT ![g] = IF age[g] = Interval THEN "none" ELSE @]
  /\ tried' = [tried EXCEPT ![g] = TRUE]
  /\ thread' = [t \in Threads |->
                 IF t \in Waiting(g) THEN [thread[t] EXCEPT !.awaited = FALSE] ELSE thread[t]]
  /\ UNCHANGED <<status, turns, sent, age, shown, agreed>>

---------------------------------------------------------------------------
\* The relay.

\* (Mutant) One request at a time.
RunningOne ==
  {t \in Live : \A u \in Live : \/ thread[u].waited < thread[t].waited
                                \/ thread[u].waited = thread[t].waited /\ t <= u}

\* The requests being handled: each has a thread.
Running == Live

\* (Mutant) What a post returns is what the whole returns.
DoneLast(t, good) ==
  thread' = [thread EXCEPT ![t].next = @ + 1, ![t].spent = 0, ![t].ok = good]

\* `handle` goes on to the next alert.
Done(t, good) ==
  thread' = [thread EXCEPT ![t].next = @ + 1, ![t].spent = 0, ![t].ok = @ /\ good]

Arrives(t) == shown' = [shown EXCEPT ![thread[t].group][thread[t].next] = thread[t].kind]

Posting(t) == t \in Running /\ thread[t].next <= Alerts[thread[t].group]

PostOk(t) ==
  /\ Posting(t) /\ thread[t].spent < SendTimeout
  /\ Arrives(t) /\ Done(t, TRUE)
  /\ UNCHANGED <<status, turns, sent, flush, age, tried, agreed>>

\* The sender cannot be started, says that it failed, or is killed after
\* SEND_TIMEOUT; the post may have arrived.
PostFails(t) ==
  /\ Posting(t)
  /\ Arrives(t) \/ UNCHANGED shown
  /\ Done(t, FALSE)
  /\ UNCHANGED <<status, turns, sent, flush, age, tried, agreed>>

\* The reply: 200 if every post succeeded, else 500.
Reply(t) ==
  /\ t \in Running /\ ~ Posting(t)
  /\ thread' = [thread EXCEPT ![t] = Free]
  /\ LET g == thread[t].group
         good == thread[t].awaited /\ thread[t].ok
     IN  /\ sent' = [sent EXCEPT ![g] = IF good THEN flush[g] ELSE @]
         /\ flush' = [flush EXCEPT ![g] = IF good THEN "none" ELSE @]
         /\ agreed' = [agreed EXCEPT ![g] = good /\ thread[t].alone]
         /\ tried' = [tried EXCEPT ![g] = @ \/ (thread[t].awaited /\ ~ good)]
  /\ UNCHANGED <<status, turns, age, shown>>

\* The relay dies, and systemd kills its senders and starts it again.
RelayDies ==
  /\ Live # {}
  /\ thread' = [t \in Threads |-> Free]
  /\ \E arrived \in SUBSET Live :
       shown' = [g \in Groups |-> [i \in 1..Alerts[g] |->
         IF \E t \in arrived : thread[t].group = g /\ thread[t].next = i
         THEN (CHOOSE th \in {thread[t] : t \in arrived} : th.group = g /\ th.next = i).kind
         ELSE shown[g][i]]]
  /\ tried' = [g \in Groups |-> tried[g] \/ Waiting(g) # {}]
  /\ UNCHANGED <<status, turns, sent, flush, age, agreed>>

\* subprocess.run kills a sender that takes SEND_TIMEOUT.
MayWait(t) == Posting(t) => thread[t].spent < SendTimeout

Least(x, y) == IF x < y THEN x ELSE y

Minute ==
  /\ \A t \in Running : Posting(t) /\ MayWait(t)
  /\ \A t \in Live : thread[t].awaited => thread[t].waited < Deadline
  /\ \A g \in Groups : flush[g] # "none" => age[g] < Interval /\ (Waiting(g) # {} \/ tried[g])
  /\ thread' = [t \in Threads |->
       IF thread[t] = Free THEN Free
       ELSE [thread[t] EXCEPT !.spent = IF Posting(t) THEN Least(@ + 1, SendTimeout) ELSE @,
                              !.waited = Least(@ + 1, Deadline)]]
  /\ age' = [g \in Groups |-> Least(age[g] + 1, Interval)]
  /\ UNCHANGED <<status, turns, sent, flush, tried, shown, agreed>>

RelayNext ==
  \/ \E g \in Groups : Turns(g) \/ Flush(g) \/ GiveUp(g) \/ \E t \in Threads : Request(g, t)
  \/ \E t \in Live : PostOk(t) \/ PostFails(t) \/ Reply(t)
  \/ RelayDies \/ Minute

RelaySpec == RelayInit /\ [][RelayNext]_relayVars

---------------------------------------------------------------------------

\* A slow or hung post is never what makes Alertmanager send a notification
\* again: the first request of a flush is answered before any deadline, however
\* slow the posts of it and of the other requests are.
AnsweredInTime == \A t \in Live : thread[t].first => thread[t].awaited

\* When Alertmanager was answered with 200, the last post about each of the
\* notification's alerts says what Alertmanager holds to be notified, until it
\* asks again.  So none was dropped, and no older one came late.
DiscordAgrees ==
  \A g \in Groups : agreed[g] => \A i \in 1..Alerts[g] : shown[g][i] = sent[g]
=============================================================================
