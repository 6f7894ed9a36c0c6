--------------------------- MODULE LeaseService ---------------------------
(***************************************************************************)
(* What the callers of get_crawler rely on.  Each call is answered at one  *)
(* moment: with the browser that is shared under the signature asked for,  *)
(* with a new one that nobody else refers to, or with a failure.  There is *)
(* no lock, no clock and no close() in progress here.  A browser may stop  *)
(* being shared at any time, even while somebody uses it: that much the    *)
(* pool does not promise.  Once `tended` is FALSE (the janitor was         *)
(* cancelled, perhaps in the middle of a close()) a call may be answered   *)
(* with any browser.                                                       *)
(***************************************************************************)
EXTENDS Functions

CONSTANTS Task, Sig, Crawler, NoCrawler

VARIABLES
    asks,    \* task -> the signature it waits for, or what it last asked for
    phase,   \* task -> "idle", "asking" or "holding"
    held,    \* task -> the browser it was lent
    shared,  \* signature -> the open browser lent to whoever asks for it
    tended   \* the janitor still runs

lvars == <<asks, phase, held, shared, tended>>

Init ==
    /\ asks \in [Task -> Sig]
    /\ phase = [t \in Task |-> "idle"]
    /\ held = [t \in Task |-> NoCrawler]
    /\ shared = [s \in {} |-> NoCrawler]
    /\ tended = TRUE

Ask(t) ==
    /\ phase[t] = "idle"
    /\ \E s \in Sig : asks' = [asks EXCEPT ![t] = s]
    /\ phase' = [phase EXCEPT ![t] = "asking"]
    /\ UNCHANGED <<held, shared, tended>>

Lend(t, c) ==
    /\ phase[t] = "asking"
    /\ phase' = [phase EXCEPT ![t] = "holding"]
    /\ held' = [held EXCEPT ![t] = c]
    /\ UNCHANGED <<asks, tended>>

LendShared(t) ==
    /\ asks[t] \in DOMAIN shared
    /\ Lend(t, shared[asks[t]])
    /\ UNCHANGED shared

LendNew(t) ==
    /\ asks[t] \notin DOMAIN shared
    /\ \E c \in Crawler :
          /\ \A s \in DOMAIN shared : shared[s] # c
          /\ \A u \in Task : held[u] # c
          /\ Lend(t, c)
          /\ shared' = [s \in DOMAIN shared \cup {asks[t]} |->
                            IF s = asks[t] THEN c ELSE shared[s]]

LendUntended(t) ==
    /\ ~tended
    /\ \E c \in Crawler : Lend(t, c)
    /\ UNCHANGED shared

\* The call raises, returns None or is cancelled.
Refuse(t) ==
    /\ phase[t] = "asking"
    /\ phase' = [phase EXCEPT ![t] = "idle"]
    /\ UNCHANGED <<asks, held, shared, tended>>

GiveBack(t) ==
    /\ phase[t] = "holding"
    /\ phase' = [phase EXCEPT ![t] = "idle"]
    /\ held' = [held EXCEPT ![t] = NoCrawler]
    /\ UNCHANGED <<asks, shared, tended>>

\* Eviction, the janitor or close_all.
Withdraw ==
    /\ \E S \in SUBSET DOMAIN shared : shared' = Restrict(shared, S)
    /\ UNCHANGED <<asks, phase, held, tended>>

Neglect ==
    /\ tended' = FALSE
    /\ UNCHANGED <<asks, phase, held, shared>>

Next ==
    \/ \E t \in Task :
          \/ Ask(t)
          \/ LendShared(t) \/ LendNew(t) \/ LendUntended(t) \/ Refuse(t)
          \/ GiveBack(t)
    \/ Withdraw
    \/ Neglect

Spec == Init /\ [][Next]_lvars
=============================================================================
