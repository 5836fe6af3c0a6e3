------------------------------ MODULE WebPage ------------------------------
(***************************************************************************)
(* What the pages of the web application have in common: the page on       *)
(* screen with its React state and refs, the part of the site it works on, *)
(* the requests under way, and a bound of what happens to it.              *)
(*                                                                         *)
(* A request goes to the site, which acts on it at some moment, and its    *)
(* answer comes back at a later one: requests overtake each other on both  *)
(* ways.  The step of an answer is the handler's code from that await to   *)
(* the next one.  React shows a state that was set before anything else    *)
(* happens.  A page that was left is "away": the answers of its requests   *)
(* set the state of nothing.                                               *)
(***************************************************************************)
EXTENDS Integers, FiniteSets, Sequences

CONSTANTS
    Nothing,   \* null
    MaxClicks  \* bound of what the user, other users and the site do of themselves on one page

ASSUME PageAssumption == MaxClicks \in Nat /\ Nothing \notin Int

VARIABLES
    page,   \* the page on screen: its name, and its state
    site,   \* what the site, and the browser, keep for this page
    calls,  \* requests under way
    clicks  \* events so far

pageVars == <<page, site, calls, clicks>>

At(name) == page.at = name
Left == [at |-> "away"]

\* What the user does on a page, and what else happens while it is open, is one event.
Event(name) == At(name) /\ clicks < MaxClicks /\ clicks' = clicks + 1

\* Requests differ by what they ask and by the event that led to them.
Asks(op, arg) == [op |-> op, arg |-> arg, by |-> clicks', got |-> Nothing]
Pending(op) == {c \in calls : c.op = op /\ c.got = Nothing}
Answered(op) == {c \in calls : c.op = op /\ c.got # Nothing}
Under(op) == {c \in calls : c.op = op}
Served(c, answer) == calls' = (calls \ {c}) \cup {[c EXCEPT !.got = answer]}
Failure == [ok |-> FALSE]

\* A request fails: on its way, so that the site never acts on it, or on its way back.
Fails(c) == Served(c, Failure) /\ UNCHANGED <<page, site>>
=============================================================================
