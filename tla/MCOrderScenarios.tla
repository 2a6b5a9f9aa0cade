-------------------------- MODULE MCOrderScenarios --------------------------
(***************************************************************************)
(* Several questions about WeASe in one run: the first state of a          *)
(* behaviour picks a scenario of Orders, which says which requests are     *)
(* sent, how many, and to how many workers, or else Chat with two users.   *)
(***************************************************************************)
EXTENDS MCOrders, Chat, FiniteSets

CONSTANTS u1, u2

MCUsers == {u1, u2}

\* Slots are alike, and so are the users who chat.
ScenarioSymmetry == SlotSymmetry \cup Permutations(Users)

VARIABLE scenario

\* Offers, decisions and changes of status by two workers; the same with
\* cancellations, comments and one request less; a request from its items to
\* its first offer, and deletion, twice; a request that is edited and submitted
\* while its status changes, and one that is cancelled under a decision, each
\* by one worker.
Scenarios == {
    [kinds |-> {"blank", "offer", "decide", "status"},
     codes |-> {"INP"}, workers |-> 2, requests |-> 4],
    [kinds |-> {"blank", "offer", "decide", "status", "comment"},
     codes |-> {"CAN", "INP"}, workers |-> 2, requests |-> 3],
    [kinds |-> {"new", "add", "edit", "delitem", "address", "reference",
                "submit", "delete", "offer"},
     codes |-> {}, workers |-> 2, requests |-> 4],
    [kinds |-> {"new", "add", "delitem", "submit", "delete", "offer"},
     codes |-> {}, workers |-> 2, requests |-> 5],
    [kinds |-> {"new", "add", "edit", "submit", "status"},
     codes |-> {"CAN"}, workers |-> 1, requests |-> 6],
    [kinds |-> {"blank", "offer", "decide", "status"},
     codes |-> {"CAN"}, workers |-> 1, requests |-> 4]}

\* Two users open and reload pages and write to each other, and no order is
\* touched.
Chatting == [kinds |-> {}, codes |-> {}, workers |-> 2, requests |-> 0]

\* The requests in flight are of the scenario.
Within ==
    /\ sent <= scenario.requests
    /\ Cardinality({r \in Requests : Active(r)}) <= scenario.workers
    /\ \A r \in Requests : req[r].pc # "free" =>
          /\ req[r].kind \in scenario.kinds
          /\ req[r].kind = "status" => req[r].code \in scenario.codes

ScenarioInit == Init /\ ChatInit /\ scenario \in Scenarios \cup {Chatting}
ScenarioNext ==
    /\ UNCHANGED scenario
    /\ \/ scenario # Chatting /\ Next /\ UNCHANGED chatVars /\ Within'
       \/ scenario = Chatting /\ ChatNext /\ UNCHANGED vars

ScenarioSpec == ScenarioInit /\ [][ScenarioNext]_<<vars, chatVars, scenario>>

=============================================================================
