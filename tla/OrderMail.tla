----------------------------- MODULE OrderMail -----------------------------
(***************************************************************************)
(* The order core together with the Celery workers that run mail_item      *)
(* (messaging/tasks.py).  A task is taken from the Redis queue and         *)
(* acknowledged before it runs; it mails the company's team, then the      *)
(* Optiz users assigned to the company, one message after the other, and   *)
(* builds a PDF for each from the row it was queued with and the offers    *)
(* that are in the database at that moment.  The first exception ends the  *)
(* task and nothing retries it.                                            *)
(***************************************************************************)
EXTENDS Orders, FiniteSets, Bags

CONSTANTS
    Team,          \* the accounts of the order's company
    Staff,         \* the Optiz accounts assigned to that company
    PrefSets,      \* the sets of boxes users tick in their preferences
    Celery,        \* the processes of the Celery worker
    MaxPrefSaves   \* bound on the accounts that change them

Preferences == {"request", "approval", "offer", "validated", "refused",
                "order", "canceled"}

ASSUME AccountsAssumption == Team \cap Staff = {}
ASSUME PrefSetsAssumption == PrefSets \subseteq SUBSET Preferences
ASSUME MaxPrefSavesAssumption == MaxPrefSaves \in Nat

VARIABLES
    prefs,     \* the boxes each account has ticked
    fate,      \* what became of each task taken from the queue
    job,       \* what each Celery process is doing
    mails,     \* the messages sent, a bag
    resaved    \* accounts that changed their preferences (history only)

mailVars == <<prefs, fate, job, mails, resaved>>
allVars  == <<vars, mailVars>>

Accounts == Team \cup Staff
Letter   == [to : Accounts, template : {"approval", "confirm"}]
Message  == [task : Nat, letter : Letter, lists : SUBSET Nat]
Job      == [phase : {"idle", "team", "staff"}, task : Nat,
             todo : SUBSET Letter]
Idle     == [phase |-> "idle", task |-> 0, todo |-> {}]

\* "crossed": the exception met an offer whose items were being inserted.
Fates == {"run", "done", "raised", "crossed", "lost"}

MailTypeOK ==
    /\ prefs \in [Accounts -> SUBSET Preferences]
    /\ fate \in Seq(Fates) /\ Len(fate) <= Len(tasks)
    /\ job \in [Celery -> Job]
    /\ IsABag(mails) /\ DOMAIN mails \subseteq Message
    /\ resaved \subseteq Accounts

MailInit ==
    /\ Init
    /\ prefs \in [Accounts -> PrefSets]
    /\ fate = <<>>
    /\ job = [w \in Celery |-> Idle]
    /\ mails = EmptyBag
    /\ resaved = {}

-----------------------------------------------------------------------------
(* Recipients *)

OfferCodes == {"OFR", "REF", "APV"}
OrderCodes == {"COM", "INV", "CAN", "ARC"}

\* An account is mailed when one of these boxes is ticked.
TeamBoxes(s) ==
    CASE s \in {"WRQ", "PEN"} -> {"request"}
      [] s \in OfferCodes     -> {"offer", "validated", "refused"}
      [] s \in OrderCodes     -> {"order", "canceled", "validated", "refused"}
      [] OTHER                -> {}

StaffBoxes(s) ==
    CASE s = "PEN"        -> {"approval", "request"}
      [] s \in OfferCodes -> {"approval", "offer", "validated", "refused"}
      [] s \in OrderCodes -> TeamBoxes(s)
      [] OTHER            -> {}

Wants(u, s) ==
    prefs[u] \cap (IF u \in Team THEN TeamBoxes(s) ELSE StaffBoxes(s)) # {}

\* access_level >= 5 compares a string with a number, true in Python 2 for
\* every account.
Template(u, s) ==
    IF u \in Team /\ s \notin OrderCodes /\ "approval" \in prefs[u]
      THEN "approval" ELSE "confirm"

\* What one of the two loops is going to send, from the accounts as its query
\* returns them when the loop begins.
Letters(users, s) ==
    {[to |-> u, template |-> Template(u, s)] : u \in {v \in users : Wants(v, s)}}

\* build_pdf raises on a null reference or address and, from the offer on,
\* when the offer listed first (the newest) has no items: order_table is then
\* unbound.  An older offer without items repeats the table of the one above.
PdfRaises(t) ==
    \/ ~t.ref \/ ~t.addr
    \/ /\ t.status # "PEN"
       /\ \E f \in OffersOf(t.order) :
            ~f.complete /\ \A g \in OffersOf(t.order) : g.id <= f.id

-----------------------------------------------------------------------------
(* A Celery process *)

Current(w) == tasks[job[w].task]

Take(w) ==
    /\ job[w].phase = "idle"
    /\ Len(fate) < Len(tasks)
    /\ fate' = Append(fate, "run")
    /\ job' = [job EXCEPT ![w] =
                 [phase |-> "team", task |-> Len(fate) + 1,
                  todo |-> Letters(Team, tasks[Len(fate) + 1].status)]]
    /\ UNCHANGED <<prefs, mails, resaved>>

End(w, how) ==
    /\ fate' = [fate EXCEPT ![job[w].task] = how]
    /\ job' = [job EXCEPT ![w] = Idle]
    /\ UNCHANGED <<prefs, mails, resaved>>

\* user_email: the PDF, then the message.
Deliver(w) == \E l \in job[w].todo :
    /\ ~PdfRaises(Current(w))
    /\ mails' = mails (+) SetToBag({
                  [task |-> job[w].task, letter |-> l,
                   lists |-> {f.version : f \in OffersOf(Current(w).order)}]})
    /\ job' = [job EXCEPT ![w].todo = @ \ {l}]
    /\ UNCHANGED <<prefs, fate, resaved>>

\* Mutant: the task is run again after an exception (task.retry).
RaiseRetry(w) ==
    /\ job[w].todo # {}
    /\ PdfRaises(Current(w))
    /\ job' = [job EXCEPT ![w].phase = "team",
                          ![w].todo = Letters(Team, Current(w).status)]
    /\ UNCHANGED <<prefs, fate, mails, resaved>>

Raise(w) ==
    /\ job[w].todo # {}
    /\ PdfRaises(Current(w))
    /\ End(w, IF \E r \in Requests : At(r, "offerItems")
                                     /\ req[r].order = Current(w).order
              THEN "crossed" ELSE "raised")

\* Mutant: the loop over the Optiz users has become part of the first one.
TurnToNobody(w) ==
    /\ job[w].phase = "team" /\ job[w].todo = {}
    /\ job' = [job EXCEPT ![w].phase = "staff"]
    /\ UNCHANGED <<prefs, fate, mails, resaved>>

TurnToStaff(w) ==
    /\ job[w].phase = "team" /\ job[w].todo = {}
    /\ job' = [job EXCEPT ![w].phase = "staff",
                          ![w].todo = Letters(Staff, Current(w).status)]
    /\ UNCHANGED <<prefs, fate, mails, resaved>>

Finish(w) ==
    /\ job[w].phase = "staff" /\ job[w].todo = {}
    /\ End(w, "done")

\* Mutant: the message is acknowledged after the task (acks_late).
LoseLateAck(w) ==
    /\ job[w].phase # "idle"
    /\ job' = [job EXCEPT ![w].phase = "team",
                          ![w].todo = Letters(Team, Current(w).status)]
    /\ UNCHANGED <<prefs, fate, mails, resaved>>

\* The SMTP server refuses a message, a column of an address or a company the
\* PDF prints is null, or the process is killed.
Lose(w) ==
    /\ job[w].phase # "idle"
    /\ End(w, "lost")

CeleryStep(w) == Take(w) \/ Deliver(w) \/ Raise(w) \/ TurnToStaff(w) \/ Finish(w)

-----------------------------------------------------------------------------
(* The system *)

\* AccountSerializer.update, the columns of the preferences.
SavePrefs(u) ==
    /\ u \notin resaved /\ Cardinality(resaved) < MaxPrefSaves
    /\ \E p \in PrefSets : prefs' = [prefs EXCEPT ![u] = p]
    /\ resaved' = resaved \cup {u}
    /\ UNCHANGED <<fate, job, mails>>

MailNext ==
    \/ Next /\ UNCHANGED mailVars
    \/ /\ \/ \E w \in Celery : CeleryStep(w) \/ Lose(w)
          \/ \E u \in Accounts : SavePrefs(u)
       /\ UNCHANGED vars

MailSpec == MailInit /\ [][MailNext]_allVars

\* A Celery process goes on with its task, and takes another while there are
\* any: rendering ends, and an SMTP connection answers or breaks.
FairMailSpec == MailSpec /\ \A w \in Celery : WF_allVars(CeleryStep(w) /\ UNCHANGED vars)

-----------------------------------------------------------------------------
(* Properties *)

\* No account gets two messages from one task, whatever fails: tasks are
\* acknowledged before they run and never retried.
AtMostOnce == \A m \in BagToSet(mails) :
    /\ mails[m] = 1
    /\ \A n \in BagToSet(mails) :
          m.task = n.task /\ m.letter.to = n.letter.to => m = n

\* A task that ran to its end has mailed every account whose preferences ask
\* for it: the loop over the team does not keep the Optiz users from theirs.
EndedMailedAll == \A i \in DOMAIN fate :
    fate[i] = "done" =>
        \A u \in Accounts \ resaved :
            Wants(u, tasks[i].status) =>
                \E m \in BagToSet(mails) : m.task = i /\ m.letter.to = u

\* Every account that asked for the mail of an ended task has it, and nobody has
\* it twice, whatever fails while mail_item goes through its recipients.
MailedExactly == AtMostOnce /\ EndedMailedAll

\* An order that has its reference and address and was spared half-done
\* requests is always printable, so that the first exception of build_pdf
\* costs nobody a message, unless the task runs between the statement that
\* inserts an offer and the ones that insert its items.
PdfBuilt == \A i \in DOMAIN fate :
    fate[i] = "raised" => \/ ~tasks[i].ref \/ ~tasks[i].addr
                          \/ "abort" \in marks[tasks[i].order]

\* The attachment of a message about an offer lists that offer, although it is
\* read from the database when the task runs and the task is queued by the
\* handler that writes the offer; only a deletion takes it away.
OfferListed == \A m \in BagToSet(mails) :
    LET t == tasks[m.task] IN
    /\ t.status \in OfferCodes
    /\ Spared(t.order, {"overlap", "abort", "deleted"})
    => t.fv \in m.lists

\* A message about an offer can be built and lists the offer, though the PDF is
\* read from the database while the web worker goes on writing.
OfferMailed == PdfBuilt /\ OfferListed

\* Every task handed to Celery ends: no exception, killed process or change of
\* the order makes it run for ever or leaves it in the queue.
TasksEnd == \A i \in 1 .. MaxRequests :
    Len(tasks) >= i ~> Len(fate) >= i /\ fate[i] # "run"

=============================================================================
