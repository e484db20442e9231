---------------------------- MODULE ExternalTickets ----------------------------
(***************************************************************************)
(* Tickets of bugs in the tracker of an integration                        *)
(* (services/integration_service.py, routers/integrations.py).             *)
(*                                                                         *)
(* To push a bug is to create a ticket over HTTP and then to store a link  *)
(* to it; to sync a link is to fetch the status of its ticket over HTTP    *)
(* and then to store it.  Between the two, anything may happen.            *)
(***************************************************************************)
EXTENDS Naturals

CONSTANTS
  Workers,      \* the threads that serve requests
  Bugs,
  MaxTickets,   \* bound: tickets created in the tracker
  MaxMoves      \* bound: changes of status in the tracker

Tickets == 1 .. MaxTickets
NoTicket == [bug |-> "none", status |-> "open"]
NoLink == [there |-> FALSE, integration |-> FALSE, status |-> "unknown", at |-> 0]
Idle == [op |-> "none", bug |-> "none", ticket |-> 0, status |-> "unknown", at |-> 0]

VARIABLES
  ticket,       \* the tracker: ticket[i], NoTicket if it has not been created
  clock,        \* the tracker: changes of status so far
  bugs,         \* table bugs
  integration,  \* table project_integrations: "active", "disabled" or "deleted"
  link,         \* table bug_external_links: link[i] to ticket i, if there
  req,          \* what each worker is doing
  unlinked,     \* history: tickets whose link was deleted, by itself or with its bug
  orphaned,     \* history: tickets whose push did not get as far as its commit
  overlapped    \* history: two syncs of one link have overlapped

vars == <<ticket, clock, bugs, integration, link, req, unlinked, orphaned, overlapped>>
history == <<unlinked, orphaned, overlapped>>

TypeOK ==
  /\ ticket \in [Tickets -> [bug : Bugs, status : {"open", "closed"}] \union {NoTicket}]
  /\ clock \in 0 .. MaxMoves
  /\ bugs \subseteq Bugs
  /\ integration \in {"active", "disabled", "deleted"}
  /\ \A i \in Tickets : link[i].there => ticket[i] # NoTicket
  /\ unlinked \union orphaned \subseteq Tickets

Init ==
  /\ ticket = [i \in Tickets |-> NoTicket] /\ clock = 0
  /\ bugs = Bugs /\ integration = "active"
  /\ link = [i \in Tickets |-> NoLink]
  /\ req = [w \in Workers |-> Idle]
  /\ unlinked = {} /\ orphaned = {} /\ overlapped = FALSE

Does(w, op) == req[w].op = op
Becomes(w, r) == req' = [req EXCEPT ![w] = r]
Ends(w) == Becomes(w, Idle)

-----------------------------------------------------------------------------
(* Push.                                                                   *)
BeginPush(w, b) ==
  /\ req[w] = Idle
  /\ b \in bugs /\ integration = "active"
  /\ Becomes(w, [Idle EXCEPT !.op = "create", !.bug = b])
  /\ UNCHANGED <<ticket, clock, bugs, integration, link, history>>

\* The tracker creates the ticket; its answer may not come, or not be understood.
CreateTicket(w) ==
  /\ Does(w, "create")
  /\ \E i \in Tickets :
       /\ ticket[i] = NoTicket /\ \A j \in 1 .. i - 1 : ticket[j] # NoTicket
       /\ ticket' = [ticket EXCEPT ![i] = [bug |-> req[w].bug, status |-> "open"]]
       /\ \/ Becomes(w, [req[w] EXCEPT !.op = "store", !.ticket = i]) /\ UNCHANGED orphaned
          \/ Ends(w) /\ orphaned' = orphaned \union {i}
  /\ UNCHANGED <<clock, bugs, integration, link, unlinked, overlapped>>

\* The tracker refuses, or is not reached.
CreateFails(w) ==
  /\ Does(w, "create")
  /\ Ends(w)
  /\ UNCHANGED <<ticket, clock, bugs, integration, link, history>>

\* The foreign keys of the link refuse a bug or an integration that has gone.
CommitPush(w) ==
  LET r == req[w]
  IN
  /\ Does(w, "store")
  /\ IF r.bug \in bugs /\ integration # "deleted"
     THEN /\ link' = [link EXCEPT ![r.ticket] =
                        [there |-> TRUE, integration |-> TRUE, status |-> "open", at |-> 0]]
          /\ UNCHANGED orphaned
     ELSE orphaned' = orphaned \union {r.ticket} /\ UNCHANGED link
  /\ Ends(w)
  /\ UNCHANGED <<ticket, clock, bugs, integration, unlinked, overlapped>>

-----------------------------------------------------------------------------
(* Sync.                                                                   *)
\* A disabled integration still syncs.
BeginSync(w, i) ==
  /\ req[w] = Idle
  /\ link[i].there /\ link[i].integration
  /\ Becomes(w, [Idle EXCEPT !.op = "fetch", !.ticket = i])
  /\ overlapped' = (overlapped \/ \E v \in Workers :
                      req[v].op \in {"fetch", "update"} /\ req[v].ticket = i)
  /\ UNCHANGED <<ticket, clock, bugs, integration, link, unlinked, orphaned>>

FetchStatus(w) ==
  /\ Does(w, "fetch")
  /\ \/ Becomes(w, [req[w] EXCEPT !.op = "update", !.at = clock,
                                  !.status = ticket[req[w].ticket].status])
     \/ Ends(w)
  /\ UNCHANGED <<ticket, clock, bugs, integration, link, history>>

\* Mutant: the link is written whether or not it is still there.
MergesLink(w) ==
  /\ Does(w, "update")
  /\ link' = [link EXCEPT ![req[w].ticket] =
                [there |-> TRUE, integration |-> TRUE, status |-> req[w].status,
                 at |-> req[w].at]]
  /\ Ends(w)
  /\ UNCHANGED <<ticket, clock, bugs, integration, history>>

\* The update also stamps the credential, which goes with the integration.
CommitSync(w) ==
  LET r == req[w]
  IN
  /\ Does(w, "update")
  /\ link' = IF link[r.ticket].there /\ integration # "deleted"
             THEN [link EXCEPT ![r.ticket].status = r.status, ![r.ticket].at = r.at]
             ELSE link
  /\ Ends(w)
  /\ UNCHANGED <<ticket, clock, bugs, integration, history>>

-----------------------------------------------------------------------------
(* The rest of the API, the tracker, and failures.                         *)
DeleteLink(w, i) ==
  /\ req[w] = Idle /\ link[i].there
  /\ link' = [link EXCEPT ![i] = NoLink]
  /\ unlinked' = unlinked \union {i}
  /\ UNCHANGED <<ticket, clock, bugs, integration, req, orphaned, overlapped>>

UpdateIntegration(w, active) ==
  /\ req[w] = Idle /\ integration # "deleted"
  /\ integration' = IF active THEN "active" ELSE "disabled"
  /\ UNCHANGED <<ticket, clock, bugs, link, req, history>>

\* Mutant: the links go with their integration.
DeletesLinks(w) ==
  /\ req[w] = Idle /\ integration # "deleted"
  /\ integration' = "deleted"
  /\ link' = [i \in Tickets |-> NoLink]
  /\ UNCHANGED <<ticket, clock, bugs, req, history>>

\* The links stay, without their integration.
DeleteIntegration(w) ==
  /\ req[w] = Idle /\ integration # "deleted"
  /\ integration' = "deleted"
  /\ link' = [i \in Tickets |-> [link[i] EXCEPT !.integration = FALSE]]
  /\ UNCHANGED <<ticket, clock, bugs, req, history>>

DeleteBug(w, b) ==
  LET gone == {i \in Tickets : link[i].there /\ ticket[i].bug = b}
  IN
  /\ req[w] = Idle /\ b \in bugs
  /\ bugs' = bugs \ {b}
  /\ link' = [i \in Tickets |-> IF i \in gone THEN NoLink ELSE link[i]]
  /\ unlinked' = unlinked \union gone
  /\ UNCHANGED <<ticket, clock, integration, req, orphaned, overlapped>>

\* The users of the tracker close a ticket or open it again.
TicketMoves(i) ==
  /\ ticket[i] # NoTicket /\ clock < MaxMoves
  /\ clock' = clock + 1
  /\ \E s \in {"open", "closed"} \ {ticket[i].status} :
       ticket' = [ticket EXCEPT ![i].status = s]
  /\ UNCHANGED <<bugs, integration, link, req, history>>

Die(w) ==
  /\ req[w] # Idle
  /\ orphaned' = IF Does(w, "store") THEN orphaned \union {req[w].ticket} ELSE orphaned
  /\ Ends(w)
  /\ UNCHANGED <<ticket, clock, bugs, integration, link, unlinked, overlapped>>

Next ==
  \/ \E w \in Workers :
       \/ \E b \in Bugs : BeginPush(w, b) \/ DeleteBug(w, b)
       \/ CreateTicket(w) \/ CreateFails(w) \/ CommitPush(w)
       \/ \E i \in Tickets : BeginSync(w, i) \/ DeleteLink(w, i)
       \/ FetchStatus(w) \/ CommitSync(w)
       \/ \E active \in BOOLEAN : UpdateIntegration(w, active)
       \/ DeleteIntegration(w) \/ Die(w)
  \/ \E i \in Tickets : TicketMoves(i)

Spec == Init /\ [][Next]_vars

-----------------------------------------------------------------------------
\* A ticket in the tracker is linked from its bug, unless its push failed after the
\* tracker had created it, is about to store the link, or the link was deleted.
TicketsAreLinked ==
  \A i \in Tickets : ticket[i] # NoTicket =>
    \/ link[i].there /\ ticket[i].bug \in bugs
    \/ i \in unlinked \union orphaned
    \/ \E w \in Workers : Does(w, "store") /\ req[w].ticket = i

\* A link that was deleted does not come back, even from a sync that had started.
DeletedStaysDeleted == \A i \in unlinked : ~link[i].there

LinksAndTickets == TypeOK /\ TicketsAreLinked /\ DeletedStaysDeleted

\* models/integration.py, lines 46-47: "history rows survive" their integration: a step
\* that deletes a link deletes it for its bug or on its own.  And unless two syncs of a
\* link overlap, what it says of its ticket never goes back to an earlier status.
LinksKeepHistory ==
  [][\A i \in Tickets : link[i].there =>
       /\ link'[i].there \/ i \in unlinked'
       /\ link'[i].there /\ ~overlapped => link'[i].at >= link[i].at]_vars
=============================================================================
