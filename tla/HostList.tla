------------------------------ MODULE HostList ------------------------------
(***************************************************************************)
(* RelayApi::list_environments (src/api.rs): the hosts a client may reach, *)
(* asked for page by page until a page comes without a cursor.  The server *)
(* is external and answers what it likes: pages of any size, empty ones    *)
(* too, cursors that lead on for ever, come back or are malformed.         *)
(*                                                                         *)
(* Abstractions.  A well-formed cursor is a number, a new one the number of*)
(* cursors before it plus 1; one that is empty, too long or has a control  *)
(* character is Malformed.                                                 *)
(***************************************************************************)
EXTENDS Naturals, Sequences, FiniteSets

CONSTANTS
  Entries,   \* what a page may say of a host
  MaxPage,   \* bound on the entries of a page
  MaxHosts,  \* MAX_REMOTE_ENVIRONMENTS, 100 in the code
  MaxPages   \* MAX_ENVIRONMENT_PAGES, 32 in the code

ASSUME LimitsAssumption == MaxPage \in Nat /\ MaxHosts \in Nat /\ MaxPages \in Nat

NoCursor == 0
Malformed == MaxPages + 2
NewCursors == 1 .. MaxPages + 1
Cursors == NewCursors \cup {NoCursor, Malformed}

VARIABLES
  listing,       \* "asking", "listed", "refused" or "failed"
  environments,  \* the entries of the pages accepted
  seenCursors,   \* seen_cursors
  answers        \* history: the pages the server has answered with

listVars == <<listing, environments, seenCursors, answers>>

SeqsUpTo(S, n) == UNION {[1 .. k -> S] : k \in 0 .. n}

Pages == [items : SeqsUpTo(Entries, MaxPage), cursor : Cursors]

ListTypeOK ==
  /\ listing \in {"asking", "listed", "refused", "failed"}
  /\ environments \in Seq(Entries) /\ Len(environments) <= MaxHosts
  /\ seenCursors \subseteq NewCursors /\ Cardinality(seenCursors) <= MaxPages
  /\ \A i \in DOMAIN answers :
       answers[i].items \in Seq(Entries) /\ answers[i].cursor \in Cursors

ListInit ==
  /\ listing = "asking" /\ environments = <<>> /\ seenCursors = {} /\ answers = <<>>

(* The cursors the server may give: none, a bad one, one it has given, or  *)
(* the next new one.                                                       *)
Given == {NoCursor, Malformed} \cup seenCursors \cup {Cardinality(seenCursors) + 1}

-----------------------------------------------------------------------------
(* accept_environment_page.                                                *)

(* The slip of a limit that is only looked at once it is exceeded by much. *)
TooManyOffByOne(page) == Len(environments) + Len(page.items) >= MaxHosts

(* More hosts than the limit, or the limit and a cursor for more.          *)
TooMany(page) ==
  LET count == Len(environments) + Len(page.items) IN
  count > MaxHosts \/ (count = MaxHosts /\ page.cursor # NoCursor)

BadCursor(page) ==
  /\ page.cursor # NoCursor
  /\ \/ page.cursor = Malformed
     \/ Cardinality(seenCursors) = MaxPages
     \/ page.cursor \in seenCursors

AcceptPage(page) ==
  /\ ~ TooMany(page) /\ ~ BadCursor(page)
  /\ environments' = environments \o page.items
  /\ seenCursors' = seenCursors \cup ({page.cursor} \ {NoCursor})
  /\ listing' = IF page.cursor = NoCursor THEN "listed" ELSE "asking"

RefusePage(page) ==
  /\ TooMany(page) \/ BadCursor(page)
  /\ listing' = "refused"
  /\ UNCHANGED <<environments, seenCursors>>

-----------------------------------------------------------------------------
(* One request, and what becomes of its answer.                            *)
Ask(page) ==
  /\ listing = "asking" /\ page.cursor \in Given
  /\ answers' = Append(answers, page)
  /\ AcceptPage(page) \/ RefusePage(page)

(* The request fails, at the latest when its 45 seconds are over.          *)
AskFails ==
  /\ listing = "asking" /\ listing' = "failed"
  /\ UNCHANGED <<environments, seenCursors, answers>>

ListNext == (\E page \in Pages : Ask(page)) \/ AskFails

ListSpec == ListInit /\ [][ListNext]_listVars

-----------------------------------------------------------------------------
(* The entries of the first n answers.                                     *)
Count(n) ==
  LET count[i \in 0 .. n] == IF i = 0 THEN 0 ELSE count[i - 1] + Len(answers[i].items)
  IN count[n]

HasCursor(i) == answers[i].cursor # NoCursor

(* A server that means well has more to come wherever it gives a cursor,   *)
(* gives none twice and no malformed one; it fits if all its hosts, and    *)
(* the cursors to get at them, are within the limits.                      *)
MeansWellAndFits ==
  /\ \A i \in DOMAIN answers :
       HasCursor(i) =>
         /\ answers[i].cursor # Malformed
         /\ \A j \in 1 .. i - 1 : answers[j].cursor # answers[i].cursor
         /\ Count(i) < MaxHosts
  /\ Count(Len(answers)) <= MaxHosts
  /\ Cardinality({i \in DOMAIN answers : HasCursor(i)}) <= MaxPages

(* No server keeps a client asking: there are never more requests than     *)
(* MAX_ENVIRONMENT_PAGES and the one for the last page.                    *)
ListingIsBounded == Len(answers) <= MaxPages + 1

(* A list that fits is never refused for the limits that protect from one  *)
(* that does not, and what is returned is all of it, page after page, each *)
(* page once; and for all that no server keeps rcodex asking.              *)
FittingListIsReturned ==
  /\ listing = "refused" => ~ MeansWellAndFits
  /\ listing = "listed" =>
       /\ Len(environments) = Count(Len(answers))
       /\ \A i \in DOMAIN answers : \A k \in DOMAIN answers[i].items :
            environments[Count(i - 1) + k] = answers[i].items[k]
  /\ ListingIsBounded
=============================================================================
