------------------------------ MODULE EmailPoll ------------------------------
(***************************************************************************)
(* The mail channel (crates/adaclaw-channels/src/email.rs): a task that    *)
(* looks into a mailbox at intervals, fetches what is unseen, which marks  *)
(* it as seen, and works through what it could parse.                      *)
(*                                                                         *)
(* Outside src/: the IMAP server, which keeps the mails and their flags,   *)
(* and may fail at any command, and the owner of the mailbox, who may read *)
(* mail with another program.                                              *)
(***************************************************************************)
EXTENDS Naturals, Sequences, FiniteSets

CONSTANTS
  Letters,        \* what arrives: records of a sender and whether it parses
  Correspondents, \* senders that allow_from matches
  MaxMails        \* bound: mails

ASSUME EmailAssumption ==
  Letters \subseteq [from : STRING, parses : BOOLEAN] /\ MaxMails \in Nat

VARIABLES
  mails,          \* the mails so far, by number
  seenMails,      \* those flagged \Seen
  polling,        \* "down", "wait", "fetch" or "work"
  found,          \* the answer to SEARCH UNSEEN
  letters,        \* parsed mails still to be worked through, in order
  stopping,       \* the shutdown signal is on its way
  taken           \* mails put on the bus, in order

emailVars == <<mails, seenMails, polling, found, letters, stopping, taken>>

Mails == 1..Len(mails)
Taken == {taken[i] : i \in DOMAIN taken}

EmailInit ==
  /\ mails = <<>> /\ seenMails = {} /\ polling = "down" /\ found = {} /\ letters = <<>>
  /\ stopping = FALSE /\ taken = <<>>

MailArrives ==
  /\ Len(mails) < MaxMails
  /\ \E l \in Letters : mails' = Append(mails, l)
  /\ UNCHANGED <<seenMails, polling, found, letters, stopping, taken>>

OwnerReads ==
  /\ \E m \in Mails \ seenMails : seenMails' = seenMails \cup {m}
  /\ UNCHANGED <<mails, polling, found, letters, stopping, taken>>

-----------------------------------------------------------------------------
EmailStart ==
  /\ polling = "down"
  /\ polling' = "wait" /\ stopping' = FALSE
  /\ UNCHANGED <<mails, seenMails, found, letters, taken>>

(* A tick: connect, log in, SELECT and SEARCH; a failure waits for the     *)
(* next tick.                                                              *)
Search ==
  /\ polling = "wait"
  /\ found' = Mails \ seenMails
  /\ polling' = IF found' = {} THEN "wait" ELSE "fetch"
  /\ UNCHANGED <<mails, seenMails, letters, stopping, taken>>

(* The server answers with the mails in the order of their numbers.        *)
ByNumber(S) ==
  CHOOSE s \in [1..Cardinality(S) -> S] : \A i, j \in DOMAIN s : i < j => s[i] < s[j]

(* Mutant: the mails are taken from the newest to the oldest. *)
FetchBackwards ==
  /\ polling = "fetch"
  /\ seenMails' = seenMails \cup found
  /\ LET up == ByNumber({m \in found : mails[m].parses})
     IN letters' = [i \in DOMAIN up |-> up[Len(up) + 1 - i]]
  /\ polling' = "work" /\ found' = {}
  /\ UNCHANGED <<mails, stopping, taken>>

(* FETCH RFC822, which flags what it returns; STORE flags it once more. *)
Fetch ==
  /\ polling = "fetch"
  /\ seenMails' = seenMails \cup found
  /\ letters' = ByNumber({m \in found : mails[m].parses})
  /\ polling' = "work" /\ found' = {}
  /\ UNCHANGED <<mails, stopping, taken>>

(* The connection breaks in the middle of the answer, which is lost. *)
FetchFails ==
  /\ polling = "fetch"
  /\ \E S \in SUBSET found : seenMails' = seenMails \cup S
  /\ polling' = "wait" /\ found' = {}
  /\ UNCHANGED <<mails, letters, stopping, taken>>

(* Mutant: a mail that is refused stays first. *)
TakeLetterStuck ==
  /\ polling = "work" /\ letters # <<>>
  /\ \/ /\ mails[Head(letters)].from \in Correspondents
        /\ taken' = Append(taken, Head(letters)) /\ letters' = Tail(letters)
     \/ UNCHANGED <<letters, taken>>
  /\ UNCHANGED <<mails, seenMails, polling, found, stopping>>

TakeLetter ==
  /\ polling = "work" /\ letters # <<>>
  /\ letters' = Tail(letters)
  /\ \/ /\ mails[Head(letters)].from \in Correspondents
        /\ taken' = Append(taken, Head(letters))
     \/ UNCHANGED taken       \* refused, or the bus is full
  /\ UNCHANGED <<mails, seenMails, polling, found, stopping>>

LettersDone ==
  /\ polling = "work" /\ letters = <<>>
  /\ polling' = "wait"
  /\ UNCHANGED <<mails, seenMails, found, letters, stopping, taken>>

EmailStop ==
  /\ polling # "down" /\ ~stopping
  /\ stopping' = TRUE
  /\ UNCHANGED <<mails, seenMails, polling, found, letters, taken>>

(* The signal is looked at between two polls. *)
EmailStops ==
  /\ polling = "wait" /\ stopping
  /\ polling' = "down"
  /\ UNCHANGED <<mails, seenMails, found, letters, stopping, taken>>

EmailCrash ==
  /\ polling # "down"
  /\ polling' = "down" /\ found' = {} /\ letters' = <<>>
  /\ UNCHANGED <<mails, seenMails, stopping, taken>>

EmailNext ==
  \/ MailArrives \/ OwnerReads
  \/ EmailStart \/ Search \/ Fetch \/ FetchFails \/ TakeLetter \/ LettersDone
  \/ EmailStop \/ EmailStops \/ EmailCrash

(* The ticks go on, and the server does not fail every time. *)
EmailFairness ==
  /\ WF_emailVars(Search) /\ SF_emailVars(Fetch)
  /\ WF_emailVars(TakeLetter) /\ WF_emailVars(LettersDone)

EmailSpec == EmailInit /\ [][EmailNext]_emailVars /\ EmailFairness

-----------------------------------------------------------------------------
(* What has become of a mail, for Intake. *)
MailFate(m) ==
  CASE m \notin Mails -> "unsent"
    [] m \in Mails \cap Taken -> "handed over"
    [] m \in Mails \ Taken
         /\ (m \notin seenMails \/ m \in found \/ \E i \in DOMAIN letters : letters[i] = m) -> "waiting"
    [] OTHER -> "passed over"

Postbox == INSTANCE Intake WITH
  Messages <- 1..MaxMails, fate <- [m \in 1..MaxMails |-> MailFate(m)], handed <- taken

(* Across polls that fail half-way, restarts and an owner who reads too,   *)
(* each mail reaches the bus at most once, in the order of arrival, and a  *)
(* mail that was given up is not fetched again.                            *)
EmailImplementsIntake == Postbox!Spec

(* While the channel runs, no mail waits for ever. *)
MailsAreSettled ==
  \A m \in 1..MaxMails :
    (MailFate(m) = "waiting" /\ polling # "down") ~> (MailFate(m) # "waiting" \/ polling = "down")
=============================================================================
