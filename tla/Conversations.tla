---------------------------- MODULE Conversations ----------------------------
(***************************************************************************)
(* MessagesService of one company: conversations with candidates, and the  *)
(* job proposals in them.  create finds the conversation or inserts it,    *)
(* looks for the proposal, and sends it, in statements of their own.       *)
(* Other messages, and what has been read of them, decide nothing and are  *)
(* left out.                                                               *)
(***************************************************************************)
EXTENDS Naturals

CONSTANTS Partners,       \* candidates
          Offers,         \* jobs of the company
          Senders,        \* requests and socket events of its members
          MaxProposals,   \* bound on the proposals of one job to one candidate
          NoOffer

ASSUME ConversationsAssumption == MaxProposals \in Nat \ {0} /\ NoOffer \notin Offers \cup Partners

VARIABLES
  conversation,  \* candidates the company has a conversation with
  proposals,     \* [Partners \X Offers -> number of messages that propose the job]
  sending,       \* [Senders -> the await a request is at, its candidate and its job]
  repeated       \* history: proposals sent as messages, or created by requests that overlapped

talkVars == <<conversation, proposals, sending, repeated>>

Sending == [at: {"idle", "conversation_insert", "proposal_exist", "message_insert"},
            to: Partners \cup {NoOffer}, offer: Offers \cup {NoOffer}]

SendingIdle == [at |-> "idle", to |-> NoOffer, offer |-> NoOffer]

TalkTypeOK ==
  /\ conversation \in SUBSET Partners
  /\ proposals \in [Partners \X Offers -> 0..MaxProposals]
  /\ sending \in [Senders -> Sending]
  /\ repeated \in SUBSET (Partners \X Offers)

TalkInit ==
  /\ conversation = {}
  /\ proposals = [m \in Partners \X Offers |-> 0]
  /\ sending = [r \in Senders |-> SendingIdle]
  /\ repeated = {}

GoOn(r, label) == sending' = [sending EXCEPT ![r].at = label]
Sent(r) == sending' = [sending EXCEPT ![r] = SendingIdle]

\* create finds the conversation with the candidate, or none ...
ConversationFind(r, p, o) ==
  /\ sending[r].at = "idle"
  /\ sending' = [sending EXCEPT ![r] =
       [at |-> IF p \in conversation THEN "proposal_exist" ELSE "conversation_insert",
        to |-> p, offer |-> o]]
  /\ repeated' = IF \E q \in Senders : sending[q].to = p /\ sending[q].offer = o /\ o # NoOffer
                 THEN repeated \cup {<<p, o>>} ELSE repeated
  /\ UNCHANGED <<conversation, proposals>>

\* ... inserts it, unless another has, which the unique pair of company and candidate tells ...
ConversationInsert(r) ==
  /\ sending[r].at = "conversation_insert" /\ sending[r].to \notin conversation
  /\ conversation' = conversation \cup {sending[r].to}
  /\ GoOn(r, "proposal_exist")
  /\ UNCHANGED <<proposals, repeated>>

\* A create that proposes a job again.
ProposalExistUnasked(r) ==
  /\ sending[r].at = "proposal_exist"
  /\ IF sending[r].offer = NoOffer THEN Sent(r) ELSE GoOn(r, "message_insert")
  /\ UNCHANGED <<conversation, proposals, repeated>>

\* ... looks for an earlier proposal of the job, if one is given ...
ProposalExist(r) ==
  LET m == <<sending[r].to, sending[r].offer>> IN
  /\ sending[r].at = "proposal_exist"
  /\ IF sending[r].offer = NoOffer THEN Sent(r)
     ELSE IF proposals[m] > 0 THEN Sent(r) ELSE GoOn(r, "message_insert")
  /\ UNCHANGED <<conversation, proposals, repeated>>

\* send(), of a message that proposes a job, does not look for an earlier one.
SendProposal(r, p, o) ==
  /\ sending[r].at = "idle" /\ p \in conversation /\ o # NoOffer
  /\ sending' = [sending EXCEPT ![r] = [at |-> "message_insert", to |-> p, offer |-> o]]
  /\ repeated' = repeated \cup {<<p, o>>}
  /\ UNCHANGED <<conversation, proposals>>

\* ... and sends the message.
MessageInsert(r) ==
  LET m == <<sending[r].to, sending[r].offer>> IN
  /\ sending[r].at = "message_insert" /\ proposals[m] < MaxProposals
  /\ proposals' = [proposals EXCEPT ![m] = @ + 1]
  /\ Sent(r)
  /\ UNCHANGED <<conversation, repeated>>

\* A check or a statement fails, or the process dies: what was inserted stays.
FailSend(r) ==
  /\ sending[r].at # "idle"
  /\ Sent(r)
  /\ UNCHANGED <<conversation, proposals, repeated>>

MessageRoutes(r, p) ==
  \E o \in Offers \cup {NoOffer} : ConversationFind(r, p, o) \/ SendProposal(r, p, o)

SendStep(r) == ConversationInsert(r) \/ ProposalExist(r) \/ MessageInsert(r) \/ FailSend(r)

\* A job is proposed once to a candidate, and in a conversation, however often create is called
\* or tried again after a failure, unless two calls overlapped or a member sent the proposal
\* as a message.
ProposedOnce ==
  \A p \in Partners, o \in Offers :
    /\ proposals[<<p, o>>] > 1 => <<p, o>> \in repeated
    /\ proposals[<<p, o>>] > 0 => p \in conversation
=============================================================================
