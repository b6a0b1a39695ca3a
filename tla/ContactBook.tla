------------------------------ MODULE ContactBook ------------------------------
(***************************************************************************)
(* An address book beside a calendar.  In the code the two have tables,    *)
(* queues and tasks of their own (contact_sync_queue, contact_task.go) and *)
(* share only the pool that runs them, so ContactSync is instantiated here *)
(* with constants and variables under names of its own: one module can     *)
(* then speak of both siblings.                                            *)
(***************************************************************************)
EXTENDS Naturals, FiniteSets

CONSTANTS Contact, ContactId, NoCard, CardPushLimit, MaxCardChanges, MaxCardFailures

VARIABLES cardServer, card, cardQueue, cardPush, cardPull, cardChanges, cardFailures,
          cardOwed, cardRisky, cardStranded

Book == INSTANCE ContactSync
          WITH None <- NoCard, PushLimit <- CardPushLimit,
               MaxChanges <- MaxCardChanges, MaxFailures <- MaxCardFailures,
               server <- cardServer, row <- card, queue <- cardQueue,
               push <- cardPush, pull <- cardPull,
               changes <- cardChanges, failures <- cardFailures,
               owed <- cardOwed, risky <- cardRisky, stranded <- cardStranded

\* Of the constants of ContactSync: ids and limits are numbers, and NULL is neither
\* a number nor a row nor an entry.
ASSUME BookAssumption ==
    /\ ContactId \subseteq Nat
    /\ NoCard \notin Nat
    /\ CardPushLimit \in Nat \ {0}
    /\ MaxCardChanges \in Nat /\ MaxCardFailures \in Nat
    /\ NoCard \notin Book!Row /\ NoCard \notin Book!Entry

BookFairSpec == Book!FairSpec

-----------------------------------------------------------------------------
(* Properties of the address book, under names of their own.               *)

\* A queued card stays queued until the remote has it, but for the two races
\* (ContactSync, of contact_sync_push_task.go).
CardChangesAreNotLost == Book!ChangesAreNotLost

\* The pull puts nothing over an unsent edit that was there when it compared, nor over
\* a contact made since (ContactSync, of ApplyContactSyncChanges).
EditsAreSpared == Book!EditsAreSpared

\* Once the writing stops, the book and its server agree on every card
\* (ContactSync).
CardsAgree == Book!BothSidesAgree
=============================================================================
