--------------------------- MODULE RealtimeEvents ---------------------------
(* The accumulator of a voice session (src/voice/realtime-events.ts):      *)
(* provider events arrive in any order, and are paired into exchanges of a *)
(* user's and an assistant's transcript by the links between the items of  *)
(* the conversation.                                                       *)
(*                                                                         *)
(* The provider's conversation is fixed: items in the order they were      *)
(* said, each linked to the one before; an item has one text.  An event    *)
(* that contradicts an earlier one is malformed.                           *)
EXTENDS Naturals, Sequences, SequencesExt, Functions, FiniteSets

CONSTANTS Said,       \* the items in the order of the conversation
          UserItem,   \* those the user said
          Response

Item == ToSet(Said)
Assistant == Item \ UserItem
Unbound == [r \in {} |-> r]

Empty == [created |-> {}, heard |-> {}, texts |-> Unbound, itemTexts |-> {}, items |-> Unbound,
          statuses |-> <<>>, declared |-> Unbound, done |-> {}, consumed |-> {}]

Binds(f, r, i) == r \in DOMAIN f /\ f[r] = i
Bound(f, r, i) == [q \in DOMAIN f \cup {r} |-> IF q = r THEN i ELSE f[q]]
StatusOf(acc, r) == {acc.statuses[k].status : k \in {j \in DOMAIN acc.statuses : acc.statuses[j].response = r}}

(* linkedUserItemId: from the assistant's item back to the first user item *)
(* there is, as far as the links have arrived.                             *)
Index(i) == CHOOSE k \in DOMAIN Said : Said[k] = i
NewestUser(acc, i) == {u \in acc.heard : Index(u) < Index(i)}              \* mutant
LinkedUser(acc, i) ==
    {u \in acc.heard : /\ Index(u) < Index(i)
                       /\ \A k \in Index(u)..Index(i) : Said[k] \in acc.created
                       /\ \A k \in Index(u) + 1 .. Index(i) : Said[k] \notin UserItem}

(* emitCompleted: the completed responses whose pair is known, in the      *)
(* order their statuses arrived; result.pairs is what onCompleted is given.*)
Answers(acc, r) == IF StatusOf(acc, r) = {"completed"} /\ r \in DOMAIN acc.texts \ acc.done
                   THEN LinkedUser(acc, acc.texts[r]) \ acc.consumed ELSE {}
Emit(result, entry) ==
    LET users == Answers(result.acc, entry.response)
        u == CHOOSE v \in users : TRUE
    IN IF users = {} THEN result
       ELSE [acc |-> [result.acc EXCEPT !.done = @ \cup {entry.response}, !.consumed = @ \cup {u}],
             pairs |-> Append(result.pairs, [user |-> u, assistant |-> result.acc.texts[entry.response]])]
Quiet(acc) == [acc |-> acc, pairs |-> <<>>]
Emitted(acc) ==
    LET result[n \in 0..Len(acc.statuses)] ==
            IF n = 0 THEN Quiet(acc) ELSE Emit(result[n - 1], acc.statuses[n])
    IN result[Len(acc.statuses)]

Malformed == [acc |-> Empty, pairs |-> <<>>, malformed |-> TRUE]
Handled(result) == [acc |-> result.acc, pairs |-> result.pairs, malformed |-> FALSE]

(***************************************************************************)
(* acceptMessage, by the type of the event.                                *)
(***************************************************************************)
UserTranscript(acc, i) == IF i \in acc.heard THEN Handled(Quiet(acc))
                          ELSE Handled(Emitted([acc EXCEPT !.heard = @ \cup {i}]))

LinkSilently(acc, i) == Handled(Quiet([acc EXCEPT !.created = @ \cup {i}]))  \* mutant
ItemCreated(acc, i) == Handled(Emitted([acc EXCEPT !.created = @ \cup {i}]))

RecordAssistant(acc, r, i) ==
    IF r \in DOMAIN acc.items /\ acc.items[r] # i THEN Malformed
    ELSE IF \/ r \in DOMAIN acc.texts
            \/ i \in acc.itemTexts
            \/ StatusOf(acc, r) \notin {{}, {"completed"}} \/ r \in acc.done
         THEN Handled(Quiet(acc))
    ELSE Handled(Emitted([acc EXCEPT !.itemTexts = @ \cup {i}, !.items = Bound(@, r, i),
                                     !.texts = Bound(@, r, i)]))

(* outputs is the set of the item the response declares, or empty.         *)
RecordResponseStatus(acc, r, status, outputs) ==
    IF \E i \in outputs : \E f \in {acc.texts, acc.items} : r \in DOMAIN f /\ f[r] # i
    THEN Malformed
    ELSE IF StatusOf(acc, r) # {}
         THEN IF StatusOf(acc, r) = {status} /\ acc.declared[r] = outputs
              THEN Handled(Quiet(acc)) ELSE Malformed
    ELSE LET known == [acc EXCEPT !.statuses = Append(@, [response |-> r, status |-> status]),
                                  !.declared = Bound(@, r, outputs),
                                  !.items = IF outputs = {} THEN @
                                            ELSE Bound(@, r, CHOOSE i \in outputs : TRUE)]
         IN IF status = "completed" THEN Handled(Emitted(known))
            ELSE Handled(Quiet([known EXCEPT !.texts = Restrict(@, DOMAIN @ \ {r})]))
=============================================================================
