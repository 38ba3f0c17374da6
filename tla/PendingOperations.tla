------------------------- MODULE PendingOperations --------------------------
(***************************************************************************)
(* core::archive::pending_operations (src/core/archive/                    *)
(* not_sent_messages.cpp): the outgoing messages the server has not        *)
(* confirmed and the deletions it has not confirmed, for one contact, as   *)
(* functions of the store [sent, deletes].                                 *)
(*                                                                         *)
(* An entry is a not_sent_message: iid is its internal id, of the message  *)
(* msg; msgid the id in the server's history, 0 for none (-1 in the code); *)
(* fresh says that it got a network request id of its own; posted that its *)
(* post time is set.  A deletion is the msgid it deletes.  Every operation *)
(* below ends by writing the whole store to the disk.                      *)
(***************************************************************************)
EXTENDS Naturals, Sequences

EmptyStore == [sent |-> <<>>, deletes |-> <<>>]

\* An entry for version text of msg, as make_message builds it.
Entry(msg, iid, text, msgid, modified) ==
    [msg |-> msg, iid |-> iid, text |-> text, msgid |-> msgid, fresh |-> FALSE,
     modified |-> modified, deleted |-> FALSE, posted |-> FALSE]

Has(store, iid) == \E i \in DOMAIN store.sent : store.sent[i].iid = iid

\* The first entry with an internal id, where the code's loops stop.
Place(store, iid) == CHOOSE i \in DOMAIN store.sent : store.sent[i].iid = iid

Get(store, iid) == store.sent[Place(store, iid)]

\* Every entry o of the store for which When(o) becomes Change(o).
Update(store, When(_), Change(_)) ==
    [store EXCEPT !.sent =
        [i \in DOMAIN @ |-> IF When(@[i]) THEN Change(@[i]) ELSE @[i]]]

Discard(store, iid) ==
    [store EXCEPT !.sent = SubSeq(@, 1, Place(store, iid) - 1)
                             \o SubSeq(@, Place(store, iid) + 1, Len(@))]

\* insert_message: replaces an entry with the same internal id, which an
\* assertion excludes, else appends.
InsertMessage(store, e) ==
    IF Has(store, e.iid)
    THEN Update(store, LAMBDA o : o.iid = e.iid, LAMBDA o : e)
    ELSE [store EXCEPT !.sent = Append(@, e)]

\* update_message_if_exist.
UpdateMessageIfExist(store, e) ==
    Update(store, LAMBDA o : o.iid = e.iid, LAMBDA o : e)

\* insert_deleted_message: pending entries of the message are marked, and a
\* message the server knows is queued for deletion.
InsertDeletedMessage(store, id, iid) ==
    LET marked == Update(store,
                         LAMBDA o : (id > 0 /\ o.msgid = id) \/ o.iid = iid,
                         LAMBDA o : [o EXCEPT !.deleted = TRUE])
    IN  IF id > 0 THEN [marked EXCEPT !.deletes = Append(@, id)] ELSE marked

\* Mutant: an entry that was edited meanwhile is dropped like the others.
MutantRemove(store, force, iid, id) ==
    IF ~Has(store, iid) THEN store
    ELSE IF Get(store, iid).deleted
    THEN Discard(InsertDeletedMessage(store, id, iid), iid)
    ELSE Discard(store, iid)

\* Mutant: the deleted flag of the entry is not looked at.
MutantRemoveDeleted(store, force, iid, id) ==
    IF ~Has(store, iid) THEN store
    ELSE IF Get(store, iid).modified /\ ~force
    THEN Update(store, LAMBDA o : o.iid = iid,
                LAMBDA o : [o EXCEPT !.msgid = id, !.modified = FALSE, !.fresh = TRUE])
    ELSE Discard(store, iid)

\* remove: the message iid was confirmed as id.  An entry deleted meanwhile
\* becomes a pending deletion; one edited meanwhile stays, to be sent as an
\* edit with a request id of its own, unless force (_remove_if_modified).
Remove(store, force, iid, id) ==
    IF ~Has(store, iid) THEN store
    ELSE LET e == Get(store, iid) IN
         IF e.deleted
         THEN Discard(InsertDeletedMessage(store, id, iid), iid)
         ELSE IF e.modified /\ ~force
         THEN Update(store, LAMBDA o : o.iid = iid,
                     LAMBDA o : [o EXCEPT !.msgid = id, !.modified = FALSE,
                                          !.fresh = TRUE])
         ELSE Discard(store, iid)

\* update_with_imstate: the same, told by the server's event; an edited entry
\* stays as it is and learns the id.
UpdateWithImstate(store, iid, id) ==
    IF ~Has(store, iid) THEN store
    ELSE LET e == Get(store, iid)
             known == Update(store, LAMBDA o : o.iid = iid,
                             LAMBDA o : [o EXCEPT !.msgid = id])
         IN  IF e.deleted
             THEN Discard(InsertDeletedMessage(known, id, iid), iid)
             ELSE IF e.modified THEN known ELSE Discard(known, iid)

\* update_message_post_time.
UpdatePostTime(store, iid) ==
    Update(store, LAMBDA o : o.iid = iid, LAMBDA o : [o EXCEPT !.posted = TRUE])

\* q without the elements that are d.
Without(q, d) ==
    LET kept[n \in 0..Len(q)] ==
            IF n = 0 THEN <<>>
            ELSE IF q[n] = d THEN kept[n - 1] ELSE Append(kept[n - 1], q[n])
    IN  kept[Len(q)]

\* remove_deleted_message.
RemoveDeletedMessage(store, id) ==
    [store EXCEPT !.deletes = Without(@, id)]

=============================================================================
