-------------------------- MODULE MCMessageSending --------------------------
\* What the user does with one or two messages, and how often the process dies.
EXTENDS MessageSending

Budget(messages, versions, erasable, crashes) ==
    [messages |-> messages, versions |-> versions, erasable |-> erasable,
     crashes |-> crashes]

\* One message, edited once and deleted, with a crash.
Edits == {Budget(1, 2, {1}, 1)}

\* Two messages in order, with a crash.
Order == {Budget(2, 1, {}, 1)}

\* Two messages, the first of which is deleted at any moment.
Overtaken == {Budget(2, 1, {1}, 0)}

EditsAndOrder == Edits \cup Order \cup Overtaken

\* One message, deleted at any moment, with a crash.
Deletion == {Budget(1, 1, {1}, 1)}
=============================================================================
