-------------------------- MODULE MCConversations --------------------------
\* The instance of Conversations that TLC checks: one chat, and a file that is used in it.
EXTENDS Conversations

CONSTANT c1

MCUses == [f \in Files |-> {c1}]

=============================================================================
