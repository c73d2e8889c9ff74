----------------------------- MODULE MCBackups -----------------------------
EXTENDS Backups

CONSTANTS m1, m2

MCRevisions == {[models |-> <<m1, m1, m2>>, usable |-> TRUE],
                [models |-> <<m1>>, usable |-> FALSE]}
MCReplies == {"object", "prose", "unreachable", "refused"}
=============================================================================
