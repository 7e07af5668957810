--------------------------- MODULE MCExternalTask ---------------------------
EXTENDS ExternalTask
CONSTANTS r1, r2, t1, t2, approvals, campaigns
MCReplica == {r1, r2}
MCTask == {t1, t2}
MCTopics == <<approvals, campaigns>>
MCTopicOf == [t \in MCTask |-> campaigns]
=============================================================================
