------------------------------ MODULE MCStores ------------------------------
(* Instances of what is kept: the schema and its migrations                  *)
(* (SchemaMigrations), the database file with its write-ahead log, backups    *)
(* and restores (DbStore), the transcripts and bodies reviews leave behind    *)
(* (RunArtifacts), backlog items in rows and files (BacklogItems) and         *)
(* knowledge entries in rows and files (KnowledgeEntries).  They share no     *)
(* variable: part says which of them moves.                                  *)
EXTENDS SchemaMigrations, DbStore, RunArtifacts, BacklogItems, KnowledgeEntries

VARIABLE part

\* Both candidates propose the same text.
OneText == [c \in 1..MaxCandidates |-> 1]

StoresInit ==
    /\ part \in {"schema", "file", "artifacts", "backlog", "knowledge"}
    /\ SchemaInit /\ StoreInit /\ ArtifactsInit /\ BacklogInit /\ KnowledgeInit

StoresNext ==
    \/ part = "schema" /\ SchemaNext
       /\ UNCHANGED <<part, storeVars, artifactVars, backlogVars, knowledgeVars>>
    \/ part = "file" /\ StoreNext
       /\ UNCHANGED <<part, schemaVars, artifactVars, backlogVars, knowledgeVars>>
    \/ part = "artifacts" /\ ArtifactsNext
       /\ UNCHANGED <<part, schemaVars, storeVars, backlogVars, knowledgeVars>>
    \/ part = "backlog" /\ BacklogNext
       /\ UNCHANGED <<part, schemaVars, storeVars, artifactVars, knowledgeVars>>
    \/ part = "knowledge" /\ KnowledgeNext
       /\ UNCHANGED <<part, schemaVars, storeVars, artifactVars, backlogVars>>

StoresSpec ==
    StoresInit
      /\ [][StoresNext]_<<part, schemaVars, storeVars, artifactVars,
                          backlogVars, knowledgeVars>>
=============================================================================
