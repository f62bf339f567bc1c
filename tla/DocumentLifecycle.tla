-------------------------- MODULE DocumentLifecycle -------------------------
(***************************************************************************)
(* What the ingestion service promises about documents, whatever threads   *)
(* and stores do the work: content is accepted once while a document with  *)
(* it is registered, a status only moves along the table of                *)
(* document.py, and a document that is removed never comes back.           *)
(***************************************************************************)
EXTENDS DocumentStatus, Naturals

CONSTANTS Ids,       \* identifiers a document can be given
          Contents   \* pairs of a tenant and a content hash

VARIABLES life,      \* life[d]: "NEW", a status, or "GONE" for good
          owner      \* owner[d]: the content of a registered document

lifeVars == <<life, owner>>

NoContent == "none"

Registered(d) == life[d] \in Statuses

LifeInit == /\ life = [d \in Ids |-> "NEW"]
            /\ owner = [d \in Ids |-> NoContent]

\* POST /ingest answered 202.
Accept(d, h) == /\ life[d] = "NEW"
                /\ \A e \in Ids : Registered(e) => owner[e] # h
                /\ life' = [life EXCEPT ![d] = "UPLOADED"]
                /\ owner' = [owner EXCEPT ![d] = h]

\* Document.transition_to, made durable.
Advance(d, s) == /\ Registered(d)
                 /\ CanTransition(life[d], s)
                 /\ life' = [life EXCEPT ![d] = s]
                 /\ UNCHANGED owner

\* DELETE /documents/{id}, or an upload whose registration failed.
Retire(d) == /\ life[d] # "GONE"
             /\ life' = [life EXCEPT ![d] = "GONE"]
             /\ owner' = [owner EXCEPT ![d] = NoContent]

LifeNext == \E d \in Ids : \/ \E h \in Contents : Accept(d, h)
                           \/ \E s \in Statuses : Advance(d, s)
                           \/ Retire(d)

LifeSpec == LifeInit /\ [][LifeNext]_lifeVars

-----------------------------------------------------------------------------
\* Two registered documents never hold the same content of the same tenant
\* (UNIQUE (tenant_id, content_hash) in infra/postgres/init.sql).
ContentUnique == \A d, e \in Ids :
                    Registered(d) /\ Registered(e) /\ owner[d] = owner[e] => d = e
=============================================================================
