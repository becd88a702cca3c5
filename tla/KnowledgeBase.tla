--------------------------- MODULE KnowledgeBase ---------------------------
(***************************************************************************)
(* The knowledge base: entries that agents and people write, the embedding *)
(* stored next to each after it has been written, and the search the next  *)
(* investigation makes, by embedding or, failing that, by substring.       *)
(*                                                                         *)
(* A write is two statements with a call of the embeddings service between *)
(* them: the row first, its embedding later and as far as it goes.  The    *)
(* embedding is made of all an entry says; the substring search looks at   *)
(* the error pattern alone, which an entry need not have.                  *)
(***************************************************************************)
EXTENDS Naturals, Sequences

CONSTANTS
    Texts,          \* what an entry says; a query is a text that only itself matches
    Writers,        \* concurrent requests
    NoText,         \* no error pattern
    MaxEntries,     \* bound: entries
    MaxEdits,       \* bound: updates
    MaxCitations    \* bound: citations of entries

ASSUME KnowledgeBaseAssumption ==
    NoText \notin Texts /\ {MaxEntries, MaxEdits, MaxCitations} \subseteq Nat

VARIABLES
    semantic,       \* an embeddings service is configured
    entries,        \* the rows of knowledge_base, oldest first
    writer,         \* the requests: what each does next, to which row, with which content
    edits,          \* updates so far
    embedFault,     \* history: an embedding was not made or not stored
    outdated        \* history: an embedding was stored last that is not of what the row says

kbVars == <<semantic, entries, writer, edits, embedFault, outdated>>

\* What a request says: an error pattern, if it has one, and a summary of cause and resolution.
Content == [pattern : Texts \union {NoText}, summary : Texts]
NoContent == [pattern |-> NoText, summary |-> NoText]
Says(content) == {content.pattern, content.summary} \ {NoText}

Entry == [content : Content, software : BOOLEAN, human : BOOLEAN, references : Nat,
          embedding : Content \union {NoContent}]
NewEntry(content, software, human) ==
    [content |-> content, software |-> software, human |-> human, references |-> 0,
     embedding |-> NoContent]

IdleWriter == [pc |-> "idle", entry |-> 0, content |-> NoContent, human |-> FALSE]

KbInit ==
    /\ semantic \in BOOLEAN
    /\ entries = <<>>
    /\ writer = [w \in Writers |-> IdleWriter]
    /\ edits = 0
    /\ embedFault = FALSE
    /\ outdated = FALSE

----------------------------------------------------------------------------
(***************************************************************************)
(* KnowledgeBaseService and its repository                                 *)
(***************************************************************************)
\* storeEmbedding has work to do after the write, or none.
WriterEmbeds(w, e, content) ==
    writer' = [writer EXCEPT ![w] =
        IF semantic THEN [IdleWriter EXCEPT !.pc = "embed", !.entry = e, !.content = content]
        ELSE IdleWriter]

InsertEntry(w, content, software, human) ==
    /\ Len(entries) < MaxEntries
    /\ entries' = Append(entries, NewEntry(content, software, human))
    /\ WriterEmbeds(w, Len(entries) + 1, content)
    /\ UNCHANGED <<semantic, edits, embedFault, outdated>>

\* POST /knowledge-base, by a person or by the outer loop at the end of a pipeline.
CreateKnowledgeBase(w, content, software) ==
    writer[w].pc = "idle" /\ InsertEntry(w, content, software, FALSE)

\* POST /incidents/:id/feedback: a negative rating with a correction, once stored, becomes
\* an entry; without software if the incident cannot be read.
CreateFeedback(w, correction) ==
    /\ writer[w].pc = "idle"
    /\ writer' = [writer EXCEPT ![w] = [IdleWriter EXCEPT !.pc = "promote",
                     !.content = [pattern |-> correction, summary |-> correction]]]
    /\ UNCHANGED <<semantic, entries, edits, embedFault, outdated>>

\* CreateFromHumanCorrection: the correction is both (as pattern, its first 500 bytes).  Its
\* failure is only logged.
PromoteCorrection(w) ==
    /\ writer[w].pc = "promote"
    /\ \E software \in BOOLEAN : InsertEntry(w, writer[w].content, software, TRUE)

PromotionFails(w) ==
    /\ writer[w].pc = "promote"
    /\ writer' = [writer EXCEPT ![w] = IdleWriter]
    /\ UNCHANGED <<semantic, entries, edits, embedFault, outdated>>

\* PUT /knowledge-base/:id reads the entry and sets what the request carries.
UpdateReads(w, e, content) ==
    /\ writer[w].pc = "idle"
    /\ edits < MaxEdits
    /\ edits' = edits + 1
    /\ writer' = [writer EXCEPT ![w] = [pc |-> "update", entry |-> e, content |-> content,
                                        human |-> entries[e].human]]
    /\ UNCHANGED <<semantic, entries, embedFault, outdated>>

\* The columns Update writes: neither the count of references nor the embedding.
UpdatedColumns(row, content, human) == [row EXCEPT !.content = content, !.human = human]

UpdateWrites(w) ==
    LET e == writer[w].entry IN
    /\ writer[w].pc = "update"
    /\ entries' = [entries EXCEPT ![e] = UpdatedColumns(@, writer[w].content, writer[w].human)]
    /\ WriterEmbeds(w, e, writer[w].content)
    /\ UNCHANGED <<semantic, edits, embedFault, outdated>>

Embedding(w, e) == writer[w].pc = "embed" /\ writer[w].entry = e

\* Nobody but w is about to embed what the row of its entry says, and w embeds something else.
StoresOutdated(w) ==
    LET e == writer[w].entry IN
    \A v \in Writers : Embedding(v, e) => writer[v].content # entries[e].content

\* Mutant: an entry that has an embedding keeps it.
StoreEmbeddingOnce(w) ==
    LET e == writer[w].entry IN
    /\ writer[w].pc = "embed"
    /\ entries' = [entries EXCEPT ![e].embedding = IF @ = NoContent THEN writer[w].content ELSE @]
    /\ writer' = [writer EXCEPT ![w] = IdleWriter]
    /\ outdated' = (outdated \/ StoresOutdated(w))
    /\ UNCHANGED <<semantic, edits, embedFault>>

\* What is embedded was kept by the request: the row may say something else by now.
StoreEmbedding(w) ==
    LET e == writer[w].entry IN
    /\ writer[w].pc = "embed"
    /\ entries' = [entries EXCEPT ![e].embedding = writer[w].content]
    /\ writer' = [writer EXCEPT ![w] = IdleWriter]
    /\ outdated' = (outdated \/ StoresOutdated(w))
    /\ UNCHANGED <<semantic, edits, embedFault>>

\* The embeddings service fails or answers nonsense, the statement fails, or the request dies.
EmbeddingFails(w) ==
    /\ writer[w].pc \in {"update", "embed"}
    /\ writer' = [writer EXCEPT ![w] = IdleWriter]
    /\ embedFault' = (embedFault \/ writer[w].pc = "embed")
    /\ UNCHANGED <<semantic, entries, edits, outdated>>

\* POST /knowledge-base/:id/references: one statement that adds to what is there.
IncrementReferences(e) ==
    /\ entries[e].references < MaxCitations
    /\ entries' = [entries EXCEPT ![e].references = @ + 1]
    /\ UNCHANGED <<semantic, writer, edits, embedFault, outdated>>

KbNext ==
    \/ \E w \in Writers :
         \/ \E content \in Content, software \in BOOLEAN : CreateKnowledgeBase(w, content, software)
         \/ \E correction \in Texts : CreateFeedback(w, correction)
         \/ PromoteCorrection(w)
         \/ PromotionFails(w)
         \/ \E e \in DOMAIN entries, content \in Content : UpdateReads(w, e, content)
         \/ UpdateWrites(w)
         \/ StoreEmbedding(w)
         \/ EmbeddingFails(w)
    \/ \E e \in DOMAIN entries : IncrementReferences(e)

KbSpec == KbInit /\ [][KbNext]_kbVars

----------------------------------------------------------------------------
(***************************************************************************)
(* GET and POST /knowledge-base/search.  The result cap is not modelled.   *)
(***************************************************************************)
\* The filter by software leaves out the entries that have none.
Eligible(bySoftware) == {e \in DOMAIN entries : bySoftware => entries[e].software}

\* Entries without an embedding are not there for this search.
SearchByEmbedding(query, bySoftware) ==
    {e \in Eligible(bySoftware) : query \in Says(entries[e].embedding)}

\* error_pattern ILIKE: the rest of what an entry says is not looked at.
SearchBySubstring(query, bySoftware) ==
    {e \in Eligible(bySoftware) : query = entries[e].content.pattern}

\* The answers a search may give: the fallback is for a query that cannot be embedded.
KbSearch(query, bySoftware) ==
    {SearchBySubstring(query, bySoftware)} \union
    (IF semantic THEN {SearchByEmbedding(query, bySoftware)} ELSE {})

----------------------------------------------------------------------------
KbTypeOK ==
    /\ semantic \in BOOLEAN
    /\ entries \in Seq(Entry) /\ Len(entries) <= MaxEntries
    /\ writer \in [Writers -> [pc : {"idle", "promote", "update", "embed"}, entry : 0 .. MaxEntries,
                               content : Content \union {NoContent}, human : BOOLEAN]]
    /\ edits \in 0 .. MaxEdits
    /\ embedFault \in BOOLEAN
    /\ outdated \in BOOLEAN

(***************************************************************************)
(* Once an entry is written and embedded, no search finds it for what it   *)
(* does not say or said before; every search finds it by its error         *)
(* pattern; and the semantic search by all it says.  So the fallback       *)
(* (features_repositories.go 116) may find less, but nothing else          *)
(* (KnowledgeBaseService.Update, storeEmbedding, Search).  Two writes of   *)
(* an entry whose embeddings are stored in the other order leave it        *)
(* outdated for good, and an embedding that fails leaves it where no       *)
(* semantic search finds it.                                               *)
(***************************************************************************)
SearchFollowsText ==
    \A e \in DOMAIN entries, query \in Texts, bySoftware \in BOOLEAN :
        \/ embedFault \/ outdated \/ \E w \in Writers : Embedding(w, e)
        \/ LET content == entries[e].content
               asked == bySoftware => entries[e].software
           IN  /\ \A answer \in KbSearch(query, bySoftware) :
                     /\ e \in answer => query \in Says(content) /\ asked
                     /\ query = content.pattern /\ asked => e \in answer
               /\ semantic /\ query \in Says(content) /\ asked =>
                     e \in SearchByEmbedding(query, bySoftware)
============================================================================
