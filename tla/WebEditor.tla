------------------------------ MODULE WebEditor ------------------------------
(***************************************************************************)
(* Editing one file's metadata in the open row (FileEditor of              *)
(* app/_zdroje/files-modal.tsx) against the server's optimistic versions   *)
(* (patchFor of src/files/web.ts): several tabs with a form each, a type   *)
(* switch that is saved at once, the rest saved with a button, answers     *)
(* that get lost. The metadata are a type and a text for all other fields. *)
(***************************************************************************)
EXTENDS Naturals

CONSTANTS
    Tabs,          \* open rows of the same file, in any browser
    Texts,         \* contents of the other fields, 0 is the proposal
    MaxMeta        \* bound: versions of the metadata

ASSUME WebEditorAssumption == 0 \in Texts /\ MaxMeta \in Nat

Types == {"kniha", "clanek"}
OtherType(type) == CHOOSE other \in Types : other # type

VARIABLES
    meta,       \* at the server: version, type, text
    editor,     \* per tab: what it loaded, its form, its request
    pressed,    \* texts some user saved
    overtaken,  \* tabs whose type switch was answered with a later save's metadata
    blind       \* another tab's save replaced a text that its form did not start from

editorVars == <<meta, editor, pressed, overtaken, blind>>

Meta(version, type, text) == [version |-> version, type |-> type, text |-> text]
\* from: the text the form was filled with.
Form(type, text, from) == [type |-> type, text |-> text, from |-> from]
FormFromMeta(m) == Form(m.type, m.text, m.text)
Request(action, stage, form, answer) ==
    [action |-> action, stage |-> stage, form |-> form, answer |-> answer]
NoRequest(m) == Request("none", "none", FormFromMeta(m), m)
Proposal == Meta(0, "kniha", 0)

\* The row of a tab, loaded: setDoc and setValues.
Loaded(m) == [doc |-> m, form |-> FormFromMeta(m), busy |-> NoRequest(Proposal)]

EditorInit ==
    /\ meta = Proposal
    /\ editor = [t \in Tabs |-> Loaded(Proposal)]
    /\ pressed = {0} /\ overtaken = {} /\ blind = FALSE

EditorIdle(t) == editor[t].busy = NoRequest(Proposal)

\* Opened again, or "Načíst znovu" after a conflict.
Reloads(t) ==
    /\ EditorIdle(t)
    /\ editor' = [editor EXCEPT ![t] = Loaded(meta)]
    /\ overtaken' = overtaken \ {t}
    /\ UNCHANGED <<meta, pressed, blind>>

Edits(t, text) ==
    /\ EditorIdle(t)
    /\ editor' = [editor EXCEPT ![t] = [@ EXCEPT !.form.text = text]]
    /\ UNCHANGED <<meta, pressed, overtaken, blind>>

ChangeType_sendsForm(t, type) ==
    /\ EditorIdle(t) /\ type # editor[t].form.type
    /\ LET sent == [editor[t].form EXCEPT !.type = type]
       IN  editor' = [editor EXCEPT ![t] =
                        [@ EXCEPT !.form.type = type,
                                  !.busy = Request("type", "sent", sent, Proposal)]]
    /\ UNCHANGED <<meta, pressed, overtaken, blind>>

(* changeType sends the stored metadata with the new type; the form's      *)
(* other edits stay in the form.                                           *)
ChangeType(t, type) ==
    /\ EditorIdle(t) /\ type # editor[t].form.type
    /\ LET sent == [FormFromMeta(editor[t].doc) EXCEPT !.type = type]
       IN  editor' = [editor EXCEPT ![t] =
                        [@ EXCEPT !.form.type = type,
                                  !.busy = Request("type", "sent", sent, Proposal)]]
    /\ UNCHANGED <<meta, pressed, overtaken, blind>>

Saves(t) ==
    /\ EditorIdle(t)
    /\ editor' = [editor EXCEPT ![t].busy = Request("save", "sent", editor[t].form, Proposal)]
    /\ pressed' = pressed \cup {editor[t].form.text}
    /\ UNCHANGED <<meta, overtaken, blind>>

Conflicts_never(t) == FALSE

Conflicts(t) == editor[t].doc.version # meta.version

(* updateDocumentMeta and confirmDocument: one update where the version is *)
(* still the one the form was loaded with.                                 *)
PatchCommits(t) ==
    LET sent == editor[t].busy.form
    IN  /\ editor[t].busy.stage = "sent" /\ ~Conflicts(t) /\ meta.version < MaxMeta
        /\ meta' = Meta(meta.version + 1, sent.type, sent.text)
        /\ blind' = (blind \/ (sent.from # meta.text /\ t \notin overtaken))
        /\ editor' = [editor EXCEPT ![t] = [@ EXCEPT !.busy.stage = "saved"]]
        /\ UNCHANGED <<pressed, overtaken>>

\* detailFor reads the answer in a transaction of its own: it may hold what
\* another tab has saved since.
DetailReads(t) ==
    /\ editor[t].busy.stage = "saved"
    /\ editor' = [editor EXCEPT ![t] = [@ EXCEPT !.busy.stage = "answered", !.busy.answer = meta]]
    /\ UNCHANGED <<meta, pressed, overtaken, blind>>

(* A type change takes the answer as the document and leaves the form; a   *)
(* save fills the form from it.                                            *)
PatchArrives(t) ==
    LET answer == editor[t].busy.answer
    IN  /\ editor[t].busy.stage = "answered"
        /\ \/ /\ editor[t].busy.action = "save"
              /\ editor' = [editor EXCEPT ![t] = Loaded(answer)]
              /\ overtaken' = overtaken \ {t}
           \/ /\ editor[t].busy.action # "save"
              /\ editor' = [editor EXCEPT ![t] = [@ EXCEPT !.doc = answer, !.busy = NoRequest(Proposal)]]
              /\ overtaken' = IF answer.version = editor[t].doc.version + 1 THEN overtaken
                              ELSE overtaken \cup {t}
        /\ UNCHANGED <<meta, pressed, blind>>

(* A conflict or any other refusal, or an answer that is lost: the type    *)
(* goes back to the one before, the document stays as it was loaded.       *)
PatchFails(t) ==
    LET type == editor[t].form.type
    IN  /\ editor[t].busy.stage \in {"sent", "answered"}
        /\ editor' = [editor EXCEPT ![t] =
             [@ EXCEPT !.form.type = IF editor[t].busy.action = "type" THEN OtherType(type) ELSE type,
                       !.busy = NoRequest(Proposal)]]
        /\ UNCHANGED <<meta, pressed, overtaken, blind>>

EditorNext ==
    \E t \in Tabs :
        \/ Reloads(t)
        \/ \E text \in Texts : Edits(t, text)
        \/ \E type \in Types : ChangeType(t, type)
        \/ Saves(t) \/ PatchCommits(t) \/ DetailReads(t) \/ PatchArrives(t) \/ PatchFails(t)

EditorSpec == EditorInit /\ [][EditorNext]_editorVars
-----------------------------------------------------------------------------
(* A save never replaces fields its user did not see, and nothing is       *)
(* stored that nobody pressed Uložit for: a type switched while fields are *)
(* edited stores the type alone and leaves the edits in the form           *)
(* (files-modal.tsx:475 "unsaved field edits stay in the form only").  But *)
(* for one case: a tab whose type switch is answered with what another tab *)
(* saved meanwhile (web.ts:366 reads it in a transaction of its own) takes *)
(* that version for its own without showing it, and may replace it.        *)
NothingSavedUnseen == ~blind /\ meta.text \in pressed
=============================================================================
