----------------------------- MODULE ClientsProofs -----------------------------
(***************************************************************************)
(* What the web page shows, edits and keeps, what the connection to Zotero *)
(* holds and what a search of the own documents answers, for any number of *)
(* tabs, files, requests, instances, passages, channels and variants; and  *)
(* what a reader of one sees, however long and wherever it is cut.  A      *)
(* behaviour of MCClients follows one part and leaves the others alone, so *)
(* each invariant is one of its part.                                      *)
(*                                                                         *)
(* In this order: the editor, the summary, the list and the views of the   *)
(* connection, the connection itself, the modals; then one call of the     *)
(* search with the pages of its hits (FilesSearch), and how its answer is  *)
(* put together from the channels of every variant (SearchFusion): places  *)
(* in an order, the rows of a channel, one document, one variant, the      *)
(* merge of the variants. Last, the windows of a document (ReadWindows):   *)
(* the parts of a range, how they are put into windows, where a window's   *)
(* ends move to, and a reader who makes the calls that answers offer.      *)
(***************************************************************************)
EXTENDS MCClients, DataTheorems

(* The steps of one part of a behaviour. *)
LEMMA PartSteps ==
    ASSUME [Next]_vars
    PROVE  /\ clientPart' = clientPart
           /\ clientPart = "connection" => [ConnNext]_connVars
           /\ clientPart = "modals" => [ModalsNext]_modalVars
           /\ clientPart = "summary" => [SummaryNext]_summaryVars
           /\ clientPart = "list" => [ListNext]_listVars
           /\ clientPart = "editor" => [EditorNext]_editorVars
           /\ clientPart = "status" => [WebZoteroNext]_webZoteroVars
           /\ clientPart = "search" => [SearchCallNext]_searchCallVars
           /\ clientPart = "fusion" => [FusionNext]_fusionVars
           /\ clientPart = "reading" => [ReadNext]_readVars
           /\ clientPart # "connection" => UNCHANGED connVars
           /\ clientPart # "editor" => UNCHANGED editorVars
BY DEF Next, vars, ownVars

LEMMA PartStarts ==
    ASSUME Init
    PROVE  /\ clientPart = "connection" => ConnInit
           /\ clientPart = "modals" => ModalsInit
           /\ clientPart = "summary" => SummaryInit
           /\ clientPart = "list" => ListInit
           /\ clientPart = "editor" => EditorInit
           /\ clientPart = "status" => WebZoteroInit
           /\ clientPart = "search" => SearchCallInit
           /\ clientPart = "fusion" => FusionInit
           /\ clientPart = "reading" => ReadInit
           /\ clientPart # "editor" => NothingSavedUnseen
BY DEF Init, NothingSavedUnseen, Proposal, Meta
-----------------------------------------------------------------------------
(* The editor: a form is filled from what its tab loaded, unless the tab   *)
(* was overtaken, and what the tab loaded is the stored metadata unless a  *)
(* newer version is; an answer is the version its save made or a later one.*)
EditorMetas == [version : Nat, type : Types, text : Texts]
EditorForms == [type : Types, text : Texts, from : Texts]
EditorRequests == [action : {"none", "type", "save"}, stage : {"none", "sent", "saved", "answered"},
                   form : EditorForms, answer : EditorMetas]
EditorRows == [doc : EditorMetas, form : EditorForms, busy : EditorRequests]

SameOrOlder(o, m) == o.version <= m.version /\ (o.version = m.version => o.text = m.text)

NextVersion(o, m, text) == o.version < m.version /\ (m.version = o.version + 1 => m.text = text)

RowOK(t, e, m, saved, ahead) ==
    /\ SameOrOlder(e.doc, m)
    /\ t \notin ahead => e.form.from = e.doc.text
    /\ e.busy.stage # "none" => e.busy.action \in {"type", "save"}
    /\ e.busy.stage = "sent" /\ t \notin ahead => e.busy.form.from = e.doc.text
    /\ e.busy.stage \in {"sent", "saved"} =>
         IF e.busy.action = "type" THEN e.busy.form.text = e.doc.text ELSE e.busy.form.text \in saved
    /\ e.busy.stage = "saved" => NextVersion(e.doc, m, e.busy.form.text)
    /\ e.busy.stage = "answered" =>
         /\ SameOrOlder(e.busy.answer, m)
         /\ e.busy.action = "type" /\ e.busy.answer.version = e.doc.version + 1
              => e.busy.answer.text = e.doc.text

EditorInv ==
    /\ meta \in EditorMetas
    /\ editor \in [Tabs -> EditorRows]
    /\ NothingSavedUnseen
    /\ \A t \in Tabs : RowOK(t, editor[t], meta, pressed, overtaken)

LEMMA EditorTypes ==
    /\ \A v \in Nat, type \in Types, text \in Texts :
         /\ Meta(v, type, text) \in EditorMetas
         /\ Meta(v, type, text).version = v /\ Meta(v, type, text).text = text
    /\ \A m \in EditorMetas :
         /\ FormFromMeta(m) \in EditorForms /\ FormFromMeta(m).from = m.text /\ FormFromMeta(m).text = m.text
         /\ NoRequest(m) \in EditorRequests /\ NoRequest(m).stage = "none"
    /\ Proposal \in EditorMetas
    /\ \A m \in EditorMetas : Loaded(m) \in EditorRows /\ Loaded(m).doc = m
                              /\ Loaded(m).form = FormFromMeta(m) /\ Loaded(m).busy = NoRequest(Proposal)
    /\ \A a \in {"type", "save"}, f \in EditorForms :
         /\ Request(a, "sent", f, Proposal) \in EditorRequests
         /\ Request(a, "sent", f, Proposal).action = a
         /\ Request(a, "sent", f, Proposal).stage = "sent"
         /\ Request(a, "sent", f, Proposal).form = f
<1>1. \A v \in Nat, type \in Types, text \in Texts :
         /\ Meta(v, type, text) \in EditorMetas
         /\ Meta(v, type, text).version = v /\ Meta(v, type, text).text = text
  BY DEF Meta, EditorMetas
<1>2. Proposal \in EditorMetas
  BY <1>1, WebEditorAssumption DEF Proposal, Types
<1>3. \A m \in EditorMetas :
         FormFromMeta(m) \in EditorForms /\ FormFromMeta(m).from = m.text /\ FormFromMeta(m).text = m.text
  BY DEF FormFromMeta, Form, EditorMetas, EditorForms
<1>4. \A m \in EditorMetas : NoRequest(m) \in EditorRequests /\ NoRequest(m).stage = "none"
  BY <1>3 DEF NoRequest, Request, EditorRequests
<1>5. \A m \in EditorMetas : /\ Loaded(m) \in EditorRows /\ Loaded(m).doc = m
                             /\ Loaded(m).form = FormFromMeta(m) /\ Loaded(m).busy = NoRequest(Proposal)
  BY <1>2, <1>3, <1>4 DEF Loaded, EditorRows
<1>6. \A a \in {"type", "save"}, f \in EditorForms :
         /\ Request(a, "sent", f, Proposal) \in EditorRequests
         /\ Request(a, "sent", f, Proposal).action = a
         /\ Request(a, "sent", f, Proposal).stage = "sent"
         /\ Request(a, "sent", f, Proposal).form = f
  BY <1>2 DEF Request, EditorRequests
<1> QED
  BY <1>1, <1>2, <1>3, <1>4, <1>5, <1>6

LEMMA EditorStarts == EditorInit => EditorInv
<1> SUFFICES ASSUME EditorInit  PROVE EditorInv
  OBVIOUS
<1>1. /\ meta \in EditorMetas /\ meta = Proposal /\ meta.text = 0
      /\ editor \in [Tabs -> EditorRows] /\ \A t \in Tabs : editor[t] = Loaded(Proposal)
  BY EditorTypes, WebEditorAssumption DEF EditorInit, Proposal, Types
<1>2. NothingSavedUnseen
  BY <1>1 DEF EditorInit, NothingSavedUnseen
<1>3. \A t \in Tabs : RowOK(t, Loaded(Proposal), meta, pressed, overtaken)
  <2>1. Proposal.version <= meta.version
    BY <1>1 DEF EditorMetas
  <2> QED
    BY <1>1, <2>1, EditorTypes DEF RowOK, SameOrOlder
<1> QED
  BY <1>1, <1>2, <1>3 DEF EditorInv

(* A step of one row that leaves the stored metadata alone.                *)
LEMMA RowSteps ==
    ASSUME EditorInv, NEW t \in Tabs, NEW e \in EditorRows, editor' = [editor EXCEPT ![t] = e],
           UNCHANGED <<meta, blind>>, pressed \subseteq pressed', overtaken' \ {t} = overtaken \ {t},
           RowOK(t, e, meta', pressed', overtaken')
    PROVE  EditorInv'
<1>1. editor' \in [Tabs -> EditorRows] /\ editor'[t] = e /\ \A u \in Tabs \ {t} : editor'[u] = editor[u]
  BY DEF EditorInv
<1>2. \A u \in Tabs \ {t} : u \in overtaken' <=> u \in overtaken
  OBVIOUS
<1>3. \A u \in Tabs \ {t} : RowOK(u, editor'[u], meta', pressed', overtaken')
  BY <1>1, <1>2 DEF EditorInv, RowOK
<1> QED
  BY <1>1, <1>3 DEF EditorInv, NothingSavedUnseen

LEMMA EditorStepsOK ==
    ASSUME EditorInv, NEW t \in Tabs,
           \/ Reloads(t) \/ (\E text \in Texts : Edits(t, text)) \/ (\E type \in Types : ChangeType(t, type))
           \/ Saves(t) \/ PatchCommits(t) \/ DetailReads(t) \/ PatchArrives(t) \/ PatchFails(t)
    PROVE  EditorInv'
<1> DEFINE row == editor[t]
<1>0. /\ meta \in EditorMetas /\ editor \in [Tabs -> EditorRows] /\ row \in EditorRows /\ RowOK(t, row, meta, pressed, overtaken)
      /\ ~blind /\ meta.text \in pressed
      /\ row.doc \in EditorMetas /\ row.form \in EditorForms /\ row.busy \in EditorRequests
      /\ row.busy.form \in EditorForms /\ row.busy.answer \in EditorMetas
      /\ Proposal \in EditorMetas
  BY EditorTypes DEF EditorInv, EditorRows, EditorRequests, NothingSavedUnseen
<1>1. CASE Reloads(t)
  <2>1. Loaded(meta) \in EditorRows /\ RowOK(t, Loaded(meta), meta', pressed', overtaken')
    <3>1. UNCHANGED meta /\ meta.version <= meta.version
      BY <1>0, <1>1 DEF Reloads, EditorMetas
    <3> QED
      BY <1>0, <3>1, EditorTypes DEF RowOK, SameOrOlder
  <2> QED
    BY <1>1, <2>1, RowSteps DEF Reloads
<1>2. ASSUME NEW text \in Texts, Edits(t, text)  PROVE EditorInv'
  <2> DEFINE e == [row EXCEPT !.form.text = text]
  <2>1. editor' = [editor EXCEPT ![t] = e]
    BY <1>0, <1>2 DEF Edits, EditorRows
  <2>2. e \in EditorRows /\ e.doc = row.doc /\ e.busy = row.busy /\ e.form.from = row.form.from
    BY <1>0 DEF EditorRows, EditorForms
  <2>3. RowOK(t, e, meta', pressed', overtaken')
    BY <1>0, <1>2, <2>2 DEF Edits, RowOK, SameOrOlder
  <2> QED
    BY <1>2, <2>1, <2>2, <2>3, RowSteps DEF Edits
<1>3. ASSUME NEW type \in Types, ChangeType(t, type)  PROVE EditorInv'
  <2> DEFINE sent == [FormFromMeta(row.doc) EXCEPT !.type = type]
             form == [row.form EXCEPT !.type = type]
             busy == Request("type", "sent", sent, Proposal)
             e == [row EXCEPT !.form.type = type, !.busy = busy]
  <2>1. sent \in EditorForms /\ sent.from = row.doc.text /\ sent.text = row.doc.text
        /\ form \in EditorForms /\ form.from = row.form.from
    BY <1>0, EditorTypes DEF EditorForms
  <2> HIDE DEF sent, form
  <2>2. busy \in EditorRequests /\ busy.action = "type" /\ busy.stage = "sent" /\ busy.form = sent
    BY <2>1, EditorTypes
  <2> HIDE DEF busy
  <2>3. e \in EditorRows /\ e.doc = row.doc /\ e.busy = busy /\ e.form = form
    BY <1>0, <2>1, <2>2 DEF EditorRows, form
  <2>4. editor' = [editor EXCEPT ![t] = e]
    BY <1>0, <1>3 DEF ChangeType, EditorRows, sent, form, busy
  <2> HIDE DEF e
  <2>5. RowOK(t, e, meta', pressed', overtaken')
    BY <1>0, <1>3, <2>1, <2>2, <2>3 DEF ChangeType, RowOK, SameOrOlder
  <2> QED
    BY <1>3, <2>3, <2>4, <2>5, RowSteps DEF ChangeType
<1>4. CASE Saves(t)
  <2> DEFINE busy == Request("save", "sent", row.form, Proposal)
             e == [row EXCEPT !.busy = busy]
  <2>1. busy \in EditorRequests /\ busy.action = "save" /\ busy.stage = "sent" /\ busy.form = row.form
    BY <1>0, EditorTypes
  <2>2. editor' = [editor EXCEPT ![t] = e]
    BY <1>0, <1>4 DEF Saves
  <2> HIDE DEF busy
  <2>3. e \in EditorRows /\ e.doc = row.doc /\ e.busy = busy /\ e.form = row.form
    BY <1>0, <2>1 DEF EditorRows
  <2> HIDE DEF e
  <2>4. RowOK(t, e, meta', pressed', overtaken')
    BY <1>0, <1>4, <2>1, <2>3 DEF Saves, RowOK, SameOrOlder
  <2> QED
    BY <1>4, <2>2, <2>3, <2>4, RowSteps DEF Saves
<1>5. CASE PatchCommits(t)
  <2> DEFINE sent == row.busy.form
             m == Meta(meta.version + 1, sent.type, sent.text)
             e == [row EXCEPT !.busy.stage = "saved"]
  <2>1. /\ row.busy.stage = "sent" /\ row.doc.version = meta.version /\ row.doc.text = meta.text
        /\ meta' = m /\ pressed' = pressed /\ overtaken' = overtaken /\ sent \in EditorForms
    BY <1>0, <1>5 DEF PatchCommits, Conflicts, RowOK, SameOrOlder
  <2>2. editor' = [editor EXCEPT ![t] = e]
    BY <1>0, <1>5 DEF PatchCommits, EditorRows
  <2>3. m \in EditorMetas /\ m.text = sent.text /\ m.version = meta.version + 1 /\ m.version > meta.version
    <3>1. meta.version \in Nat /\ meta.version + 1 \in Nat /\ sent.type \in Types /\ sent.text \in Texts
      BY <1>0 DEF EditorMetas, EditorForms, EditorRequests
    <3> QED
      BY <3>1, EditorTypes
  <2> HIDE DEF m
  <2>4. /\ e \in EditorRows /\ e.doc = row.doc /\ e.form = row.form /\ e.busy.stage = "saved"
        /\ e.busy.action = row.busy.action /\ e.busy.form = sent
    BY <1>0 DEF EditorRows, EditorRequests
  <2>5. (t \notin overtaken => sent.from = meta.text) /\ sent.text \in pressed
    BY <1>0, <2>1 DEF RowOK
  <2>6. NothingSavedUnseen'
    BY <1>0, <1>5, <2>1, <2>3, <2>5 DEF PatchCommits, NothingSavedUnseen
  <2>7. \A o \in EditorMetas :
           /\ SameOrOlder(o, meta) => SameOrOlder(o, meta')
           /\ \A text \in Texts : NextVersion(o, meta, text) => NextVersion(o, meta', text)
    BY <1>0, <2>1, <2>3 DEF SameOrOlder, NextVersion, EditorMetas
  <2>8. RowOK(t, e, meta', pressed', overtaken')
    <3>1. NextVersion(row.doc, meta', sent.text)
      BY <1>0, <2>1, <2>3 DEF NextVersion, EditorMetas
    <3>2. SameOrOlder(row.doc, meta') /\ (t \notin overtaken' => row.form.from = row.doc.text)
      BY <1>0, <2>1, <2>7 DEF RowOK
    <3> HIDE DEF e
    <3> QED
      BY <1>0, <2>1, <2>4, <3>1, <3>2 DEF RowOK
  <2>9. ASSUME NEW u \in Tabs, u # t  PROVE RowOK(u, editor'[u], meta', pressed', overtaken')
    <3>1. editor'[u] = editor[u] /\ editor[u] \in EditorRows /\ RowOK(u, editor[u], meta, pressed, overtaken)
          /\ editor[u].doc \in EditorMetas /\ editor[u].busy.answer \in EditorMetas
          /\ editor[u].busy.form.text \in Texts
      BY <1>0, <2>2, <2>9 DEF EditorInv, EditorRows, EditorRequests, EditorForms
    <3> QED
      BY <2>1, <2>7, <3>1 DEF RowOK
  <2>10. editor' \in [Tabs -> EditorRows] /\ editor'[t] = e
    BY <1>0, <2>2, <2>4
  <2> QED
    BY <2>1, <2>3, <2>6, <2>8, <2>9, <2>10 DEF EditorInv
<1>6. CASE DetailReads(t)
  <2> DEFINE e == [row EXCEPT !.busy.stage = "answered", !.busy.answer = meta]
  <2>1. editor' = [editor EXCEPT ![t] = e] /\ row.busy.stage = "saved"
    BY <1>0, <1>6 DEF DetailReads, EditorRows, EditorRequests
  <2>2. /\ e \in EditorRows /\ e.doc = row.doc /\ e.form = row.form /\ e.busy.stage = "answered"
        /\ e.busy.action = row.busy.action /\ e.busy.form = row.busy.form /\ e.busy.answer = meta
    BY <1>0 DEF EditorRows, EditorRequests
  <2> HIDE DEF e
  <2>3. meta' = meta /\ pressed' = pressed /\ overtaken' = overtaken /\ meta.version \in Nat
    BY <1>0, <1>6 DEF DetailReads, EditorMetas
  <2>4. SameOrOlder(meta, meta)
    BY <2>3 DEF SameOrOlder
  <2>5. row.busy.action = "type" /\ meta.version = row.doc.version + 1 => meta.text = row.doc.text
    BY <1>0, <2>1 DEF RowOK, NextVersion
  <2>6. RowOK(t, e, meta', pressed', overtaken')
    BY <1>0, <2>1, <2>2, <2>3, <2>4, <2>5 DEF RowOK
  <2> QED
    BY <1>6, <2>1, <2>2, <2>3, <2>6, RowSteps DEF DetailReads
<1>7. CASE PatchArrives(t)
  <2> DEFINE answered == row.busy.answer
  <2>1. row.busy.stage = "answered" /\ SameOrOlder(answered, meta) /\ answered \in EditorMetas /\ UNCHANGED <<meta, pressed, blind>>
    BY <1>0, <1>7 DEF PatchArrives, RowOK
  <2>2. CASE row.busy.action = "save"
    <3>1. editor' = [editor EXCEPT ![t] = Loaded(answered)] /\ overtaken' = overtaken \ {t}
      BY <1>7, <2>2 DEF PatchArrives
    <3>2. Loaded(answered) \in EditorRows /\ RowOK(t, Loaded(answered), meta', pressed', overtaken')
      BY <1>0, <2>1, EditorTypes DEF RowOK, SameOrOlder
    <3> QED
      BY <2>1, <3>1, <3>2, RowSteps
  <2>3. CASE row.busy.action # "save"
    <3> DEFINE e == [row EXCEPT !.doc = answered, !.busy = NoRequest(Proposal)]
    <3>1. editor' = [editor EXCEPT ![t] = e]
      BY <1>0, <1>7, <2>3 DEF PatchArrives, EditorRows
    <3>6. overtaken' = IF answered.version = row.doc.version + 1 THEN overtaken ELSE overtaken \cup {t}
      BY <1>0, <1>7, <2>3 DEF PatchArrives
    <3>2. NoRequest(Proposal) \in EditorRequests /\ NoRequest(Proposal).stage = "none"
      BY EditorTypes
    <3>3. e \in EditorRows /\ e.doc = answered /\ e.form = row.form /\ e.busy = NoRequest(Proposal)
      BY <1>0, <2>1, <3>2 DEF EditorRows
    <3> HIDE DEF e
    <3>4. t \notin overtaken' => row.form.from = answered.text
      BY <1>0, <2>1, <2>3, <3>6 DEF RowOK
    <3>5. RowOK(t, e, meta', pressed', overtaken')
      BY <2>1, <3>2, <3>3, <3>4 DEF RowOK
    <3>7. overtaken' \ {t} = overtaken \ {t}
      BY <3>6
    <3> QED
      BY <2>1, <3>1, <3>3, <3>5, <3>7, RowSteps
  <2> QED
    BY <2>2, <2>3
<1>8. CASE PatchFails(t)
  <2> DEFINE type == IF row.busy.action = "type" THEN OtherType(row.form.type) ELSE row.form.type
             form == [row.form EXCEPT !.type = type]
             e == [row EXCEPT !.form.type = type, !.busy = NoRequest(Proposal)]
  <2>1. type \in Types
    <3>1. \E c \in Types : c # row.form.type
      BY DEF Types
    <3> QED
      BY <1>0, <3>1 DEF EditorForms, OtherType
  <2>2. editor' = [editor EXCEPT ![t] = e]
    BY <1>8 DEF PatchFails
  <2> HIDE DEF type
  <2>3. form \in EditorForms /\ form.from = row.form.from
    BY <1>0, <2>1 DEF EditorForms
  <2> HIDE DEF form
  <2>4. NoRequest(Proposal) \in EditorRequests /\ NoRequest(Proposal).stage = "none"
    BY EditorTypes
  <2>5. e \in EditorRows /\ e.doc = row.doc /\ e.form = form /\ e.busy = NoRequest(Proposal)
    BY <1>0, <2>3, <2>4 DEF EditorRows, form
  <2> HIDE DEF e
  <2>6. RowOK(t, e, meta', pressed', overtaken')
    BY <1>0, <1>8, <2>3, <2>4, <2>5 DEF PatchFails, RowOK, SameOrOlder
  <2> QED
    BY <1>8, <2>2, <2>5, <2>6, RowSteps DEF PatchFails
<1> QED
  BY <1>1, <1>2, <1>3, <1>4, <1>5, <1>6, <1>7, <1>8

(* A save never replaces fields that its user did not see, and nothing is  *)
(* stored that nobody saved, for any tabs and texts, with answers read     *)
(* after other tabs have saved and answers that are lost.  One kind of     *)
(* save is left out and may replace what its user did not see: that of a   *)
(* tab whose type switch was answered with a later save (overtaken).       *)
THEOREM EditsAreSeen == Spec => []NothingSavedUnseen
<1> DEFINE Inv == IF clientPart = "editor" THEN EditorInv ELSE NothingSavedUnseen
<1>1. Init => Inv
  BY PartStarts, EditorStarts
<1>2. Inv /\ [Next]_vars => Inv'
  <2> SUFFICES ASSUME Inv, [Next]_vars  PROVE Inv'
    OBVIOUS
  <2>1. CASE clientPart = "editor"
    <3>1. EditorInv /\ [EditorNext]_editorVars /\ clientPart' = "editor"
      BY <2>1, PartSteps
    <3>2. CASE EditorNext
      BY <3>1, <3>2, EditorStepsOK DEF EditorNext
    <3>3. CASE UNCHANGED editorVars
      BY <3>1, <3>3 DEF editorVars, EditorInv, NothingSavedUnseen
    <3> QED
      BY <3>1, <3>2, <3>3
  <2>2. CASE clientPart # "editor"
    BY <2>2, PartSteps DEF editorVars, NothingSavedUnseen
  <2> QED
    BY <2>1, <2>2
<1>3. Inv => NothingSavedUnseen
  BY DEF EditorInv
<1> QED
  BY <1>1, <1>2, <1>3, PTL DEF Spec
-----------------------------------------------------------------------------
(* The summary: what is being fetched, or was last shown, is not older     *)
(* than the change the page last asked to be shown, or a follow-up is      *)
(* asked for.                                                              *)
SummaryInv ==
    /\ changes \in Nat /\ told \in Nat /\ told <= changes
    /\ summaryFetch.stage \in {"none", "asked", "answered"}
    /\ summaryFetch.stage = "none" => summaryFetch = NotFetching
    /\ summaryFetch.stage = "asked" => summaryFetch = Asked
    /\ summaryFetch.stage = "answered" /\ ~again => summaryFetch.answer.change >= told
    /\ summaryFetch = NotFetching => ~again
    /\ OwnChangeShows /\ ProcessingIsFollowed

LEMMA FetchStages ==
    /\ NotFetching.stage = "none" /\ Asked.stage = "asked"
    /\ \A s : Fetch("answered", s).stage = "answered" /\ Fetch("answered", s).answer = s
    /\ \A c, d : Summary(c, d).change = c /\ Summary(c, d).processing = d
BY DEF NotFetching, Asked, Fetch, Summary

LEMMA SummaryStarts == SummaryInit => SummaryInv
BY FetchStages DEF SummaryInit, SummaryInv, OwnChangeShows, ProcessingIsFollowed

LEMMA SummarySteps == SummaryInv /\ [SummaryNext]_summaryVars => SummaryInv'
<1> SUFFICES ASSUME SummaryInv, [SummaryNext]_summaryVars  PROVE SummaryInv'
  OBVIOUS
<1> USE FetchStages DEF SummaryInv, OwnChangeShows, ProcessingIsFollowed
<1>1. ASSUME NEW documents \in Nat, PageChanges(documents)  PROVE SummaryInv'
  BY <1>1 DEF PageChanges, RefreshSummary
<1>2. CASE ServerSettles
  BY <1>2 DEF ServerSettles
<1>3. CASE ServerReads
  BY <1>3 DEF ServerReads
<1>4. CASE SummaryArrives
  BY <1>4 DEF SummaryArrives, FollowProcessing, FetchEnds
<1>5. CASE SummaryFails
  BY <1>5 DEF SummaryFails, FetchEnds
<1>6. CASE FollowDue
  BY <1>6 DEF FollowDue, RefreshSummary
<1>7. CASE TabTurns
  BY <1>7 DEF TabTurns, RefreshSummary
<1>8. CASE UNCHANGED summaryVars
  BY <1>8 DEF summaryVars
<1> QED
  BY <1>1, <1>2, <1>3, <1>4, <1>5, <1>6, <1>7, <1>8 DEF SummaryNext

(* The list: when nothing polls the files that are shown in processing,    *)
(* one of them has moved on, and the next answer of the list shows it -    *)
(* also after reloads that failed.                                         *)
Moved(r) == stored[r] \in {"settled", "gone"}

ListInv ==
    /\ timers \in Nat /\ polls \in Nat
    /\ stored \in [Rows -> Statuses] /\ shown \in [Rows -> Statuses]
    /\ load.stage \in {"none", "asked", "answered"} /\ load.answer \in [Rows -> Statuses]
    /\ load = NotLoadingList <=> load.stage = "none"
    /\ \A r \in Rows : shown[r] = "pending" => stored[r] # "absent"
    /\ load.stage = "answered" =>
         \A r \in Rows : /\ load.answer[r] = "pending" => stored[r] # "absent"
                         /\ load.answer[r] \in {"settled", "gone"} => Moved(r)
    /\ listVisible /\ timers + polls = 0 /\ Pending(shown) # {} =>
         /\ \E r \in Pending(shown) :
              Moved(r) /\ (load.stage = "answered" => load.answer[r] \in {"settled", "gone"})
         /\ load # NotLoadingList \/ loadFailed

LEMMA ListStages ==
    /\ NotLoadingList.stage = "none"
    /\ \A stage, list : ListLoad(stage, list).stage = stage /\ ListLoad(stage, list).answer = list
    /\ Nothing \in [Rows -> Statuses] /\ NotLoadingList.answer \in [Rows -> Statuses]
    /\ \A r \in Rows : Nothing[r] = "absent"
BY DEF NotLoadingList, ListLoad, Nothing, Statuses

LEMMA ListStarts == ListInit => ListInv
<1> SUFFICES ASSUME ListInit  PROVE ListInv
  OBVIOUS
<1>1. Pending(shown) = {}
  BY ListStages DEF ListInit, Pending
<1> QED
  BY <1>1, ListStages DEF ListInit, ListInv

LEMMA ListSteps == ListInv /\ [ListNext]_listVars => ListInv'
<1> SUFFICES ASSUME ListInv, [ListNext]_listVars  PROVE ListInv'
  OBVIOUS
<1> USE ListStages DEF ListInv, Moved
<1>1. CASE ListServerReads
  BY <1>1 DEF ListServerReads
<1>2. CASE ListArrives
  <2>1. load.answer \in [Rows -> Statuses] /\ shown' = load.answer /\ load' = NotLoadingList
        /\ Pending(shown)' = Pending(load.answer) /\ UNCHANGED <<stored, listVisible>>
    BY <1>2 DEF ListArrives, Pending
  <2>2. CASE Pending(load.answer) = Pending(shown)
    <3>1. \A r \in Pending(shown) : load.answer[r] = "pending"
      BY <2>2 DEF Pending
    <3>2. UNCHANGED <<timers, polls>> /\ load.stage = "answered"
      BY <1>2, <2>2 DEF ListArrives, Repolls
    <3> QED
      BY <1>2, <2>1, <2>2, <3>1, <3>2 DEF ListArrives
  <2>3. CASE Pending(load.answer) # Pending(shown)
    BY <1>2, <2>1, <2>3 DEF ListArrives, Repolls
  <2> QED
    BY <2>2, <2>3
<1>3. CASE ListFails
  BY <1>3 DEF ListFails, Pending
<1>4. ASSUME NEW r \in Rows, UploadsRow(r)  PROVE ListInv'
  BY <1>4 DEF UploadsRow, AskList, Pending, Statuses
<1>5. ASSUME NEW r \in Rows, DeletesRow(r)  PROVE ListInv'
  <2>1. Pending(shown)' = Pending(shown)
    BY <1>5 DEF DeletesRow, Pending
  <2> QED
    BY <1>5, <2>1 DEF DeletesRow, AskList, Pending, Statuses
<1>6. ASSUME NEW r \in Rows, ServerMoves(r)  PROVE ListInv'
  BY <1>6 DEF ServerMoves, Pending, Statuses
<1>7. CASE PollDue
  BY <1>7 DEF PollDue, Pending
<1>8. CASE PollFindsSettled
  BY <1>8 DEF PollFindsSettled, AskList, Pending, Statuses
<1>9. CASE PollAgain
  BY <1>9 DEF PollAgain, Pending
<1>10. CASE ListTabTurns
  BY <1>10 DEF ListTabTurns, Pending
<1>11. CASE UNCHANGED listVars
  BY <1>11 DEF listVars, Pending
<1> QED
  BY <1>1, <1>2, <1>3, <1>4, <1>5, <1>6, <1>7, <1>8, <1>9, <1>10, <1>11 DEF ListNext

(* The connection's views: the page hears that it is gone only after the   *)
(* server removed it, and forgets then every answer that could still show  *)
(* it.                                                                     *)
Panels == ConnectionShown \cup {"not here", "pro only", "connect", "reconnect", "loading", "error"}

StatusInv ==
    /\ zotero \in ServerStates
    /\ panel \in [Views -> Panels] /\ request \in [Views -> Panels \cup {"none", "asked"}]
    /\ disconnecting = "done" => ~zotero.connection
    /\ gone => /\ ~zotero.connection
               /\ \A v \in Views : request[v] \notin ConnectionShown
               /\ panel["modal"] \notin ConnectionShown
               /\ request["row"] = "none" => panel["row"] \notin ConnectionShown

LEMMA PanelShows ==
    ASSUME NEW s \in ServerStates
    PROVE  Panel(s) \in Panels /\ (~s.connection => Panel(s) \notin ConnectionShown)
<1> USE DEF Panels, ConnectionShown, Panel
<1>0. s.connection \in BOOLEAN /\ s.configured \in BOOLEAN /\ s.pro \in BOOLEAN
  BY DEF ServerStates
<1>1. CASE s.connection
  BY <1>1
<1>2. CASE ~s.connection /\ ~s.configured
  BY <1>2
<1>3. CASE ~s.connection /\ s.configured /\ ~s.pro
  BY <1>3
<1>4. CASE ~s.connection /\ s.configured /\ s.pro
  BY <1>4
<1> QED
  BY <1>0, <1>1, <1>2, <1>3, <1>4

LEMMA StatusStarts == WebZoteroInit => StatusInv
BY DEF WebZoteroInit, StatusInv, Views, Panels, ConnectionShown

LEMMA StatusSteps == StatusInv /\ [WebZoteroNext]_webZoteroVars => StatusInv'
<1> SUFFICES ASSUME StatusInv, [WebZoteroNext]_webZoteroVars  PROVE StatusInv'
  OBVIOUS
<1> USE DEF StatusInv, Views, Panels
<1>1. ASSUME NEW v \in Views, StatusReads(v)  PROVE StatusInv'
  BY <1>1, PanelShows DEF StatusReads, ConnectionShown
<1>2. ASSUME NEW v \in Views, StatusArrives(v)  PROVE StatusInv'
  BY <1>2 DEF StatusArrives, ConnectionShown
<1>3. ASSUME NEW v \in Views, StatusFails(v)  PROVE StatusInv'
  BY <1>3 DEF StatusFails, ConnectionShown
<1>4. CASE RetryStatus
  BY <1>4 DEF RetryStatus, ConnectionShown
<1>5. CASE PressesOdpojit
  BY <1>5 DEF PressesOdpojit, ConnectionShown
<1>6. CASE ServerDisconnects
  BY <1>6 DEF ServerDisconnects, ConnectionShown, ServerStates
<1>7. CASE DisconnectArrives
  BY <1>7 DEF DisconnectArrives, Changed, ConnectionShown
<1>8. CASE DisconnectFails
  BY <1>8 DEF DisconnectFails
<1>9. CASE UNCHANGED webZoteroVars
  BY <1>9 DEF webZoteroVars
<1> QED
  BY <1>1, <1>2, <1>3, <1>4, <1>5, <1>6, <1>7, <1>8, <1>9 DEF WebZoteroNext

(* What the page shows is the server's or is being looked after, for any   *)
(* number of files, timers and requests: its own changes and files in      *)
(* processing are followed, and a removed connection is not shown again.   *)
THEOREM PageStaysCurrent == Spec => []PageIsCurrent
<1> DEFINE Inv == /\ clientPart = "summary" => SummaryInv
                  /\ clientPart = "list" => ListInv
                  /\ clientPart = "status" => StatusInv
<1>1. Init => Inv
  BY PartStarts, SummaryStarts, ListStarts, StatusStarts
<1>2. Inv /\ [Next]_vars => Inv'
  BY PartSteps, SummarySteps, ListSteps, StatusSteps
<1>3. Inv => PageIsCurrent
  BY DEF PageIsCurrent, SummaryInv, ListInv, StatusInv, PendingIsWatched, GoneIsNotShown
<1> QED
  BY <1>1, <1>2, <1>3, PTL DEF Spec
-----------------------------------------------------------------------------
(* The connection: what an instance keeps and what a handler has seen was  *)
(* Clerk's record, and is not older than the last write of its instance;   *)
(* a key that zotero.org accepts is the stored one or in the hands of a    *)
(* callback that revokes it.                                               *)
ConnStates == [st : {"none", "ok", "revoked"}, key : Nat]
Records == [state : ConnStates, ver : Nat]
Pcs == {"idle", "exchange", "load", "reading", "joined", "answered", "loaded", "use", "marking", "marked",
        "writing", "wrote", "refuse", "revoke", "done"}
Handlers == [kind : {"callback", "disconnect", "tool"}, on : ConnInstances \cup {NoTask}, pc : Pcs, seen : Records,
             lead : ConnTasks \cup {NoTask}, mine : Nat, since : Nat, ok : BOOLEAN]

KnownKey(s, n) == s.key <= n /\ (s.st # "ok" => s.key = 0)
Was(e, c) == e.ver <= c.ver /\ (e.ver = c.ver => e.state = c.state)

ConnTypes ==
    /\ clerk \in Records /\ clerk.ver > 0 /\ KnownKey(clerk.state, issued)
    /\ issued \in Nat /\ live \subseteq 1 .. issued
    /\ connCache \in [ConnInstances -> Records]
    /\ inflight \in [ConnInstances -> ConnTasks \cup {NoTask}]
    /\ task \in [ConnTasks -> Handlers]
    /\ ownWrite \in [ConnInstances -> Nat] /\ lost \in BOOLEAN /\ raced \in BOOLEAN

HandlerOK(h, c, l, n, x) ==
    /\ KnownKey(h.seen.state, n) /\ Was(h.seen, c)
    /\ h.since <= c.ver /\ h.mine <= n
    /\ h.pc \notin {"idle", "done"} => h.on \in ConnInstances
    /\ h.pc \in {"exchange", "refuse"} => h.kind = "callback"
    /\ h.pc \in {"use", "marking", "marked"} => h.kind = "tool"
    /\ h.pc = "revoke" => h.kind # "tool"
    /\ h.pc \in {"exchange", "load"} => h.ok
    /\ h.pc \in {"loaded", "wrote"} /\ ~x => h.ok
    /\ h.pc = "answered" \/ (h.pc = "loaded" /\ h.ok) => h.seen.ver >= h.since
    /\ h.kind = "tool" /\ h.pc \in {"marking", "marked", "writing"} => h.mine \notin l
    /\ h.kind = "tool" /\ h.pc = "writing" => h.seen.state = Ok(h.mine)
    /\ h.kind = "disconnect" /\ h.pc = "writing" /\ ~x => h.seen.state.key \notin l

CacheOK(i) ==
    /\ KnownKey(connCache[i].state, issued) /\ Was(connCache[i], clerk)
    /\ connCache[i] # NoEntry => connCache[i].ver >= ownWrite[i]
    /\ ownWrite[i] <= clerk.ver

(* A read that gives a record not older than a write. *)
Reads(h, write) == h.pc \in {"reading", "answered"} /\ (h.pc = "answered" => h.seen.ver >= write)

ReadsOK ==
    /\ \A i \in ConnInstances : inflight[i] # NoTask =>
         task[inflight[i]].on = i /\ Reads(task[inflight[i]], ownWrite[i])
    /\ \A t \in ConnTasks : task[t].pc = "joined" =>
         task[t].lead \in ConnTasks /\ Reads(task[task[t].lead], task[t].since)

Holds(h, k) ==
    /\ h.kind = "callback"
    /\ \/ h.pc \in {"load", "reading", "joined", "answered", "loaded", "writing", "refuse"} /\ h.mine = k
       \/ h.pc \in {"wrote", "revoke"} /\ h.seen.state.key = k /\ h.mine # k

KeysHeld == ~lost /\ ~raced => \A k \in live : k = clerk.state.key \/ \E t \in ConnTasks : Holds(task[t], k)

ConnInv ==
    /\ ConnTypes
    /\ \A t \in ConnTasks : HandlerOK(task[t], clerk, live, issued, lost)
    /\ \A i \in ConnInstances : CacheOK(i)
    /\ ReadsOK /\ KeysHeld

LEMMA ConnStarts == ConnInit => ConnInv
<1> SUFFICES ASSUME ConnInit  PROVE ConnInv
  OBVIOUS
<1>1. NoConnection \in ConnStates /\ Stored(NoConnection, 1) \in Records /\ NoEntry \in Records /\ NoEntry.ver = 0
      /\ NoEntry.state = NoConnection /\ NoConnection.key = 0 /\ KnownKey(NoConnection, 0)
      /\ Stored(NoConnection, 1).ver = 1 /\ Stored(NoConnection, 1).state = NoConnection
  BY DEF NoConnection, ConnStates, Stored, Records, NoEntry, KnownKey
<1>2. Idle \in Handlers /\ Idle.pc = "idle" /\ Idle.mine = 0 /\ Idle.since = 0 /\ Idle.seen = NoEntry /\ Idle.ok
  BY <1>1 DEF Idle, Handlers, Pcs
<1>3. ConnTypes
  <2>1. /\ clerk \in Records /\ clerk.ver > 0 /\ KnownKey(clerk.state, issued)
        /\ issued \in Nat /\ live \subseteq 1 .. issued
    BY <1>1 DEF ConnInit
  <2>2. /\ connCache \in [ConnInstances -> Records] /\ inflight \in [ConnInstances -> ConnTasks \cup {NoTask}]
        /\ task \in [ConnTasks -> Handlers] /\ ownWrite \in [ConnInstances -> Nat]
    BY <1>1, <1>2 DEF ConnInit
  <2> QED
    BY <2>1, <2>2 DEF ConnInit, ConnTypes
<1>4. HandlerOK(Idle, clerk, live, issued, lost)
  BY <1>1, <1>2 DEF ConnInit, HandlerOK, Was
<1>5. \A i \in ConnInstances : CacheOK(i)
  BY <1>1 DEF ConnInit, CacheOK, Was
<1>6. ReadsOK /\ KeysHeld
  BY <1>2 DEF ConnInit, ReadsOK, KeysHeld
<1>7. \A t \in ConnTasks : task[t] = Idle
  BY DEF ConnInit
<1> QED
  BY <1>3, <1>4, <1>5, <1>6, <1>7 DEF ConnInv

(* What a handler has seen, and what an instance keeps, stays so while     *)
(* Clerk's record is written and keys are given out and revoked.           *)
Advances ==
    /\ clerk' \in Records /\ (clerk' = clerk \/ clerk'.ver > clerk.ver)
    /\ issued' \in Nat /\ issued' >= issued
    /\ \A k \in Nat : k <= issued /\ k \in live' => k \in live
    /\ lost => lost'

LEMMA HandlersKeep ==
    ASSUME ConnInv, Advances, NEW h \in Handlers, HandlerOK(h, clerk, live, issued, lost)
    PROVE  HandlerOK(h, clerk', live', issued', lost')
<1>1. /\ h.seen \in Records /\ h.seen.ver \in Nat /\ h.seen.state \in ConnStates /\ h.seen.state.key \in Nat
      /\ clerk.ver \in Nat /\ clerk'.ver \in Nat /\ issued \in Nat /\ h.mine \in Nat /\ h.since \in Nat
  BY DEF Advances, ConnInv, ConnTypes, Handlers, Records, ConnStates
<1>2. KnownKey(h.seen.state, issued') /\ Was(h.seen, clerk')
  BY <1>1 DEF HandlerOK, Advances, KnownKey, Was
<1> QED
  BY <1>1, <1>2 DEF HandlerOK, Advances, KnownKey

LEMMA OtherHandlers ==
    ASSUME ConnInv, Advances, NEW t \in ConnTasks, NEW h \in Handlers, Turns(t, h),
           HandlerOK(h, clerk', live', issued', lost')
    PROVE  /\ task' \in [ConnTasks -> Handlers]
           /\ \A u \in ConnTasks : HandlerOK(task'[u], clerk', live', issued', lost')
BY HandlersKeep DEF Turns, ConnInv, ConnTypes

LEMMA CachesKeep ==
    ASSUME ConnInv, Advances, NEW i \in ConnInstances,
           \/ connCache'[i] = connCache[i] /\ ownWrite'[i] = ownWrite[i]
           \/ connCache'[i] = NoEntry /\ ownWrite'[i] \in Nat /\ ownWrite'[i] <= clerk'.ver
    PROVE  CacheOK(i)'
<1>1. /\ connCache[i] \in Records /\ connCache[i].ver \in Nat /\ connCache[i].state.key \in Nat
      /\ ownWrite[i] \in Nat /\ issued \in Nat /\ clerk.ver \in Nat /\ clerk'.ver \in Nat /\ clerk.ver > 0
      /\ clerk'.ver > 0
  BY DEF Advances, ConnInv, ConnTypes, Records, ConnStates
<1>2. NoEntry.ver = 0 /\ NoEntry.state.key = 0
  BY DEF NoEntry, Stored, NoConnection
<1>3. CASE connCache'[i] = connCache[i] /\ ownWrite'[i] = ownWrite[i]
  <2>1. KnownKey(connCache[i].state, issued') /\ Was(connCache[i], clerk')
    BY <1>1 DEF ConnInv, CacheOK, Advances, KnownKey, Was
  <2> QED
    BY <1>1, <1>3, <2>1 DEF ConnInv, CacheOK, Advances
<1>4. CASE connCache'[i] = NoEntry /\ ownWrite'[i] \in Nat /\ ownWrite'[i] <= clerk'.ver
  BY <1>1, <1>2, <1>4 DEF CacheOK, Advances, KnownKey, Was
<1> QED
  BY <1>3, <1>4

(* A handler that leads no read and joins none.                            *)
LEMMA ReadsKeep ==
    ASSUME ConnInv, NEW t \in ConnTasks, NEW h \in Handlers, Turns(t, h),
           task[t].pc \notin {"reading", "answered"}, h.pc # "joined",
           \A i \in ConnInstances : inflight'[i] = NoTask \/ (inflight'[i] = inflight[i] /\ ownWrite'[i] = ownWrite[i])
    PROVE  ReadsOK'
BY DEF Turns, ConnInv, ConnTypes, ReadsOK, Reads

(* A handler that lets go of no key, while the record stays.               *)
LEMMA KeysKeep ==
    ASSUME ConnInv, NEW t \in ConnTasks, NEW h \in Handlers, Turns(t, h),
           UNCHANGED <<clerk, raced>>, lost => lost',
           ~lost' => \A k \in live' : Holds(h, k) \/ (k \in live /\ ~Holds(task[t], k))
    PROVE  KeysHeld'
BY DEF Turns, ConnInv, ConnTypes, KeysHeld

(* A step of one handler that is not about reads and writes no record.     *)
LEMMA QuietSteps ==
    ASSUME ConnInv, NEW t \in ConnTasks, NEW h \in Handlers, Turns(t, h),
           UNCHANGED <<clerk, raced>>, Advances, lost' \in BOOLEAN, live' \subseteq 1 .. issued',
           HandlerOK(h, clerk', live', issued', lost'),
           \/ UNCHANGED <<connCache, inflight, ownWrite>>
           \/ \E i \in ConnInstances : Forget(i) /\ UNCHANGED ownWrite
           \/ \E i \in ConnInstances : Forget(i) /\ ownWrite' = [ownWrite EXCEPT ![i] = clerk.ver],
           task[t].pc \notin {"reading", "answered"}, h.pc # "joined",
           ~lost' => \A k \in live' : Holds(h, k) \/ (k \in live /\ ~Holds(task[t], k))
    PROVE  ConnInv'
<1>1. /\ connCache' \in [ConnInstances -> Records]
      /\ inflight' \in [ConnInstances -> ConnTasks \cup {NoTask}]
      /\ ownWrite' \in [ConnInstances -> Nat]
      /\ \A i \in ConnInstances :
           /\ inflight'[i] = NoTask \/ (inflight'[i] = inflight[i] /\ ownWrite'[i] = ownWrite[i])
           /\ \/ connCache'[i] = connCache[i] /\ ownWrite'[i] = ownWrite[i]
              \/ connCache'[i] = NoEntry /\ ownWrite'[i] <= clerk'.ver
  <2>1. NoEntry \in Records
    BY DEF NoEntry, Stored, NoConnection, Records, ConnStates
  <2>2. clerk.ver \in Nat /\ \A i \in ConnInstances : ownWrite[i] <= clerk.ver
    BY DEF ConnInv, ConnTypes, CacheOK, Records
  <2>3. CASE UNCHANGED <<connCache, inflight, ownWrite>>
    BY <2>3 DEF ConnInv, ConnTypes
  <2>4. ASSUME NEW i \in ConnInstances, Forget(i), UNCHANGED ownWrite
        PROVE  <1>1!1 /\ <1>1!2 /\ <1>1!3 /\ <1>1!4
    BY <2>1, <2>2, <2>4 DEF Forget, ConnInv, ConnTypes
  <2>5. ASSUME NEW i \in ConnInstances, Forget(i), ownWrite' = [ownWrite EXCEPT ![i] = clerk.ver]
        PROVE  <1>1!1 /\ <1>1!2 /\ <1>1!3 /\ <1>1!4
    BY <2>1, <2>2, <2>5 DEF Forget, ConnInv, ConnTypes
  <2> QED
    BY <2>3, <2>4, <2>5
<1>2. \A i \in ConnInstances : CacheOK(i)'
  BY <1>1, CachesKeep
<1>3. ReadsOK'
  BY <1>1, ReadsKeep
<1>4. KeysHeld'
  BY KeysKeep DEF Advances
<1>5. /\ task' \in [ConnTasks -> Handlers]
      /\ \A u \in ConnTasks : HandlerOK(task'[u], clerk', live', issued', lost')
  BY OtherHandlers
<1>6. ConnTypes'
  <2>1. KnownKey(clerk.state, issued')
    BY DEF ConnInv, ConnTypes, Advances, KnownKey, Records, ConnStates
  <2> QED
    BY <1>1, <1>5, <2>1 DEF ConnInv, ConnTypes, Advances
<1> QED
  BY <1>2, <1>3, <1>4, <1>5, <1>6 DEF ConnInv

LEMMA ConnFacts ==
    ASSUME ConnInv, NEW t \in ConnTasks
    PROVE  /\ task[t] \in Handlers /\ HandlerOK(task[t], clerk, live, issued, lost)
           /\ task[t].seen \in Records /\ task[t].seen.state \in ConnStates /\ task[t].seen.state.key \in Nat
           /\ task[t].mine \in Nat /\ task[t].ok \in BOOLEAN /\ task[t].pc \in Pcs
           /\ clerk \in Records /\ clerk.ver \in Nat /\ clerk.state \in ConnStates /\ clerk.state.key \in Nat
           /\ issued \in Nat /\ live \subseteq 1 .. issued /\ lost \in BOOLEAN /\ raced \in BOOLEAN
           /\ Finished \in Handlers /\ Finished.pc = "done" /\ HandlerOK(Finished, clerk, live, issued, lost)
           /\ \A k : ~Holds(Finished, k)
<1>1. /\ task[t] \in Handlers /\ HandlerOK(task[t], clerk, live, issued, lost)
      /\ task[t].seen \in Records /\ task[t].seen.state \in ConnStates /\ task[t].seen.state.key \in Nat
      /\ task[t].mine \in Nat /\ task[t].ok \in BOOLEAN /\ task[t].pc \in Pcs
      /\ clerk \in Records /\ clerk.ver \in Nat /\ clerk.ver > 0 /\ clerk.state \in ConnStates /\ clerk.state.key \in Nat
      /\ issued \in Nat /\ live \subseteq 1 .. issued /\ lost \in BOOLEAN /\ raced \in BOOLEAN
  BY DEF ConnInv, ConnTypes, Handlers, Records, ConnStates
<1>2. NoConnection \in ConnStates /\ NoEntry \in Records /\ NoEntry.ver = 0
      /\ NoEntry.state = NoConnection /\ NoConnection.key = 0
  BY DEF NoConnection, ConnStates, Stored, Records, NoEntry
<1>3. /\ Finished \in Handlers /\ Finished.pc = "done" /\ Finished.mine = 0 /\ Finished.since = 0
      /\ Finished.seen = NoEntry /\ Finished.kind = "tool"
  BY <1>2 DEF Finished, Idle, Handlers, Pcs
<1>4. HandlerOK(Finished, clerk, live, issued, lost)
  BY <1>1, <1>2, <1>3 DEF HandlerOK, Was, KnownKey
<1> QED
  BY <1>1, <1>3, <1>4 DEF Holds

(* A handler that only moves on.                                           *)
LEMMA Moves ==
    ASSUME NEW h \in Handlers, NEW pc \in Pcs
    PROVE  LET g == [h EXCEPT !.pc = pc] IN
           /\ g \in Handlers /\ g.pc = pc
           /\ g.kind = h.kind /\ g.on = h.on /\ g.seen = h.seen /\ g.lead = h.lead /\ g.mine = h.mine
           /\ g.since = h.since /\ g.ok = h.ok
BY DEF Handlers

LEMMA ConnStays ==
    ASSUME ConnInv, UNCHANGED <<clerk, issued>>, live' \subseteq live, lost => lost'
    PROVE  Advances
BY DEF ConnInv, ConnTypes, Advances

LEMMA BeginKeeps ==
    ASSUME ConnInv, NEW t \in ConnTasks, Begin(t)
    PROVE  ConnInv'
<1> PICK i \in ConnInstances, kind \in ConnKinds :
      Turns(t, [Idle EXCEPT !.kind = kind, !.on = i, !.pc = IF kind = "callback" THEN "exchange" ELSE "load"])
  BY DEF Begin
<1> DEFINE h == [Idle EXCEPT !.kind = kind, !.on = i, !.pc = IF kind = "callback" THEN "exchange" ELSE "load"]
<1>1. NoConnection \in ConnStates /\ NoEntry \in Records /\ NoEntry.ver = 0
      /\ NoEntry.state = NoConnection /\ NoConnection.key = 0
  BY DEF NoConnection, ConnStates, Stored, Records, NoEntry
<1>2. /\ h \in Handlers /\ h.kind = kind /\ h.on = i /\ h.seen = NoEntry /\ h.mine = 0 /\ h.since = 0 /\ h.ok
      /\ h.pc = IF kind = "callback" THEN "exchange" ELSE "load"
  <2>1. kind \in {"callback", "disconnect", "tool"} /\ (IF kind = "callback" THEN "exchange" ELSE "load") \in Pcs
    BY ConnAssumption DEF Pcs
  <2> QED
    BY <1>1, <2>1 DEF Idle, Handlers
<1> HIDE DEF h
<1>3. clerk.ver > 0 /\ HandlerOK(h, clerk, live, issued, lost)
  <2>1. clerk.ver \in Nat /\ clerk.ver > 0 /\ issued \in Nat
    BY ConnFacts DEF ConnInv, ConnTypes
  <2>2. KnownKey(h.seen.state, issued) /\ Was(h.seen, clerk)
    BY <1>1, <1>2, <2>1 DEF KnownKey, Was
  <2> QED
    BY <1>1, <1>2, <2>1, <2>2 DEF HandlerOK
<1>4. \A k : ~Holds(task[t], k)
  BY DEF Begin, Holds
<1>5. /\ Turns(t, h) /\ UNCHANGED <<clerk, live, issued, connCache, inflight, ownWrite, lost, raced>>
      /\ task[t].pc = "idle" /\ h.pc # "joined" /\ Advances
  BY <1>2, ConnStays DEF Begin, connHistory, h
<1> QED
  BY <1>2, <1>3, <1>4, <1>5, ConnFacts, QuietSteps

LEMMA AccessTokenKeeps ==
    ASSUME ConnInv, NEW t \in ConnTasks, AccessToken(t)
    PROVE  ConnInv'
<1> PICK pc \in Verdict : Turns(t, [task[t] EXCEPT !.mine = issued + 1, !.pc = pc])
  BY DEF AccessToken
<1> DEFINE h == [task[t] EXCEPT !.mine = issued + 1, !.pc = pc]
<1>1. /\ h \in Handlers /\ h.pc \in {"load", "refuse"} /\ h.mine = issued + 1 /\ h.kind = task[t].kind
      /\ h.on = task[t].on /\ h.seen = task[t].seen /\ h.since = task[t].since /\ h.ok = task[t].ok
  <2>1. issued + 1 \in Nat /\ task[t] \in Handlers /\ pc \in Pcs /\ pc \in {"load", "refuse"}
    BY ConnFacts DEF Pcs, Verdict
  <2> QED
    BY <2>1 DEF Handlers
<1> HIDE DEF h
<1>2. task[t].pc = "exchange" /\ h.kind = "callback" /\ h.ok /\ issued' = issued + 1 /\ live' = live \cup {issued + 1}
  BY <1>1, ConnFacts DEF AccessToken, HandlerOK
<1>3. HandlerOK(h, clerk, live', issued', lost)
  BY <1>1, <1>2, ConnFacts DEF HandlerOK, KnownKey
<1>4. Advances
  BY <1>2, ConnFacts DEF AccessToken, Advances, connHistory
<1>5. \A k \in live' : Holds(h, k) \/ (k \in live /\ ~Holds(task[t], k))
  BY <1>1, <1>2 DEF Holds
<1>6. live' \subseteq 1 .. issued'
  BY <1>2, ConnFacts
<1> QED
  BY <1>1, <1>2, <1>3, <1>4, <1>5, <1>6, ConnFacts, QuietSteps DEF AccessToken, connHistory, h

LEMMA CallbackLoadedKeeps ==
    ASSUME ConnInv, NEW t \in ConnTasks, CallbackLoaded(t)
    PROVE  ConnInv'
<1> DEFINE h == [task[t] EXCEPT !.pc = IF task[t].ok THEN "writing" ELSE "refuse"]
<1>1. Turns(t, h)
  BY ConnFacts DEF CallbackLoaded, WriteBegin, Goto
<1>2. /\ h \in Handlers /\ h.pc \in {"writing", "refuse"} /\ h.kind = task[t].kind /\ h.on = task[t].on
      /\ h.seen = task[t].seen /\ h.mine = task[t].mine /\ h.since = task[t].since /\ h.ok = task[t].ok
  BY ConnFacts DEF Handlers, Pcs
<1> HIDE DEF h
<1>3. HandlerOK(h, clerk, live, issued, lost)
  BY <1>2, ConnFacts DEF CallbackLoaded, HandlerOK
<1>4. \A k : Holds(task[t], k) => Holds(h, k)
  BY <1>2 DEF CallbackLoaded, Holds
<1>5. UNCHANGED <<connCache, inflight, ownWrite>> \/ \E i \in ConnInstances : Forget(i) /\ UNCHANGED ownWrite
  BY ConnFacts DEF CallbackLoaded, WriteBegin, connHistory, HandlerOK
<1> QED
  BY <1>1, <1>2, <1>3, <1>4, <1>5, ConnFacts, ConnStays, QuietSteps DEF CallbackLoaded, connHistory

LEMMA DisconnectLoadedKeeps ==
    ASSUME ConnInv, NEW t \in ConnTasks, DisconnectLoaded(t)
    PROVE  ConnInv'
<1>1. task[t].kind = "disconnect" /\ task[t].pc = "loaded" /\ \A k : ~Holds(task[t], k)
  BY DEF DisconnectLoaded, Holds
<1>2. CASE Finish(t) /\ UNCHANGED <<connCache, inflight>>
  BY <1>1, <1>2, ConnFacts, ConnStays, QuietSteps DEF DisconnectLoaded, connHistory, Finish
<1>3. ASSUME NEW pc \in {"revoke", "writing"}, Goto(t, pc), pc = "writing" => task[t].seen.state.st # "ok",
             UNCHANGED <<connCache, inflight, ownWrite>> \/ \E i \in ConnInstances : Forget(i) /\ UNCHANGED ownWrite
      PROVE  ConnInv'
  <2> DEFINE h == [task[t] EXCEPT !.pc = pc]
  <2>1. /\ h \in Handlers /\ h.pc = pc /\ h.kind = "disconnect" /\ h.on = task[t].on
        /\ h.seen = task[t].seen /\ h.mine = task[t].mine /\ h.since = task[t].since /\ h.ok = task[t].ok
    BY <1>1, ConnFacts DEF Handlers, Pcs
  <2> HIDE DEF h
  <2>2. HandlerOK(h, clerk, live, issued, lost)
    BY <1>1, <1>3, <2>1, ConnFacts DEF HandlerOK, KnownKey
  <2> QED
    BY <1>1, <1>3, <2>1, <2>2, ConnFacts, ConnStays, QuietSteps DEF DisconnectLoaded, connHistory, Goto, h
<1> QED
  BY <1>1, <1>2, <1>3, ConnFacts DEF DisconnectLoaded, WriteBegin, connHistory, HandlerOK

LEMMA ToolLoadedKeeps ==
    ASSUME ConnInv, NEW t \in ConnTasks, ToolLoaded(t)
    PROVE  ConnInv'
<1>1. task[t].kind = "tool" /\ task[t].pc = "loaded" /\ \A k : ~Holds(task[t], k)
  BY DEF ToolLoaded, Holds
<1>2. CASE Finish(t)
  BY <1>1, <1>2, ConnFacts, ConnStays, QuietSteps DEF ToolLoaded, connHistory, Finish
<1>3. CASE Goto(t, "use")
  <2> DEFINE h == [task[t] EXCEPT !.pc = "use"]
  <2>1. /\ h \in Handlers /\ h.pc = "use" /\ h.kind = "tool" /\ h.on = task[t].on
        /\ h.seen = task[t].seen /\ h.mine = task[t].mine /\ h.since = task[t].since /\ h.ok = task[t].ok
    BY <1>1, ConnFacts DEF Handlers, Pcs
  <2> HIDE DEF h
  <2>2. HandlerOK(h, clerk, live, issued, lost)
    BY <1>1, <2>1, ConnFacts DEF HandlerOK
  <2> QED
    BY <1>1, <1>3, <2>1, <2>2, ConnFacts, ConnStays, QuietSteps DEF ToolLoaded, connHistory, Goto, h
<1> QED
  BY <1>2, <1>3 DEF ToolLoaded

LEMMA UseKeeps ==
    ASSUME ConnInv, NEW t \in ConnTasks, Use(t)
    PROVE  ConnInv'
<1> DEFINE k == task[t].seen.state.key
<1>1. task[t].pc = "use" /\ task[t].kind = "tool" /\ k \in Nat /\ k <= issued /\ \A j : ~Holds(task[t], j)
  BY ConnFacts DEF Use, Holds, HandlerOK, KnownKey
<1>2. CASE Finish(t) /\ UNCHANGED live
  BY <1>1, <1>2, ConnFacts, ConnStays, QuietSteps DEF Use, connHistory, Finish
<1>3. CASE live' = live \ {k} /\ Turns(t, [task[t] EXCEPT !.mine = k, !.pc = "marking"])
  <2> DEFINE h == [task[t] EXCEPT !.mine = k, !.pc = "marking"]
  <2>1. /\ h \in Handlers /\ h.pc = "marking" /\ h.kind = "tool" /\ h.on = task[t].on
        /\ h.seen = task[t].seen /\ h.mine = k /\ h.since = task[t].since /\ h.ok = task[t].ok
    BY <1>1, ConnFacts DEF Handlers, Pcs
  <2>2. Turns(t, h)
    BY <1>3
  <2> HIDE DEF h
  <2>3. HandlerOK(h, clerk, live', issued, lost)
    BY <1>1, <1>3, <2>1, ConnFacts DEF HandlerOK
  <2>4. /\ UNCHANGED <<clerk, issued, connCache, inflight, ownWrite, lost, raced>> /\ live' \subseteq live /\ Advances
    BY <1>3, ConnStays DEF Use, connHistory
  <2> QED
    BY <1>1, <2>1, <2>2, <2>3, <2>4, ConnFacts, QuietSteps
<1> QED
  BY <1>2, <1>3 DEF Use

LEMMA MarkRevokedKeeps ==
    ASSUME ConnInv, NEW t \in ConnTasks, MarkRevoked(t)
    PROVE  ConnInv'
<1>1. task[t].kind = "tool" /\ task[t].pc = "marked" /\ \A k : ~Holds(task[t], k)
  BY ConnFacts DEF MarkRevoked, HandlerOK, Holds
<1>2. CASE Finish(t) /\ UNCHANGED <<connCache, inflight>>
  BY <1>1, <1>2, ConnFacts, ConnStays, QuietSteps DEF MarkRevoked, connHistory, Finish
<1>3. CASE task[t].seen.state = Ok(task[t].mine) /\ WriteBegin(t)
  <2> DEFINE h == [task[t] EXCEPT !.pc = "writing"]
  <2>1. /\ h \in Handlers /\ h.pc = "writing" /\ h.kind = "tool" /\ h.on = task[t].on
        /\ h.seen = task[t].seen /\ h.mine = task[t].mine /\ h.since = task[t].since /\ h.ok = task[t].ok
    BY <1>1, ConnFacts DEF Handlers, Pcs
  <2>2. Turns(t, h)
    BY <1>3 DEF WriteBegin, Goto
  <2> HIDE DEF h
  <2>3. HandlerOK(h, clerk, live, issued, lost)
    BY <1>1, <1>3, <2>1, ConnFacts DEF HandlerOK
  <2>4. task[t].on \in ConnInstances /\ Forget(task[t].on)
    BY <1>1, <1>3, ConnFacts DEF WriteBegin, HandlerOK
  <2> QED
    BY <1>1, <2>1, <2>2, <2>3, <2>4, ConnFacts, ConnStays, QuietSteps DEF MarkRevoked, connHistory
<1> QED
  BY <1>2, <1>3 DEF MarkRevoked

LEMMA WriteEndKeeps ==
    ASSUME ConnInv, NEW t \in ConnTasks, WriteEnd(t)
    PROVE  ConnInv'
<1> DEFINE h == AfterSave(t, task[t].ok)
           previous == task[t].seen.state
<1>1. task[t].pc = "wrote" /\ Turns(t, h) /\ Forget(task[t].on) /\ UNCHANGED <<clerk, live, issued, lost, raced>>
      /\ ownWrite' = [ownWrite EXCEPT ![task[t].on] = clerk.ver] /\ task[t].on \in ConnInstances /\ Advances
  BY ConnFacts, ConnStays DEF WriteEnd, HandlerOK
<1>2. ASSUME NEW pc \in {"refuse", "revoke"}, h = [task[t] EXCEPT !.pc = pc], task[t].kind = "callback",
             pc = "refuse" => ~task[t].ok, pc = "revoke" => previous.key # task[t].mine
      PROVE  ConnInv'
  <2>1. /\ h \in Handlers /\ h.pc = pc /\ h.kind = "callback" /\ h.on = task[t].on
        /\ h.seen = task[t].seen /\ h.mine = task[t].mine /\ h.since = task[t].since /\ h.ok = task[t].ok
    BY <1>2, ConnFacts DEF Handlers, Pcs
  <2> HIDE DEF h
  <2>2. HandlerOK(h, clerk, live, issued, lost)
    BY <1>1, <1>2, <2>1, ConnFacts DEF HandlerOK
  <2>3. ~lost => \A k : Holds(task[t], k) => Holds(h, k)
    BY <1>1, <1>2, <2>1, ConnFacts DEF Holds, HandlerOK
  <2> QED
    BY <1>1, <2>1, <2>2, <2>3, ConnFacts, QuietSteps
<1>3. CASE h = Finished /\ (task[t].kind = "callback" => previous.st # "ok" \/ previous.key = task[t].mine)
  <2>1. \A k \in live : ~Holds(task[t], k)
    BY <1>1, <1>3, ConnFacts DEF Holds, HandlerOK, KnownKey
  <2> HIDE DEF h
  <2> QED
    BY <1>1, <1>3, <2>1, ConnFacts, QuietSteps
<1> QED
  BY <1>2, <1>3 DEF AfterSave

LEMMA RevokeQuietlyKeeps ==
    ASSUME ConnInv, NEW t \in ConnTasks, RevokeQuietly(t)
    PROVE  ConnInv'
<1> DEFINE k == IF task[t].pc = "refuse" THEN task[t].mine ELSE task[t].seen.state.key
<1>1. /\ task[t].pc \in {"refuse", "revoke"} /\ live' \subseteq live /\ (~lost' => live' = live \ {k})
      /\ lost' \in BOOLEAN /\ (lost => lost')
      /\ UNCHANGED <<clerk, issued, ownWrite, raced>>
  <2>1. CASE live' = live \ {k} /\ UNCHANGED lost
    BY <2>1, ConnFacts DEF RevokeQuietly
  <2>2. CASE MayFail /\ lost' = TRUE /\ UNCHANGED live
    BY <2>2 DEF RevokeQuietly
  <2> QED
    BY <2>1, <2>2 DEF RevokeQuietly
<1>2. Advances
  BY <1>1, ConnStays
<1>3. CASE task[t].kind = "callback" /\ Finish(t) /\ UNCHANGED <<connCache, inflight>>
  <2>1. HandlerOK(Finished, clerk, live', issued, lost')
    BY <1>1, ConnFacts DEF HandlerOK, Finished, Idle
  <2>2. ~lost' => \A j \in live' : ~Holds(task[t], j)
    BY <1>1 DEF Holds
  <2> QED
    BY <1>1, <1>2, <1>3, <2>1, <2>2, ConnFacts, QuietSteps DEF Finish
<1>4. CASE task[t].kind # "callback" /\ WriteBegin(t)
  <2> DEFINE h == [task[t] EXCEPT !.pc = "writing"]
  <2>1. task[t].kind = "disconnect" /\ task[t].pc = "revoke" /\ task[t].on \in ConnInstances /\ Forget(task[t].on)
        /\ \A j : ~Holds(task[t], j)
    BY <1>1, <1>4, ConnFacts DEF HandlerOK, Handlers, WriteBegin, Holds
  <2>2. /\ h \in Handlers /\ h.pc = "writing" /\ h.kind = "disconnect" /\ h.on = task[t].on
        /\ h.seen = task[t].seen /\ h.mine = task[t].mine /\ h.since = task[t].since /\ h.ok = task[t].ok
    BY <2>1, ConnFacts DEF Handlers, Pcs
  <2>3. Turns(t, h)
    BY <1>4 DEF WriteBegin, Goto
  <2> HIDE DEF h
  <2>4. HandlerOK(h, clerk, live', issued, lost')
    BY <1>1, <2>1, <2>2, ConnFacts DEF HandlerOK
  <2> QED
    BY <1>1, <1>2, <2>1, <2>2, <2>3, <2>4, ConnFacts, QuietSteps
<1> QED
  BY <1>3, <1>4 DEF RevokeQuietly

LEMMA ExpireKeeps ==
    ASSUME ConnInv, NEW i \in ConnInstances, Expire(i)
    PROVE  ConnInv'
<1>1. NoEntry \in Records
  BY DEF NoEntry, Stored, NoConnection, Records, ConnStates
<1>2. UNCHANGED <<clerk, live, issued, inflight, task, ownWrite, lost, raced>>
      /\ connCache' = [connCache EXCEPT ![i] = NoEntry]
  BY DEF Expire, connHistory
<1>3. Advances
  BY <1>2, ConnStays
<1>4. \A j \in ConnInstances : CacheOK(j)'
  <2>1. \A j \in ConnInstances : ownWrite[j] \in Nat /\ ownWrite[j] <= clerk.ver
    BY DEF ConnInv, ConnTypes, CacheOK
  <2>2. \A j \in ConnInstances : connCache'[j] = connCache[j] \/ connCache'[j] = NoEntry
    BY <1>2 DEF ConnInv, ConnTypes
  <2> QED
    BY <1>2, <1>3, <2>1, <2>2, CachesKeep
<1> QED
  BY <1>1, <1>2, <1>4 DEF ConnInv, ConnTypes, ReadsOK, KeysHeld

(* Clerk takes the write, and nobody wrote since its handler read, or the  *)
(* behaviour is one with an overwritten record (raced).                    *)
LEMMA WriteApplyKeeps ==
    ASSUME ConnInv, NEW t \in ConnTasks, WriteApply(t)
    PROVE  ConnInv'
<1> PICK applied \in BOOLEAN, ok \in BOOLEAN :
      /\ ~applied => ~ok
      /\ clerk' = IF applied THEN Stored(Written(t), clerk.ver + 1) ELSE clerk
      /\ Turns(t, [task[t] EXCEPT !.pc = "wrote", !.ok = ok])
      /\ lost' = (lost \/ ~ok)
      /\ raced' = (raced \/ (applied /\ task[t].seen.ver # clerk.ver))
  BY DEF WriteApply
<1> DEFINE h == [task[t] EXCEPT !.pc = "wrote", !.ok = ok]
<1>0. task[t].pc = "writing" /\ UNCHANGED <<live, issued, connCache, inflight, ownWrite>>
  BY DEF WriteApply
<1>1. /\ h \in Handlers /\ h.pc = "wrote" /\ h.ok = ok /\ h.kind = task[t].kind /\ h.on = task[t].on
      /\ h.seen = task[t].seen /\ h.mine = task[t].mine /\ h.since = task[t].since /\ Turns(t, h)
  BY ConnFacts DEF Handlers, Pcs
<1> HIDE DEF h
<1>2. Written(t) \in ConnStates /\ KnownKey(Written(t), issued)
      /\ Written(t).key = IF task[t].kind = "callback" THEN task[t].mine ELSE 0
  <2>1. task[t].kind \in {"callback", "disconnect", "tool"}
    BY ConnFacts DEF Handlers
  <2>2. Ok(task[t].mine) \in ConnStates /\ Ok(task[t].mine).key = task[t].mine /\ Ok(task[t].mine).st = "ok"
    BY ConnFacts DEF Ok, ConnStates
  <2>3. NoConnection \in ConnStates /\ Revoked \in ConnStates /\ NoConnection.key = 0 /\ Revoked.key = 0
    BY DEF NoConnection, Revoked, ConnStates
  <2> QED
    BY <2>1, <2>2, <2>3, ConnFacts DEF Written, KnownKey, HandlerOK
<1>3. clerk' \in Records /\ KnownKey(clerk'.state, issued') /\ (clerk' = clerk \/ clerk'.ver > clerk.ver) /\ clerk'.ver > 0
      /\ (applied => clerk'.state = Written(t))
  <2>1. clerk.ver > 0 /\ KnownKey(clerk.state, issued)
    BY DEF ConnInv, ConnTypes
  <2>2. /\ Stored(Written(t), clerk.ver + 1) \in Records /\ Stored(Written(t), clerk.ver + 1).ver > clerk.ver
        /\ Stored(Written(t), clerk.ver + 1).state = Written(t)
    BY <1>2, ConnFacts DEF Stored, Records
  <2>3. Stored(Written(t), clerk.ver + 1).ver > 0
    BY <2>1, <2>2, ConnFacts DEF Records
  <2> QED
    BY <1>0, <1>2, <2>1, <2>2, <2>3, ConnFacts
<1>4. Advances /\ lost' \in BOOLEAN /\ raced' \in BOOLEAN
  BY <1>0, <1>3, ConnFacts DEF Advances
<1>5. HandlerOK(h, clerk', live', issued', lost')
  <2>1. HandlerOK(h, clerk, live, issued, lost')
    BY <1>0, <1>1, ConnFacts DEF HandlerOK
  <2> QED
    <3>1. /\ h.seen.ver \in Nat /\ clerk.ver \in Nat /\ clerk'.ver \in Nat /\ h.since \in Nat
      BY <1>1, <1>3 DEF Handlers, Records, ConnInv, ConnTypes
    <3>2. Was(h.seen, clerk') /\ h.since <= clerk'.ver
      BY <1>3, <2>1, <3>1 DEF HandlerOK, Was
    <3> QED
      BY <1>0, <1>1, <2>1, <3>2 DEF HandlerOK
<1>6. \A i \in ConnInstances : CacheOK(i)'
  BY <1>0, <1>4, CachesKeep
<1>7. ReadsOK'
  BY <1>0, <1>1, ReadsKeep
<1>8. KeysHeld'
  <2> SUFFICES ASSUME ~lost', ~raced', NEW k \in live  PROVE k = clerk'.state.key \/ \E u \in ConnTasks : Holds(task'[u], k)
    BY <1>0 DEF KeysHeld
  <2>1. ok /\ applied /\ ~lost /\ ~raced /\ task[t].seen.ver = clerk.ver /\ task[t].seen.state = clerk.state
    BY ConnFacts DEF HandlerOK, Was
  <2>2. task'[t] = h /\ \A u \in ConnTasks \ {t} : task'[u] = task[u]
    BY <1>1 DEF Turns, ConnInv, ConnTypes
  <2>3. CASE \E u \in ConnTasks \ {t} : Holds(task[u], k)
    BY <2>2, <2>3
  <2>4. CASE Holds(task[t], k)
    BY <1>0, <1>2, <1>3, <2>1, <2>4 DEF Holds
  <2>5. CASE k = clerk.state.key
    <3>1. task[t].kind = "callback"
      <4>1. task[t].kind # "disconnect"
        BY <1>0, <2>1, <2>5, ConnFacts DEF HandlerOK
      <4>2. task[t].kind # "tool"
        <5>1. Ok(task[t].mine).key = task[t].mine
          BY DEF Ok
        <5> QED
          BY <1>0, <2>1, <2>5, <5>1, ConnFacts DEF HandlerOK
      <4> QED
        BY <4>1, <4>2, ConnFacts DEF Handlers
    <3>2. CASE k = task[t].mine
      BY <1>2, <1>3, <2>1, <3>1, <3>2
    <3>3. CASE k # task[t].mine
      BY <1>1, <2>1, <2>2, <2>5, <3>1, <3>3 DEF Holds
    <3> QED
      BY <3>2, <3>3
  <2> QED
    BY <2>1, <2>3, <2>4, <2>5 DEF ConnInv, KeysHeld
<1>9. /\ task' \in [ConnTasks -> Handlers]
      /\ \A u \in ConnTasks : HandlerOK(task'[u], clerk', live', issued', lost')
  BY <1>1, <1>4, <1>5, OtherHandlers
<1>10. ConnTypes'
  BY <1>0, <1>3, <1>4, <1>9 DEF ConnInv, ConnTypes
<1> QED
  BY <1>6, <1>7, <1>8, <1>9, <1>10 DEF ConnInv

LEMMA LoadKeeps ==
    ASSUME ConnInv, NEW t \in ConnTasks, Load(t)
    PROVE  ConnInv'
<1> DEFINE i == task[t].on
           from == [task[t] EXCEPT !.since = ownWrite[i]]
<1>0. /\ task[t].pc = "load" /\ UNCHANGED <<clerk, live, issued, connCache, ownWrite, lost, raced>> /\ i \in ConnInstances
      /\ ownWrite[i] \in Nat /\ connCache[i] \in Records /\ inflight[i] \in ConnTasks \cup {NoTask}
      /\ ownWrite[i] <= clerk.ver /\ CacheOK(i) /\ task[t].ok
  BY ConnFacts DEF Load, connHistory, HandlerOK, ConnInv, ConnTypes, CacheOK
<1>1. Advances
  BY <1>0, ConnStays
<1>2. /\ from \in Handlers /\ from.kind = task[t].kind /\ from.on = i /\ from.seen = task[t].seen
      /\ from.mine = task[t].mine /\ from.since = ownWrite[i] /\ from.ok /\ from.pc = "load"
  BY <1>0, ConnFacts DEF Handlers
<1> HIDE DEF from
<1>3. HandlerOK(from, clerk, live, issued, lost)
  BY <1>0, <1>2, ConnFacts DEF HandlerOK
<1>4. CASE connCache[i] # NoEntry /\ Turns(t, [from EXCEPT !.seen = connCache[i], !.pc = "loaded"]) /\ UNCHANGED inflight
  <2> DEFINE h == [from EXCEPT !.seen = connCache[i], !.pc = "loaded"]
  <2>1. /\ h \in Handlers /\ h.kind = task[t].kind /\ h.on = i /\ h.seen = connCache[i]
        /\ h.mine = task[t].mine /\ h.since = ownWrite[i] /\ h.ok /\ h.pc = "loaded" /\ Turns(t, h)
    BY <1>0, <1>2, <1>4 DEF Handlers, Pcs
  <2> HIDE DEF h
  <2>2. HandlerOK(h, clerk, live, issued, lost)
    BY <1>0, <1>3, <1>4, <2>1, <1>2 DEF HandlerOK, CacheOK
  <2>3. \A k : Holds(task[t], k) => Holds(h, k)
    BY <1>0, <2>1 DEF Holds
  <2> QED
    BY <1>0, <1>1, <1>4, <2>1, <2>2, <2>3, ConnFacts, QuietSteps
<1>5. ASSUME NEW h \in Handlers, Turns(t, h), HandlerOK(h, clerk, live, issued, lost),
             h.kind = task[t].kind, h.mine = task[t].mine, h.pc \in {"joined", "reading"}, ReadsOK',
             inflight' \in [ConnInstances -> ConnTasks \cup {NoTask}]
      PROVE  ConnInv'
  <2>1. /\ task' \in [ConnTasks -> Handlers]
        /\ \A u \in ConnTasks : HandlerOK(task'[u], clerk', live', issued', lost')
    BY <1>0, <1>1, <1>5, OtherHandlers
  <2>2. \A k : Holds(task[t], k) => Holds(h, k)
    BY <1>0, <1>5 DEF Holds
  <2>3. KeysHeld'
    BY <1>0, <1>5, <2>2, KeysKeep
  <2>4. \A j \in ConnInstances : CacheOK(j)'
    BY <1>0, <1>1, CachesKeep
  <2> QED
    BY <1>0, <1>5, <2>1, <2>3, <2>4 DEF ConnInv, ConnTypes
<1>8. /\ \A j \in ConnInstances : inflight[j] # NoTask =>
           /\ inflight[j] \in ConnTasks \ {t}
           /\ task[inflight[j]].on = j /\ Reads(task[inflight[j]], ownWrite[j])
      /\ \A u \in ConnTasks \ {t} : task[u].pc = "joined" =>
           task[u].lead \in ConnTasks \ {t} /\ Reads(task[task[u].lead], task[u].since)
  BY <1>0 DEF Turns, ConnInv, ConnTypes, ReadsOK, Reads
<1>6. CASE inflight[i] # NoTask /\ Turns(t, [from EXCEPT !.lead = inflight[i], !.pc = "joined"]) /\ UNCHANGED inflight
  <2> DEFINE h == [from EXCEPT !.lead = inflight[i], !.pc = "joined"]
  <2>1. /\ h \in Handlers /\ h.kind = task[t].kind /\ h.on = i /\ h.seen = task[t].seen /\ h.lead = inflight[i]
        /\ h.mine = task[t].mine /\ h.since = ownWrite[i] /\ h.ok /\ h.pc = "joined" /\ Turns(t, h)
    BY <1>0, <1>2, <1>6 DEF Handlers, Pcs
  <2> HIDE DEF h
  <2>2. HandlerOK(h, clerk, live, issued, lost)
    BY <1>0, <1>2, <1>3, <2>1 DEF HandlerOK
  <2>3. inflight[i] \in ConnTasks /\ inflight[i] # t /\ Reads(task[inflight[i]], ownWrite[i])
    BY <1>0, <1>6 DEF ConnInv, ReadsOK, Reads
  <2>4. ReadsOK'
    <3>0. task'[t] = h /\ \A u \in ConnTasks \ {t} : task'[u] = task[u]
      BY <2>1 DEF Turns, ConnInv, ConnTypes
    <3>1. \A j \in ConnInstances : inflight[j] # NoTask => task'[inflight[j]] = task[inflight[j]]
      BY <1>8, <3>0
    <3>2. ASSUME NEW u \in ConnTasks, task'[u].pc = "joined"
          PROVE  task'[u].lead \in ConnTasks /\ Reads(task'[task'[u].lead], task'[u].since)
      <4>1. CASE u = t
        BY <2>1, <2>3, <3>0, <4>1
      <4>2. CASE u # t
        BY <1>8, <3>0, <3>2, <4>2
      <4> QED
        BY <4>1, <4>2
    <3> QED
      BY <1>0, <1>6, <1>8, <3>1, <3>2 DEF ReadsOK
  <2> QED
    BY <1>5, <1>6, <2>1, <2>2, <2>4 DEF ConnInv, ConnTypes
<1>7. CASE inflight' = [inflight EXCEPT ![i] = t] /\ Turns(t, [from EXCEPT !.pc = "reading"])
  <2> DEFINE h == [from EXCEPT !.pc = "reading"]
  <2>1. /\ h \in Handlers /\ h.kind = task[t].kind /\ h.on = i /\ h.seen = task[t].seen
        /\ h.mine = task[t].mine /\ h.since = ownWrite[i] /\ h.ok /\ h.pc = "reading" /\ Turns(t, h)
    BY <1>0, <1>2, <1>7 DEF Handlers, Pcs
  <2> HIDE DEF h
  <2>2. HandlerOK(h, clerk, live, issued, lost)
    BY <1>0, <1>2, <1>3, <2>1 DEF HandlerOK
  <2>3. ReadsOK'
    <3>0. task'[t] = h /\ \A u \in ConnTasks \ {t} : task'[u] = task[u]
      BY <2>1 DEF Turns, ConnInv, ConnTypes
    <3>1. ASSUME NEW j \in ConnInstances, inflight'[j] # NoTask
          PROVE  task'[inflight'[j]].on = j /\ Reads(task'[inflight'[j]], ownWrite'[j])
      <4>1. CASE j = i
        <5>1. inflight'[j] = t /\ task'[t] = h
          BY <1>7, <3>0, <4>1 DEF ConnInv, ConnTypes
        <5> QED
          BY <2>1, <4>1, <5>1 DEF Reads
      <4>2. CASE j # i
        <5>1. inflight'[j] = inflight[j]
          BY <1>7, <4>2 DEF ConnInv, ConnTypes
        <5> QED
          BY <1>0, <1>8, <3>0, <3>1, <5>1
      <4> QED
        BY <4>1, <4>2
    <3>2. ASSUME NEW u \in ConnTasks, task'[u].pc = "joined"
          PROVE  task'[u].lead \in ConnTasks /\ Reads(task'[task'[u].lead], task'[u].since)
      <4>1. u # t
        BY <2>1, <3>0, <3>2
      <4> QED
        BY <1>8, <3>0, <3>2, <4>1
    <3> QED
      BY <3>1, <3>2 DEF ReadsOK
  <2>4. inflight' \in [ConnInstances -> ConnTasks \cup {NoTask}]
    BY <1>7 DEF ConnInv, ConnTypes
  <2> QED
    BY <1>5, <2>1, <2>2, <2>3, <2>4
<1> QED
  BY <1>4, <1>6, <1>7 DEF Load, from

LEMMA ReadRawKeeps ==
    ASSUME ConnInv, NEW t \in ConnTasks, ReadRaw(t)
    PROVE  ConnInv'
<1>0. UNCHANGED <<clerk, live, issued, connCache, inflight, ownWrite, raced>> /\ lost' \in BOOLEAN /\ (lost => lost')
  <2>1. UNCHANGED lost \/ lost' = TRUE
    BY DEF ReadRaw
  <2>2. lost' \in BOOLEAN
    BY <2>1, ConnFacts
  <2>3. lost => lost'
    BY <2>1
  <2> QED
    BY <2>2, <2>3 DEF ReadRaw
<1>1. Advances
  BY <1>0, ConnStays
<1>2. KnownKey(clerk.state, issued) /\ Was(clerk, clerk)
  BY ConnFacts DEF ConnInv, ConnTypes, Was
<1>3. ASSUME NEW pc \in {"answered", "marked"}, Turns(t, [task[t] EXCEPT !.seen = clerk, !.pc = pc]), UNCHANGED lost,
             task[t].pc = IF pc = "answered" THEN "reading" ELSE "marking"
      PROVE  ConnInv'
  <2> DEFINE h == [task[t] EXCEPT !.seen = clerk, !.pc = pc]
  <2>1. /\ h \in Handlers /\ h.kind = task[t].kind /\ h.on = task[t].on /\ h.seen = clerk /\ h.lead = task[t].lead
        /\ h.mine = task[t].mine /\ h.since = task[t].since /\ h.ok = task[t].ok /\ h.pc = pc /\ Turns(t, h)
    BY <1>3, ConnFacts DEF Handlers, Pcs
  <2> HIDE DEF h
  <2>2. HandlerOK(h, clerk, live, issued, lost)
    BY <1>2, <1>3, <2>1, ConnFacts DEF HandlerOK, Handlers
  <2>3. \A k : Holds(task[t], k) => Holds(h, k)
    BY <1>3, <2>1, ConnFacts DEF Holds, HandlerOK
  <2>4. CASE pc = "marked"
    BY <1>0, <1>1, <1>3, <2>1, <2>2, <2>3, <2>4, ConnFacts, QuietSteps
  <2>5. CASE pc = "answered"
    <3>1. \A u \in ConnTasks : task[u].since <= clerk.ver
      BY DEF ConnInv, HandlerOK
    <3>2. \A i \in ConnInstances : ownWrite[i] <= clerk.ver
      BY DEF ConnInv, CacheOK
    <3>3. ReadsOK'
      BY <1>0, <2>1, <2>5, <1>3, <3>1, <3>2 DEF Turns, ConnInv, ConnTypes, ReadsOK, Reads, Records, Handlers
    <3>4. KeysHeld'
      BY <1>0, <2>1, <2>3, KeysKeep
    <3>5. \A j \in ConnInstances : CacheOK(j)'
      BY <1>0, <1>1, CachesKeep
    <3>6. /\ task' \in [ConnTasks -> Handlers]
          /\ \A u \in ConnTasks : HandlerOK(task'[u], clerk', live', issued', lost')
      BY <1>0, <1>1, <1>3, <2>1, <2>2, OtherHandlers
    <3> QED
      BY <1>0, <1>3, <3>3, <3>4, <3>5, <3>6 DEF ConnInv, ConnTypes
  <2> QED
    BY <2>4, <2>5
<1>4. CASE task[t].pc = "marking" /\ Finish(t) /\ lost' = TRUE
  <2>1. HandlerOK(Finished, clerk, live, issued, lost')
    BY ConnFacts DEF HandlerOK, Finished, Idle
  <2> QED
    BY <1>0, <1>1, <1>4, <2>1, ConnFacts, QuietSteps DEF Finish
<1> QED
  BY <1>3, <1>4 DEF ReadRaw

LEMMA HandedOut ==
    ASSUME NEW h \in Handlers, NEW g \in Handlers, NEW c, NEW l, NEW n, NEW x, NEW y,
           HandlerOK(g, c, l, n, x), g.pc \in {"joined", "answered"},
           KnownKey(h.seen.state, n), Was(h.seen, c), h.seen.ver >= g.since,
           h.kind = g.kind, h.on = g.on, h.mine = g.mine, h.since = g.since, h.pc = "loaded", ~y => h.ok
    PROVE  HandlerOK(h, c, l, n, y)
BY DEF HandlerOK

LEMMA ReadSharedKeeps ==
    ASSUME ConnInv, NEW t \in ConnTasks, ReadShared(t)
    PROVE  ConnInv'
<1> DEFINE i == task[t].on
           joined == {u \in ConnTasks : task[u].lead = t /\ task[u].pc = "joined"}
<1>10. PICK ok \in BOOLEAN :
      /\ ~MayFail => ok
      /\ connCache' = IF ok /\ Current(t) THEN [connCache EXCEPT ![i] = task[t].seen] ELSE connCache
      /\ inflight' = IF Current(t) THEN [inflight EXCEPT ![i] = NoTask] ELSE inflight
      /\ task' = [u \in ConnTasks |->
                    IF u \in joined \cup {t}
                    THEN [task[u] EXCEPT !.seen = task[t].seen, !.lead = NoTask, !.ok = ok, !.pc = "loaded"]
                    ELSE task[u]]
      /\ lost' = (lost \/ ~ok)
  BY DEF ReadShared
<1>0. /\ task[t].pc = "answered" /\ UNCHANGED <<clerk, live, issued, ownWrite, raced>> /\ i \in ConnInstances
      /\ KnownKey(task[t].seen.state, issued) /\ Was(task[t].seen, clerk)
      /\ lost' \in BOOLEAN /\ (lost => lost')
  BY <1>10, ConnFacts DEF ReadShared, HandlerOK
<1>1. Advances
  BY <1>0, ConnStays
<1>2. ASSUME NEW u \in joined \cup {t}
      PROVE  /\ task'[u] \in Handlers /\ task'[u].kind = task[u].kind /\ task'[u].on = task[u].on
             /\ task'[u].seen = task[t].seen /\ task'[u].mine = task[u].mine /\ task'[u].since = task[u].since
             /\ task'[u].ok = ok /\ task'[u].pc = "loaded"
  <2>1. task[u] \in Handlers /\ task[t].seen \in Records
        /\ task'[u] = [task[u] EXCEPT !.seen = task[t].seen, !.lead = NoTask, !.ok = ok, !.pc = "loaded"]
    BY <1>10, ConnFacts
  <2> QED
    BY <2>1 DEF Handlers, Pcs
<1>3. \A u \in ConnTasks \ (joined \cup {t}) : task'[u] = task[u]
  BY <1>10
<1>4. ASSUME NEW u \in ConnTasks
      PROVE  task'[u] \in Handlers /\ HandlerOK(task'[u], clerk', live', issued', lost')
  <2>1. CASE u \notin joined \cup {t}
    BY <1>0, <1>1, <1>3, <2>1, ConnFacts, HandlersKeep
  <2>2. CASE u \in joined \cup {t}
    <3>1. task[t].seen.ver >= task[u].since
      BY <1>0, <2>2 DEF ConnInv, HandlerOK, ReadsOK, Reads
    <3>2. task[u].pc \in {"joined", "answered"} /\ HandlerOK(task[u], clerk, live, issued, lost)
      BY <1>0, <2>2, ConnFacts
    <3>3. ~lost' => ok
      BY <1>10
    <3>4. HandlerOK(task'[u], clerk, live, issued, lost')
      BY <1>0, <1>2, <2>2, <3>1, <3>2, <3>3, ConnFacts, HandedOut
    <3> QED
      BY <1>0, <1>2, <2>2, <3>4
  <2> QED
    BY <2>1, <2>2
<1>5. ReadsOK'
  <2>1. ASSUME NEW j \in ConnInstances, inflight'[j] # NoTask
        PROVE  task'[inflight'[j]].on = j /\ Reads(task'[inflight'[j]], ownWrite'[j])
    <3>1. inflight'[j] = inflight[j] /\ inflight[j] \in ConnTasks \ {t}
      BY <1>0, <1>10, <2>1 DEF Current, ConnInv, ConnTypes, ReadsOK
    <3>2. inflight[j] \notin joined
      BY <2>1, <3>1 DEF ConnInv, ReadsOK, Reads
    <3> QED
      BY <1>0, <1>3, <2>1, <3>1, <3>2 DEF ConnInv, ReadsOK
  <2>2. ASSUME NEW u \in ConnTasks, task'[u].pc = "joined"
        PROVE  task'[u].lead \in ConnTasks /\ Reads(task'[task'[u].lead], task'[u].since)
    <3>1. u \notin joined \cup {t} /\ task'[u] = task[u]
      BY <1>2, <1>3, <2>2
    <3>2. task[u].lead \in ConnTasks \ (joined \cup {t}) /\ Reads(task[task[u].lead], task[u].since)
      BY <2>2, <3>1 DEF ConnInv, ReadsOK, Reads
    <3> QED
      BY <1>3, <3>1, <3>2
  <2> QED
    BY <2>1, <2>2 DEF ReadsOK
<1>6. KeysHeld'
  <2>1. \A u \in ConnTasks, k \in live : Holds(task[u], k) => Holds(task'[u], k)
    <3>1. \A u \in joined \cup {t}, k \in live : Holds(task[u], k) => Holds(task'[u], k)
      BY <1>0, <1>2 DEF Holds
    <3> QED
      BY <1>3, <3>1
  <2> HIDE DEF joined
  <2> QED
    BY <1>0, <2>1 DEF ConnInv, KeysHeld
<1>7. ASSUME NEW j \in ConnInstances  PROVE CacheOK(j)'
  <2>1. CASE connCache'[j] = connCache[j]
    BY <1>0, <1>1, <2>1, CachesKeep
  <2>2. CASE connCache'[j] # connCache[j]
    <3>1. j = i /\ inflight[i] = t /\ connCache'[j] = task[t].seen
      BY <1>10, <2>2 DEF Current, ConnInv, ConnTypes
    <3>2. task[t].seen.ver >= ownWrite[j] /\ ownWrite[j] <= clerk.ver
      <4>1. inflight[j] # NoTask /\ CacheOK(j)
        BY <3>1, ConnAssumption DEF ConnInv
      <4>2. Reads(task[t], ownWrite[j])
        BY <3>1, <4>1 DEF ConnInv, ReadsOK
      <4> QED
        BY <1>0, <4>1, <4>2 DEF Reads, CacheOK
    <3> QED
      BY <1>0, <3>1, <3>2 DEF CacheOK
  <2> QED
    BY <2>1, <2>2
<1>8. ConnTypes'
  <2>1. task' \in [ConnTasks -> Handlers]
    BY <1>4, <1>10
  <2>2. connCache' \in [ConnInstances -> Records] /\ inflight' \in [ConnInstances -> ConnTasks \cup {NoTask}]
    BY <1>10, ConnFacts DEF ConnInv, ConnTypes
  <2> QED
    BY <1>0, <2>1, <2>2 DEF ConnInv, ConnTypes
<1> QED
  BY <1>4, <1>5, <1>6, <1>7, <1>8 DEF ConnInv

LEMMA ConnSteps == ConnInv /\ [ConnNext]_connVars => ConnInv'
<1> SUFFICES ASSUME ConnInv, [ConnNext]_connVars  PROVE ConnInv'
  OBVIOUS
<1>1. CASE UNCHANGED connVars
  BY <1>1 DEF connVars, ConnInv, ConnTypes, CacheOK, ReadsOK, KeysHeld
<1> QED
  BY <1>1, LoadKeeps, ReadRawKeeps, ReadSharedKeeps, BeginKeeps, AccessTokenKeeps, CallbackLoadedKeeps,
     DisconnectLoadedKeeps, ToolLoadedKeeps, UseKeeps, MarkRevokedKeeps, WriteApplyKeeps, WriteEndKeeps,
     RevokeQuietlyKeeps, ExpireKeeps DEF ConnNext

LEMMA ConnKeeps == ConnInv => ReadsOwnWrites /\ NothingLeftBehind
<1> SUFFICES ASSUME ConnInv  PROVE ReadsOwnWrites /\ NothingLeftBehind
  OBVIOUS
<1>1. ReadsOwnWrites
  BY DEF ConnInv, HandlerOK, ReadsOwnWrites
<1>2. NothingLeftBehind
  BY DEF ConnInv, KeysHeld, Holds, NothingLeftBehind
<1> QED
  BY <1>1, <1>2

LEMMA RejectionSteps ==
    ConnInv /\ [ConnNext]_connVars =>
        [clerk' # clerk => \A t \in ConnTasks :
            task[t].kind = "tool" /\ task[t].pc = "writing" /\ task'[t].pc = "wrote" /\ clerk.state.st = "ok"
              => clerk.state.key = task[t].mine \/ clerk.ver # task[t].seen.ver]_connVars
<1> SUFFICES ASSUME ConnInv, NEW t \in ConnTasks, task[t].kind = "tool", task[t].pc = "writing"
             PROVE  clerk.state.key = task[t].mine \/ clerk.ver # task[t].seen.ver
  OBVIOUS
<1>1. Was(task[t].seen, clerk) /\ task[t].seen.state = Ok(task[t].mine)
  BY DEF ConnInv, HandlerOK
<1> QED
  BY <1>1 DEF Was, Ok

(* A call sees the key its user stored or removed, and what a reconnect or *)
(* a failed one leaves at Zotero is revoked, for any number of instances   *)
(* and requests.                                                           *)
THEOREM ConnectionStaysTheUsers == Spec => []ConnectionIsTheUsers
<1> DEFINE Inv == clientPart = "connection" => ConnInv
<1>1. Init => Inv
  BY PartStarts, ConnStarts
<1>2. Inv /\ [Next]_vars => Inv'
  BY PartSteps, ConnSteps
<1>3. Inv => ConnectionIsTheUsers
  BY ConnKeeps DEF ConnectionIsTheUsers
<1> QED
  BY <1>1, <1>2, <1>3, PTL DEF Spec

(* What markRevoked clears is the key that Zotero rejected, or a record    *)
(* written since it read it.                                               *)
THEOREM OnlyTheRejectedKey == Spec => RejectionClearsOnlyItsKey
<1> DEFINE Inv == clientPart = "connection" => ConnInv
           Only == [clerk' # clerk => \A t \in ConnTasks :
                      task[t].kind = "tool" /\ task[t].pc = "writing" /\ task'[t].pc = "wrote" /\ clerk.state.st = "ok"
                        => clerk.state.key = task[t].mine \/ clerk.ver # task[t].seen.ver]_connVars
<1>1. Init => Inv
  BY PartStarts, ConnStarts
<1>2. Inv /\ [Next]_vars => Inv'
  BY PartSteps, ConnSteps
<1>3. Inv /\ [Next]_vars => Only
  BY PartSteps, RejectionSteps
<1> QED
  BY <1>1, <1>2, <1>3, PTL DEF Spec, RejectionClearsOnlyItsKey
-----------------------------------------------------------------------------
(* The modals: only the last entry of the history shows one, modalHref is  *)
(* the place of the one that shows, and what a close by history.back() is  *)
(* about to lose has been agreed to.                                       *)
ModalsTypes ==
    /\ entries \in Seq(Urls) /\ at \in DOMAIN entries
    /\ going \in Seq({-1, 1}) /\ closingByBack \in BOOLEAN /\ pushedModal \in BOOLEAN
    /\ waitingFiles \in Seq(Uploadables) /\ converting \in Uploadables \cup {NoUploadable}

ModalsInv ==
    /\ ModalsTypes
    /\ \A i \in DOMAIN entries : i < Len(entries) => entries[i].shows = "nothing"
    /\ modalHref = HrefOf(Shown)
    /\ Shown.shows # "files" => InUploader = {}
    /\ closingByBack => going # <<>> /\ InUploader \subseteq agreed
    /\ NothingLostUnasked

LEMMA ModalsFacts ==
    ASSUME ModalsInv
    PROVE  /\ at \in 1 .. Len(entries) /\ Len(entries) \in Nat /\ Shown \in Urls
           /\ modalHref = NoHref <=> Shown.shows # "files"
           /\ modalHref # NoHref => modalHref = Shown
           /\ Shown.shows # "nothing" => at = Len(entries)
<1>1. /\ at \in 1 .. Len(entries) /\ Len(entries) \in Nat /\ entries[at] \in Urls
      /\ at < Len(entries) => entries[at].shows = "nothing"
  BY DEF ModalsInv, ModalsTypes
<1>2. Shown \in Urls
  BY <1>1 DEF Shown
<1>3. modalHref = HrefOf(Shown)
  BY DEF ModalsInv
<1>4. Shown.shows # "nothing" => at = Len(entries)
  BY <1>1 DEF Shown
<1> QED
  BY <1>1, <1>2, <1>3, <1>4, WebModalsAssumption DEF HrefOf

LEMMA UploaderStays == UNCHANGED <<waitingFiles, converting>> => InUploader' = InUploader
BY DEF InUploader

LEMMA UploaderEmpty ==
    /\ waitingFiles = <<>> /\ converting = NoUploadable => InUploader = {}
    /\ waitingFiles' = <<>> /\ converting' = NoUploadable => InUploader' = {}
BY DEF InUploader

LEMMA UrlsAre ==
    ASSUME NEW page \in {"here", "there"}, NEW shows \in {"nothing", "files", "zotero"}, NEW row \in BOOLEAN
    PROVE  /\ Url(page, shows, row) \in Urls
           /\ Url(page, shows, row).page = page /\ Url(page, shows, row).shows = shows
BY DEF Url, Urls

LEMMA ModalsStarts == ModalsInit => ModalsInv
<1> SUFFICES ASSUME ModalsInit  PROVE ModalsInv
  OBVIOUS
<1>0. PICK shows \in {"nothing", "files", "zotero"} :
      /\ entries \in {<<Url("here", shows, FALSE)>>,
                      <<Url("there", "nothing", FALSE), Url("here", shows, FALSE)>>}
      /\ modalHref = HrefOf(Url("here", shows, FALSE))
  BY DEF ModalsInit
<1> DEFINE here == Url("here", shows, FALSE)
           there == Url("there", "nothing", FALSE)
<1>1. here \in Urls /\ there \in Urls /\ there.shows = "nothing" /\ at = Len(entries)
  BY UrlsAre DEF ModalsInit
<1> HIDE DEF here, there
<1>2. entries = <<here>> \/ entries = <<there, here>>
  BY <1>0 DEF here, there
<1>3. /\ entries \in Seq(Urls) /\ at \in DOMAIN entries /\ Shown = here
      /\ \A i \in DOMAIN entries : i < Len(entries) => entries[i].shows = "nothing"
  BY <1>1, <1>2 DEF Shown
<1>4. InUploader = {}
  BY UploaderEmpty DEF ModalsInit
<1>5. modalHref = HrefOf(Shown)
  BY <1>0, <1>3 DEF here
<1>6. ModalsTypes
  <2>1. going \in Seq({-1, 1}) /\ waitingFiles \in Seq(Uploadables)
    BY DEF ModalsInit
  <2>2. converting \in Uploadables \cup {NoUploadable} /\ closingByBack \in BOOLEAN /\ pushedModal \in BOOLEAN
    BY DEF ModalsInit
  <2> QED
    BY <1>3, <2>1, <2>2 DEF ModalsTypes
<1> QED
  BY <1>3, <1>4, <1>5, <1>6 DEF ModalsInit, ModalsInv, NothingLostUnasked

(* The page renders the entry it shows after a step: what the uploader     *)
(* held may go only with another page, or once it was agreed to.           *)
LEMMA RendersKeeps ==
    ASSUME ModalsInv, NEW url \in Urls, Renders(url), agreed \subseteq agreed', Shown' = url,
           entries' \in Seq(Urls), at' \in DOMAIN entries', going' \in Seq({-1, 1}),
           closingByBack' \in BOOLEAN, pushedModal' \in BOOLEAN,
           \A i \in DOMAIN entries' : i < Len(entries') => entries'[i].shows = "nothing",
           modalHref' = HrefOf(url),
           closingByBack' => closingByBack /\ going' = going,
           url.shows # "files" /\ url.page = Shown.page => InUploader \subseteq agreed'
    PROVE  ModalsInv'
<1>1. CASE url.shows = "files"
  <2>1. InUploader' = InUploader /\ UNCHANGED <<waitingFiles, converting, lostFiles>>
    BY <1>1, UploaderStays DEF Renders
  <2> QED
    BY <1>1, <2>1 DEF ModalsInv, ModalsTypes, NothingLostUnasked
<1>2. CASE url.shows # "files"
  <2>1. /\ waitingFiles' = <<>> /\ converting' = NoUploadable
        /\ lostFiles' = IF url.page = Shown.page THEN lostFiles \cup InUploader ELSE lostFiles
    BY <1>2 DEF Renders
  <2>2. InUploader' = {}
    BY <2>1, UploaderEmpty
  <2>3. lostFiles' \subseteq agreed'
    BY <1>2, <2>1 DEF ModalsInv, NothingLostUnasked
  <2> QED
    BY <2>1, <2>2, <2>3 DEF ModalsInv, ModalsTypes, NothingLostUnasked
<1> QED
  BY <1>1, <1>2

LEMMA PushKeeps ==
    ASSUME ModalsInv, NEW url \in Urls, NEW replace \in BOOLEAN, PushParams(url, replace),
           replace <=> Shown.shows # "nothing",
           agreed \subseteq agreed', UNCHANGED <<going, closingByBack>>, pushedModal' \in BOOLEAN,
           url.shows # "files" => InUploader \subseteq agreed'
    PROVE  ModalsInv'
<1>1. /\ entries' \in Seq(Urls) /\ at' \in DOMAIN entries' /\ Shown' = url
      /\ \A i \in DOMAIN entries' : i < Len(entries') => entries'[i].shows = "nothing"
  <2>1. CASE replace
    <3>1. entries' = [entries EXCEPT ![at] = url] /\ at' = at /\ at = Len(entries) /\ at \in 1 .. Len(entries)
      BY <2>1, ModalsFacts DEF PushParams, ReplaceEntry
    <3>2. entries' \in Seq(Urls) /\ Len(entries') = Len(entries) /\ entries'[at] = url
          /\ \A i \in 1 .. Len(entries) : i # at => entries'[i] = entries[i]
      BY <3>1, ModalsFacts DEF ModalsInv, ModalsTypes
    <3> QED
      BY <3>1, <3>2, ModalsFacts DEF ModalsInv, Shown
  <2>2. CASE ~replace
    <3>1. /\ entries' = Append(SubSeq(entries, 1, at), url) /\ at' = at + 1
          /\ entries[at].shows = "nothing"
      BY <2>2, ModalsFacts DEF PushParams, PushEntry, Shown, Urls
    <3>2. SubSeq(entries, 1, at) \in Seq(Urls) /\ Len(SubSeq(entries, 1, at)) = at
          /\ \A i \in 1 .. at : SubSeq(entries, 1, at)[i] = entries[i]
      BY ModalsFacts DEF ModalsInv, ModalsTypes
    <3> QED
      BY <3>1, <3>2, ModalsFacts DEF ModalsInv, Shown
  <2> QED
    BY <2>1, <2>2
<1> QED
  BY <1>1, RendersKeeps DEF PushParams, ModalsInv, ModalsTypes

LEMMA CloseKeeps ==
    ASSUME ModalsInv, CloseModal, Shown.shows # "nothing", agreed' = agreed \cup InUploader
    PROVE  ModalsInv'
<1>1. CASE pushedModal
  <2>1. InUploader' = InUploader /\ Shown' = Shown /\ going' = Append(going, -1)
        /\ UNCHANGED <<entries, at, modalHref, waitingFiles, converting, lostFiles>>
        /\ pushedModal' = FALSE /\ closingByBack' = TRUE
    BY <1>1, UploaderStays DEF CloseModal, Shown
  <2>2. going' \in Seq({-1, 1}) /\ going' # <<>>
    BY <2>1 DEF ModalsInv, ModalsTypes
  <2> QED
    BY <2>1, <2>2 DEF ModalsInv, ModalsTypes, NothingLostUnasked, HrefOf
<1>2. CASE ~pushedModal
  <2>1. Url(Shown.page, "nothing", FALSE) \in Urls
    BY ModalsFacts, UrlsAre DEF Urls
  <2> QED
    BY <1>2, <2>1, PushKeeps DEF CloseModal, ModalsInv, ModalsTypes
<1> QED
  BY <1>1, <1>2

LEMMA PopKeeps ==
    ASSUME ModalsInv, NEW yes \in BOOLEAN, PopState(yes)
    PROVE  ModalsInv'
<1> DEFINE arrived == at + Head(going)
           to == entries[arrived]
<1>1. /\ going # <<>> /\ going' = Tail(going) /\ closingByBack' = FALSE /\ going' \in Seq({-1, 1})
      /\ Head(going) \in {-1, 1} /\ arrived \in Int
  BY ModalsFacts DEF PopState, ModalsInv, ModalsTypes
<1>2. CASE arrived \notin DOMAIN entries
  <2>1. UNCHANGED <<entries, at, pushedModal, modalHref, waitingFiles, converting, agreed, lostFiles>>
    BY <1>2 DEF PopState
  <2>2. InUploader' = InUploader /\ Shown' = Shown
    BY <2>1, UploaderStays DEF Shown
  <2> QED
    BY <1>1, <2>1, <2>2 DEF ModalsInv, ModalsTypes, NothingLostUnasked, HrefOf
<1>3. CASE arrived \in DOMAIN entries /\ Asks(to) /\ ~yes
  <2>1. /\ entries' = Append(SubSeq(entries, 1, arrived), modalHref) /\ at' = arrived + 1 /\ pushedModal' = TRUE
        /\ UNCHANGED <<modalHref, waitingFiles, converting, agreed, lostFiles>>
    BY <1>3 DEF PopState
  <2>2. modalHref = Shown /\ Shown.shows = "files" /\ Shown \in Urls /\ arrived \in 1 .. Len(entries) /\ arrived < Len(entries)
    BY <1>1, <1>3, ModalsFacts DEF Asks, ModalsInv, ModalsTypes
  <2>3. SubSeq(entries, 1, arrived) \in Seq(Urls) /\ Len(SubSeq(entries, 1, arrived)) = arrived
        /\ \A i \in 1 .. arrived : SubSeq(entries, 1, arrived)[i] = entries[i]
    BY <2>2 DEF ModalsInv, ModalsTypes
  <2>4. /\ entries' \in Seq(Urls) /\ at' \in DOMAIN entries' /\ entries'[at'] = modalHref
        /\ \A i \in DOMAIN entries' : i < Len(entries') => entries'[i].shows = "nothing"
    BY <2>1, <2>2, <2>3 DEF ModalsInv
  <2>5. Shown' = Shown /\ InUploader' = InUploader
    BY <2>1, <2>2, <2>4, UploaderStays DEF Shown
  <2> QED
    BY <1>1, <2>1, <2>2, <2>4, <2>5 DEF ModalsInv, ModalsTypes, NothingLostUnasked, HrefOf
<1>4. CASE arrived \in DOMAIN entries /\ ~(Asks(to) /\ ~yes)
  <2>1. /\ at' = arrived /\ pushedModal' = FALSE /\ modalHref' = HrefOf(to)
        /\ agreed' = IF Asks(to) THEN agreed \cup InUploader ELSE agreed
        /\ Renders(to) /\ UNCHANGED entries
    BY <1>4 DEF PopState
  <2>2. Shown' = to /\ to \in Urls
    BY <1>4, <2>1 DEF Shown, ModalsInv, ModalsTypes
  <2>3. to.shows # "files" /\ to.page = Shown.page => InUploader \subseteq agreed'
    <3> SUFFICES ASSUME to.shows # "files", to.page = Shown.page, InUploader # {}  PROVE InUploader \subseteq agreed'
      OBVIOUS
    <3>1. modalHref # NoHref /\ modalHref.page = to.page /\ HasWork
      BY ModalsFacts DEF ModalsInv, HasWork
    <3>2. Asks(to) \/ closingByBack
      BY <3>1 DEF Asks
    <3> QED
      BY <2>1, <3>2 DEF ModalsInv
  <2>4. agreed \subseteq agreed'
    BY <2>1
  <2> HIDE DEF to
  <2> QED
    BY <1>1, <1>4, <2>1, <2>2, <2>3, <2>4, RendersKeeps DEF ModalsInv, ModalsTypes
<1> QED
  BY <1>2, <1>3, <1>4

LEMMA TakesNextKeeps ==
    ASSUME ModalsInv, TakesNext
    PROVE  ModalsInv'
<1>1. /\ converting = NoUploadable /\ waitingFiles # <<>> /\ waitingFiles \in Seq(Uploadables)
      /\ converting' = Head(waitingFiles) /\ waitingFiles' = Tail(waitingFiles)
      /\ UNCHANGED <<entries, at, going, pushedModal, modalHref, closingByBack, dropped, agreed, lostFiles>>
  BY DEF TakesNext, ModalsInv, ModalsTypes
<1>2. waitingFiles' \in Seq(Uploadables) /\ converting' \in Uploadables
  BY <1>1
<1>3. InUploader' \subseteq InUploader
  <2>1. \A i \in DOMAIN waitingFiles' : i + 1 \in DOMAIN waitingFiles /\ waitingFiles'[i] = waitingFiles[i + 1]
    BY <1>1
  <2>2. 1 \in DOMAIN waitingFiles /\ converting' = waitingFiles[1]
    BY <1>1
  <2> QED
    BY <2>1, <2>2 DEF InUploader
<1>4. Shown' = Shown
  BY <1>1 DEF Shown
<1> QED
  BY <1>1, <1>2, <1>3, <1>4 DEF ModalsInv, ModalsTypes, NothingLostUnasked, HrefOf

LEMMA ModalsSteps == ModalsInv /\ [ModalsNext]_modalVars => ModalsInv'
<1> SUFFICES ASSUME ModalsInv, [ModalsNext]_modalVars  PROVE ModalsInv'
  OBVIOUS
<1>0. Shown.page \in {"here", "there"} /\ Shown.shows \in {"nothing", "files", "zotero"}
  BY ModalsFacts DEF Urls
<1>1. ASSUME NEW row \in BOOLEAN, OpenFiles(row)  PROVE ModalsInv'
  <2>1. Url(Shown.page, "files", row) \in Urls /\ Url(Shown.page, "files", row).shows = "files"
    BY <1>0, UrlsAre
  <2>2. pushedModal' \in BOOLEAN
    BY <1>1 DEF OpenFiles
  <2> QED
    BY <1>0, <1>1, <2>1, <2>2, PushKeeps DEF OpenFiles
<1>2. ASSUME NEW row \in BOOLEAN, ShowFile(row)  PROVE ModalsInv'
  <2>1. Url(Shown.page, "files", row) \in Urls /\ Url(Shown.page, "files", row).shows = "files"
    BY <1>0, UrlsAre
  <2> QED
    BY <1>0, <1>2, <2>1, PushKeeps DEF ShowFile, ModalsInv, ModalsTypes
<1>3. ASSUME NEW yes \in BOOLEAN, CloseFiles(yes)  PROVE ModalsInv'
  BY <1>3, CloseKeeps DEF CloseFiles, MayDiscardWork
<1>4. CASE CloseZotero
  <2>1. InUploader = {} /\ agreed' = agreed \cup InUploader /\ Shown.shows # "nothing"
    BY <1>4 DEF CloseZotero, ModalsInv
  <2> QED
    BY <1>4, <2>1, CloseKeeps DEF CloseZotero
<1>5. ASSUME NEW yes \in BOOLEAN, OpenZotero(yes)  PROVE ModalsInv'
  <2>1. Url(Shown.page, "zotero", FALSE) \in Urls
    BY <1>0, UrlsAre
  <2>2. InUploader \subseteq agreed' /\ agreed \subseteq agreed'
    BY <1>5 DEF OpenZotero, MayDiscardWork, ModalsInv
  <2>3. pushedModal' \in BOOLEAN
    BY <1>5 DEF OpenZotero
  <2> QED
    BY <1>0, <1>5, <2>1, <2>2, <2>3, PushKeeps DEF OpenZotero
<1>6. ASSUME NEW yes \in BOOLEAN, PopState(yes)  PROVE ModalsInv'
  BY <1>6, PopKeeps
<1>7. ASSUME NEW delta \in {-1, 1}, UserMoves(delta)  PROVE ModalsInv'
  <2>1. going' \in Seq({-1, 1}) /\ going' # <<>>
    BY <1>7, SMTT(30) DEF UserMoves, ModalsInv, ModalsTypes
  <2>2. Shown' = Shown /\ InUploader' = InUploader
    BY <1>7, UploaderStays DEF UserMoves, Shown
  <2> QED
    BY <1>7, <2>1, <2>2 DEF UserMoves, ModalsInv, ModalsTypes, NothingLostUnasked, HrefOf
<1>8. ASSUME NEW f \in Uploadables, DropFile(f)  PROVE ModalsInv'
  <2>1. Shown' = Shown /\ ~closingByBack /\ waitingFiles' \in Seq(Uploadables)
    BY <1>8 DEF DropFile, Shown, ModalsInv, ModalsTypes
  <2> QED
    BY <1>8, <2>1 DEF DropFile, ModalsInv, ModalsTypes, NothingLostUnasked, HrefOf
<1>9. CASE TakesNext
  BY <1>9, TakesNextKeeps
<1>10. CASE FileEnds
  <2>1. Shown' = Shown /\ InUploader' \subseteq InUploader
    BY <1>10 DEF FileEnds, Shown, InUploader
  <2> QED
    BY <1>10, <2>1 DEF FileEnds, ModalsInv, ModalsTypes, NothingLostUnasked, HrefOf
<1>11. CASE UNCHANGED modalVars
  <2>1. Shown' = Shown /\ InUploader' = InUploader
    BY <1>11, UploaderStays DEF modalVars, Shown
  <2> QED
    BY <1>11, <2>1 DEF modalVars, ModalsInv, ModalsTypes, NothingLostUnasked, HrefOf
<1> QED
  BY <1>1, <1>2, <1>3, <1>4, <1>5, <1>6, <1>7, <1>8, <1>9, <1>10, <1>11 DEF ModalsNext

LEMMA ModalsKeep == ModalsInv => NothingLostUnasked /\ BackNeverReopens
<1> SUFFICES ASSUME ModalsInv  PROVE BackNeverReopens
  BY DEF ModalsInv
<1> QED
  BY ModalsFacts DEF ModalsInv, BackNeverReopens, Shown

(* A file that waits in the uploader is lost only after the user agreed,   *)
(* and Back never reopens a modal, for any files and history.              *)
THEOREM ModalsKeepTheWork == Spec => []ModalsKeepWork
<1> DEFINE Inv == clientPart = "modals" => ModalsInv
<1>1. Init => Inv
  BY PartStarts, ModalsStarts
<1>2. Inv /\ [Next]_vars => Inv'
  BY PartSteps, ModalsSteps
<1>3. Inv => ModalsKeepWork
  BY ModalsKeep DEF ModalsKeepWork
<1> QED
  BY <1>1, <1>2, <1>3, PTL DEF Spec
-----------------------------------------------------------------------------
(* One search of the own documents: hits are there only for a document     *)
(* that has been ready, and what the guards say is the answer.             *)
CallInv ==
    /\ document \in {"review", "ready", "gone"}
    /\ document = "ready" => readySeen
    /\ found \in [Lookups -> {"idle", "running", "review", "ready", "gone", "nothing", "hits", "failed"}]
    /\ \A v \in Lookups : found[v] = "hits" => readySeen
    /\ given.searchable \subseteq QueryVariants
    /\ verdict = "running" => answer = "none"
    /\ VerdictComesFirst

(* The pages: what lies before the next one was shown, and only that when  *)
(* nothing is left out.                                                    *)
WalkShape(w) == w = [sizes |-> w.sizes, inNotes |-> w.inNotes, limit |-> w.limit, page |-> w.page,
                      seen |-> w.seen, again |-> w.again, over |-> w.over]

PagesInv ==
    /\ WalkShape(walk)
    /\ walk.page \in Nat \ {0} /\ walk.limit \in Nat \ {0}
    /\ DOMAIN walk.sizes = 1 .. Len(walk.sizes) /\ Len(walk.sizes) \in Nat
    /\ walk.seen \subseteq DOMAIN walk.sizes
    /\ walk.inNotes = {} => \A e \in walk.seen : e <= (walk.page - 1) * walk.limit
    /\ PagesTileTheHits

SearchCallInv == CallInv /\ PagesInv

LEMMA WalksStart == \A w \in Walks \cup {NoWalk} :
    /\ w.page = 1 /\ w.limit \in Nat \ {0} /\ w.seen = {} /\ w.again = FALSE /\ w.over = FALSE
    /\ DOMAIN w.sizes = 1 .. Len(w.sizes) /\ Len(w.sizes) \in Nat /\ WalkShape(w)
<1>1. ASSUME NEW w \in Walks
      PROVE  /\ w.page = 1 /\ w.limit \in Nat \ {0} /\ w.seen = {} /\ w.again = FALSE /\ w.over = FALSE
             /\ DOMAIN w.sizes = 1 .. Len(w.sizes) /\ Len(w.sizes) \in Nat /\ WalkShape(w)
  <2>1. PICK s \in UNION {[1 .. k -> 1 .. 2] : k \in 0 .. MaxHits}, n \in SUBSET (1 .. MaxHits), l \in 1 .. MaxLimit :
           w = Walk(s, n, l)
    BY DEF Walks
  <2>2. PICK k \in 0 .. MaxHits : s \in [1 .. k -> 1 .. 2]
    BY <2>1
  <2>3. k \in Nat
    BY FilesSearchAssumption
  <2>4. s \in Seq(1 .. 2)
    BY <2>2, <2>3, IsASeq
  <2>5. DOMAIN s = 1 .. Len(s) /\ Len(s) \in Nat
    BY <2>4
  <2>6. l \in Nat \ {0}
    BY FilesSearchAssumption
  <2> QED
    BY <2>1, <2>5, <2>6 DEF Walk, WalkShape
<1>2. /\ NoWalk.page = 1 /\ NoWalk.limit \in Nat \ {0} /\ NoWalk.seen = {} /\ NoWalk.again = FALSE /\ NoWalk.over = FALSE
      /\ NoWalk.sizes = <<>> /\ WalkShape(NoWalk)
  BY DEF NoWalk, Walk, WalkShape
<1>3. DOMAIN NoWalk.sizes = 1 .. Len(NoWalk.sizes) /\ Len(NoWalk.sizes) \in Nat
  BY <1>2
<1> QED
  BY <1>1, <1>2, <1>3

LEMMA SearchCallStarts == SearchCallInit => SearchCallInv
<1> SUFFICES ASSUME SearchCallInit PROVE SearchCallInv
  OBVIOUS
<1>1. walk \in Walks \cup {NoWalk}
  BY DEF SearchCallInit
<1>2. given \in Calls \cup {PlainCall}
  BY DEF SearchCallInit
<1>3. given.searchable \subseteq QueryVariants
  BY <1>2 DEF Calls, PlainCall
<1>4. document \in {"review", "ready", "gone"} /\ (document = "ready" => readySeen) /\ verdict = "none" /\ answer = "none"
  BY DEF SearchCallInit
<1>5. found \in [Lookups -> {"idle"}]
  BY DEF SearchCallInit, NotAskedFor
<1>6. CallInv
  BY <1>3, <1>4, <1>5 DEF CallInv, VerdictComesFirst
<1>7. PagesInv
  BY <1>1, WalksStart DEF PagesInv, PagesTileTheHits
<1> QED
  BY <1>6, <1>7 DEF SearchCallInv

LEMMA CallSteps ==
    ASSUME CallInv, Gate \/ Measured \/ DocumentLookedUp \/ Decide
                    \/ (\E v \in QueryVariants : VariantSearched(v))
                    \/ (\E next \in {"ready", "gone"} : UserMovesDocument(next))
    PROVE  CallInv'
<1>1. CASE Gate
  <2>1. /\ UNCHANGED <<given, document, readySeen>> /\ verdict = "none" /\ answer = "none"
        /\ answer' \in {"refused", "guardOff", "nothing searchable", "none"}
        /\ \/ verdict' = "none" /\ found' = found
           \/ /\ answer' = "none" /\ verdict' \in {"running", "passed"}
              /\ found' \in [Lookups -> {"running", "idle"}]
    BY <1>1 DEF Gate
  <2> QED
    BY <2>1 DEF CallInv, VerdictComesFirst
<1>2. CASE Measured
  BY <1>2 DEF Measured, CallInv, VerdictComesFirst
<1>3. CASE DocumentLookedUp
  BY <1>3 DEF DocumentLookedUp, CallInv, VerdictComesFirst
<1>4. CASE Decide
  <2>1. /\ UNCHANGED <<given, document, verdict, found, readySeen>> /\ verdict # "running"
        /\ verdict = "guardOff" => answer' = "guardOff"
    BY <1>4 DEF Decide, Blocks
  <2>2. answer' = "passages" => VariantsThat("hits") # {}
    BY <1>4 DEF Decide
  <2>3. VariantsThat("hits") # {} => readySeen
    BY DEF CallInv, VariantsThat, Lookups
  <2> QED
    BY <2>1, <2>2, <2>3 DEF CallInv, VerdictComesFirst
<1>5. ASSUME NEW v \in QueryVariants, VariantSearched(v) PROVE CallInv'
  BY <1>5 DEF VariantSearched, CallInv, VerdictComesFirst, Lookups
<1>6. ASSUME NEW next \in {"ready", "gone"}, UserMovesDocument(next) PROVE CallInv'
  BY <1>6 DEF UserMovesDocument, CallInv, VerdictComesFirst
<1> QED
  BY <1>1, <1>2, <1>3, <1>4, <1>5, <1>6

(* As many fit as there are, or fewer but at least one.                    *)
LEMMA FittingIs ==
    ASSUME NEW sizes, NEW listed, Cardinality(listed) \in Nat
    PROVE  /\ Fitting(sizes, listed) \in 0 .. Cardinality(listed)
           /\ Fitting(sizes, listed) # Cardinality(listed) => Fitting(sizes, listed) >= 1
<1> DEFINE Exceeds(k) == SizeOf(sizes, FirstOf(k, listed)) > HitsBudget
           over == {k \in 2 .. Cardinality(listed) : Exceeds(k)}
           least == CHOOSE k \in over : \A j \in over : k <= j
<1>1. Fitting(sizes, listed) = IF over = {} THEN Cardinality(listed) ELSE least - 1
  BY DEF Fitting
<1>2. over \subseteq 2 .. Cardinality(listed)
  OBVIOUS
<1> HIDE DEF over
<1>3. over # {} => least \in over
  <2>1. over \subseteq Nat
    BY <1>2
  <2> QED
    BY <2>1, LeastOfNats
<1> HIDE DEF least
<1>4. CASE over = {}
  BY <1>1, <1>4
<1>5. CASE over # {}
  <2>1. least \in 2 .. Cardinality(listed)
    BY <1>2, <1>3, <1>5
  <2>2. Fitting(sizes, listed) = least - 1
    BY <1>1, <1>5
  <2> QED
    BY <2>1, <2>2
<1> QED
  BY <1>4, <1>5

(* A page that is cut shows a number of hits that divides its offset.      *)
LEMMA BudgetIs ==
    ASSUME NEW sizes, NEW listed, Cardinality(listed) \in Nat, NEW first \in Nat
    PROVE  budgetHits(sizes, listed, first) # Cardinality(listed)
               => /\ budgetHits(sizes, listed, first) \in 1 .. Cardinality(listed)
                  /\ first % budgetHits(sizes, listed, first) = 0
<1> DEFINE fit == Fitting(sizes, listed)
           dividing == {n \in 1 .. fit : first % n = 0}
           most == CHOOSE n \in dividing : \A m \in dividing : m <= n
<1>1. budgetHits(sizes, listed, first) = IF fit = Cardinality(listed) THEN fit ELSE most
  BY DEF budgetHits
<1>2. fit \in 0 .. Cardinality(listed) /\ (fit # Cardinality(listed) => fit >= 1)
  BY FittingIs
<1> HIDE DEF fit
<1>3. fit \in Nat /\ (fit >= 1 => 1 \in dividing)
  BY <1>2
<1>4. dividing \in SUBSET (1 .. fit) /\ \A n \in dividing : first % n = 0
  OBVIOUS
<1> HIDE DEF dividing
<1>5. dividing # {} => most \in dividing
  <2> SUFFICES ASSUME dividing # {} PROVE most \in dividing
    OBVIOUS
  <2>1. Highest(dividing) \in dividing /\ \A y \in dividing : Highest(dividing) >= y
    BY <1>3, <1>4, HighestOf
  <2>2. \A y \in dividing : y <= Highest(dividing)
    BY <1>3, <1>4, <2>1
  <2> QED
    BY <2>1, <2>2
<1> HIDE DEF most
<1>6. ASSUME fit # Cardinality(listed) PROVE most \in 1 .. Cardinality(listed) /\ first % most = 0
  <2>1. most \in dividing
    BY <1>2, <1>3, <1>5, <1>6
  <2>2. most \in 1 .. fit /\ first % most = 0
    BY <1>4, <2>1
  <2> QED
    BY <1>2, <1>3, <2>2
<1> QED
  BY <1>1, <1>6

(* Among the first k of what lies behind an offset is whatever is at most  *)
(* k behind it.                                                            *)
LEMMA FirstAre ==
    ASSUME NEW first \in Nat, NEW limit \in Nat, NEW listed, NEW k \in Nat,
           \A e \in listed : e \in Nat /\ first < e /\ e <= first + limit
    PROVE  /\ FirstOf(k, listed) \subseteq listed
           /\ Cardinality(listed) \in Nat /\ Cardinality(listed) <= limit
           /\ \A e \in listed : e <= first + k => e \in FirstOf(k, listed)
           /\ k = Cardinality(listed) => FirstOf(k, listed) = listed
           /\ (\A e \in listed : first + 1 .. e \subseteq listed) => \A e \in FirstOf(k, listed) : e <= first + k
<1>1. IsFiniteSet(first + 1 .. first + limit)
  BY FS_Interval
<1>2. listed \subseteq first + 1 .. first + limit
  OBVIOUS
<1>3. IsFiniteSet(listed) /\ Cardinality(listed) \in Nat /\ Cardinality(listed) <= limit
  <2>1. Cardinality(first + 1 .. first + limit) = limit
    <3>1. CASE limit = 0
      <4>1. first + 1 .. first + limit = {}
        BY <3>1
      <4> QED
        BY <3>1, <4>1, FS_EmptySet
    <3>2. CASE limit # 0
      <4>1. first + 1 \in Int /\ first + limit \in Int /\ first + 1 <= first + limit
        BY <3>2
      <4>2. Cardinality(first + 1 .. first + limit) = (first + limit) - (first + 1) + 1
        BY <4>1, FS_Interval
      <4> QED
        BY <4>2
    <3> QED
      BY <3>1, <3>2
  <2> QED
    BY <1>1, <1>2, <2>1, FS_Subset, FS_CardinalityType
<1>7. ASSUME NEW e \in listed PROVE IsFiniteSet(first + 1 .. e) /\ Cardinality(first + 1 .. e) = e - first
  <2>1. first + 1 \in Int /\ e \in Int /\ first + 1 <= e
    BY <1>2
  <2>2. Cardinality(first + 1 .. e) = e - (first + 1) + 1 /\ IsFiniteSet(first + 1 .. e)
    BY <2>1, FS_Interval
  <2> QED
    BY <2>1, <2>2
<1>4. ASSUME NEW e \in listed, e <= first + k PROVE e \in FirstOf(k, listed)
  <2> DEFINE before == {d \in listed : d <= e}
  <2>1. before \subseteq first + 1 .. e
    <3>1. \A d \in before : d \in Int /\ first + 1 <= d /\ d <= e
      OBVIOUS
    <3>2. e \in Int
      OBVIOUS
    <3> HIDE DEF before
    <3> QED
      BY <3>1, <3>2
  <2>2. IsFiniteSet(first + 1 .. e) /\ Cardinality(first + 1 .. e) = e - first
    BY <1>7
  <2>3. Cardinality(before) <= Cardinality(first + 1 .. e) /\ Cardinality(before) \in Nat
    BY <2>1, <2>2, FS_Subset, FS_CardinalityType
  <2>4. Cardinality(before) <= k
    BY <1>2, <1>4, <2>2, <2>3
  <2> QED
    BY <2>4 DEF FirstOf
<1>5. ASSUME k = Cardinality(listed), NEW e \in listed PROVE e \in FirstOf(k, listed)
  <2>1. {d \in listed : d <= e} \subseteq listed
    OBVIOUS
  <2>2. Cardinality({d \in listed : d <= e}) <= k
    BY <1>3, <1>5, <2>1, FS_Subset
  <2> QED
    BY <2>2 DEF FirstOf
<1>6. FirstOf(k, listed) \subseteq listed
  BY DEF FirstOf
<1>8. ASSUME NEW e \in FirstOf(k, listed), first + 1 .. e \subseteq listed PROVE e <= first + k
  <2>0. e \in listed /\ e \in Int
    BY <1>6, <1>8
  <2>1. {d \in listed : d <= e} = first + 1 .. e
    <3>1. \A d : d \in first + 1 .. e <=> d \in Int /\ first + 1 <= d /\ d <= e
      BY <2>0
    <3>2. \A d \in listed : d \in Int /\ first + 1 <= d
      OBVIOUS
    <3> QED
      BY <1>8, <3>1, <3>2
  <2>2. Cardinality({d \in listed : d <= e}) <= k
    BY <1>8 DEF FirstOf
  <2> QED
    <3>1. Cardinality(first + 1 .. e) = e - first
      BY <1>7, <2>0
    <3>2. e - first <= k
      BY <2>1, <2>2, <3>1
    <3> QED
      BY <2>0, <3>2
<1> QED
  BY <1>3, <1>4, <1>5, <1>6, <1>8

LEMMA OffsetOfNext ==
    ASSUME NEW g \in Nat, NEW k \in Nat \ {0}, g % k = 0, NEW p, p = g \div k + 2
    PROVE  p \in Nat \ {0} /\ (p - 1) * k = g + k
<1>1. g \div k \in Nat /\ g = k * (g \div k) + (g % k)
  OBVIOUS
<1> QED
  BY <1>1

LEMMA PagesStep == PagesInv /\ NextPageOfHits => PagesInv'
<1> SUFFICES ASSUME PagesInv, NextPageOfHits PROVE PagesInv'
  OBVIOUS
<1> DEFINE first == (walk.page - 1) * walk.limit
           onPage == {e \in DOMAIN walk.sizes \ walk.inNotes : first < e /\ e <= first + walk.limit}
           fit == budgetHits(walk.sizes, onPage, first)
           now == FirstOf(fit, onPage)
           cut == fit < Cardinality(onPage)
<1>1. /\ walk.page \in Nat \ {0} /\ walk.limit \in Nat \ {0} /\ ~walk.over
      /\ DOMAIN walk.sizes = 1 .. Len(walk.sizes) /\ Len(walk.sizes) \in Nat
      /\ walk.inNotes = {} => \A e \in walk.seen : e <= first
      /\ \A e \in DOMAIN walk.sizes \ walk.inNotes : e <= first => e \in walk.seen
      /\ walk.again => walk.inNotes # {}
  BY DEF PagesInv, PagesTileTheHits, NextPageOfHits
<1>2. walk' = [walk EXCEPT !.seen = walk.seen \cup now,
                           !.again = walk.again \/ now \cap walk.seen # {},
                           !.limit = IF cut THEN fit ELSE walk.limit,
                           !.page = IF cut THEN first \div fit + 2 ELSE walk.page + 1,
                           !.over = ~cut /\ Len(walk.sizes) <= first + walk.limit]
  BY DEF NextPageOfHits
<1>3. first \in Nat /\ (walk.page + 1 - 1) * walk.limit = first + walk.limit
  <2>1. walk.page - 1 \in Nat /\ walk.page + 1 - 1 = (walk.page - 1) + 1
    BY <1>1
  <2> QED
    BY <1>1, <2>1
<1> HIDE DEF first
<1>4. \A e : e \in onPage <=> e \in DOMAIN walk.sizes \ walk.inNotes /\ first < e /\ e <= first + walk.limit
  OBVIOUS
<1>5. \A e \in onPage : e \in Nat /\ first < e /\ e <= first + walk.limit
  BY <1>1
<1> HIDE DEF onPage
<1>6. Cardinality(onPage) \in Nat
  BY <1>1, <1>3, <1>5, FirstAre
<1>7. fit # Cardinality(onPage) => fit \in 1 .. Cardinality(onPage) /\ first % fit = 0
  BY <1>3, <1>6, BudgetIs
<1> HIDE DEF fit
<1>8. fit \in Nat /\ (~cut => fit = Cardinality(onPage))
  BY <1>6, <1>7
<1>9. /\ now \subseteq onPage /\ Cardinality(onPage) <= walk.limit
      /\ \A e \in onPage : e <= first + fit => e \in now
      /\ ~cut => now = onPage
      /\ (\A e \in onPage : first + 1 .. e \subseteq onPage) => \A e \in now : e <= first + fit
  <2>1. walk.limit \in Nat /\ fit \in Nat
    BY <1>1, <1>8
  <2> HIDE DEF now
  <2>2. /\ FirstOf(fit, onPage) \subseteq onPage
        /\ Cardinality(onPage) <= walk.limit
        /\ \A e \in onPage : e <= first + fit => e \in FirstOf(fit, onPage)
        /\ fit = Cardinality(onPage) => FirstOf(fit, onPage) = onPage
        /\ (\A e \in onPage : first + 1 .. e \subseteq onPage) => \A e \in FirstOf(fit, onPage) : e <= first + fit
    BY <1>3, <1>5, <2>1, FirstAre
  <2> QED
    BY <1>8, <2>2 DEF now
<1>10. /\ walk'.sizes = walk.sizes /\ walk'.inNotes = walk.inNotes
       /\ walk'.seen = walk.seen \cup now
       /\ walk'.again = (walk.again \/ now \cap walk.seen # {})
       /\ walk'.limit = (IF cut THEN fit ELSE walk.limit)
       /\ walk'.page = (IF cut THEN first \div fit + 2 ELSE walk.page + 1)
       /\ walk'.over = (~cut /\ Len(walk.sizes) <= first + walk.limit)
  BY <1>2 DEF PagesInv, WalkShape
<1>11. WalkShape(walk')
  BY <1>2 DEF PagesInv, WalkShape
<1>13. /\ walk'.seen \subseteq DOMAIN walk.sizes
       /\ walk.inNotes = {} => now \cap walk.seen = {}
  <2>1. walk.inNotes = {} => now \cap walk.seen = {}
    <3> SUFFICES ASSUME walk.inNotes = {}, NEW e \in now, e \in walk.seen PROVE FALSE
      OBVIOUS
    <3> HIDE DEF now
    <3> QED
      BY <1>1, <1>3, <1>5, <1>9
  <2> QED
    BY <1>1, <1>4, <1>9, <1>10, <2>1 DEF PagesInv
<1> HIDE DEF now
<1>15. walk.seen \subseteq DOMAIN walk.sizes
  BY DEF PagesInv
<1>16. /\ DOMAIN walk'.sizes = 1 .. Len(walk'.sizes) /\ Len(walk'.sizes) \in Nat
       /\ walk'.seen \subseteq DOMAIN walk'.sizes
       /\ walk'.again => walk'.inNotes # {}
  BY <1>1, <1>10, <1>13
<1>12. CASE cut
  <2>1. fit \in Nat \ {0} /\ first % fit = 0
    <3>1. fit # Cardinality(onPage)
      BY <1>6, <1>8, <1>12
    <3>2. fit \in 1 .. Cardinality(onPage) /\ first % fit = 0
      BY <1>7, <3>1
    <3>3. fit \in Nat \ {0}
      BY <1>6, <3>2
    <3> QED
      BY <3>2, <3>3
  <2>2. walk'.page = first \div fit + 2 /\ walk'.limit = fit /\ ~walk'.over
    BY <1>10, <1>12
  <2>3. walk'.page \in Nat \ {0} /\ (walk'.page - 1) * walk'.limit = first + fit
    <3>1. walk'.page \in Nat \ {0} /\ (walk'.page - 1) * fit = first + fit
      <4>1. first \in Nat /\ fit \in Nat \ {0} /\ first % fit = 0 /\ walk'.page = first \div fit + 2
        BY <1>3, <2>1, <2>2
      <4> QED
        BY <4>1, OffsetOfNext, ZenonT(40)
    <3> QED
      BY <2>2, <3>1
  <2>4. ASSUME NEW e \in DOMAIN walk.sizes \ walk.inNotes, e <= first + fit PROVE e \in walk'.seen
    <3>1. e <= first + walk.limit
      BY <1>1, <1>3, <1>6, <1>9, <1>12, <2>1, <2>4
    <3> QED
      BY <1>1, <1>3, <1>4, <1>9, <1>10, <2>4, <3>1
  <2>5. ASSUME walk.inNotes = {}, NEW e \in walk'.seen PROVE e <= first + fit
    <3>1. CASE e \in now
      <4>1. \A d \in onPage : first + 1 .. d \subseteq onPage
        <5> SUFFICES ASSUME NEW d \in onPage, NEW c \in first + 1 .. d PROVE c \in onPage
          OBVIOUS
        <5>1. d \in 1 .. Len(walk.sizes) /\ d <= first + walk.limit
          BY <1>1, <1>4
        <5>2. c \in 1 .. Len(walk.sizes) /\ first < c /\ c <= first + walk.limit
          BY <1>1, <1>3, <5>1
        <5> QED
          BY <1>1, <1>4, <2>5, <5>2
      <4> QED
        BY <1>9, <3>1, <4>1
    <3>2. CASE e \in walk.seen
      BY <1>1, <1>3, <1>15, <2>1, <2>5, <3>2
    <3> QED
      BY <1>10, <2>5, <3>1, <3>2
  <2> QED
    <3> DEFINE next == first + fit
    <3>1. (walk'.page - 1) * walk'.limit = next
      BY <2>3
    <3>2. \A e \in DOMAIN walk'.sizes \ walk'.inNotes : walk'.over \/ e <= next => e \in walk'.seen
      BY <1>10, <2>2, <2>4
    <3>3. walk'.inNotes = {} => \A e \in walk'.seen : e <= next
      BY <1>10, <2>5
    <3> HIDE DEF next
    <3> QED
      BY <1>11, <1>16, <2>1, <2>2, <2>3, <3>1, <3>2, <3>3 DEF PagesInv, PagesTileTheHits
<1>14. CASE ~cut
  <2>1. walk'.page = walk.page + 1 /\ walk'.limit = walk.limit
        /\ (walk'.over <=> Len(walk.sizes) <= first + walk.limit)
    BY <1>10, <1>14
  <2>2. (walk'.page - 1) * walk'.limit = first + walk.limit
    <3> DEFINE next == walk.page + 1
    <3>1. (next - 1) * walk.limit = first + walk.limit /\ next \in Nat
      BY <1>1, <1>3
    <3>2. walk'.page = next /\ walk'.limit = walk.limit
      BY <2>1
    <3> HIDE DEF next
    <3> QED
      BY <1>1, <3>1, <3>2
  <2>3. ASSUME NEW e \in DOMAIN walk.sizes \ walk.inNotes, e <= first + walk.limit PROVE e \in walk'.seen
    BY <1>1, <1>3, <1>4, <1>9, <1>10, <1>14, <2>3
  <2>4. ASSUME walk.inNotes = {}, NEW e \in walk'.seen PROVE e <= first + walk.limit
    <3>1. CASE e \in now
      BY <1>5, <1>9, <3>1
    <3>2. CASE e \in walk.seen
      BY <1>1, <1>3, <1>15, <2>4, <3>2
    <3> QED
      BY <1>10, <3>1, <3>2
  <2>5. walk'.over => \A e \in DOMAIN walk.sizes : e <= first + walk.limit
    BY <1>1, <1>3, <2>1
  <2> QED
    <3> DEFINE next == first + walk.limit
    <3>1. (walk'.page - 1) * walk'.limit = next /\ walk'.page \in Nat \ {0}
      BY <1>1, <2>1, <2>2
    <3>2. \A e \in DOMAIN walk'.sizes \ walk'.inNotes : walk'.over \/ e <= next => e \in walk'.seen
      BY <1>10, <2>3, <2>5
    <3>3. walk'.inNotes = {} => \A e \in walk'.seen : e <= next
      BY <1>10, <2>4
    <3> HIDE DEF next
    <3> QED
      BY <1>1, <1>11, <1>16, <2>1, <3>1, <3>2, <3>3 DEF PagesInv, PagesTileTheHits
<1> QED
  BY <1>12, <1>14

LEMMA SearchCallSteps == SearchCallInv /\ [SearchCallNext]_searchCallVars => SearchCallInv'
<1> SUFFICES ASSUME SearchCallInv, [SearchCallNext]_searchCallVars PROVE SearchCallInv'
  OBVIOUS
<1>1. CASE NextPageOfHits
  <2>1. UNCHANGED <<lookedFor, given, document, verdict, found, answer, readySeen>>
    BY <1>1 DEF NextPageOfHits
  <2>2. CallInv'
    BY <2>1 DEF SearchCallInv, CallInv, VerdictComesFirst
  <2> QED
    BY <1>1, <2>2, PagesStep DEF SearchCallInv
<1>2. CASE SearchCallNext /\ ~NextPageOfHits
  <2>1. UNCHANGED walk
    BY <1>2 DEF SearchCallNext, Gate, Measured, DocumentLookedUp, Decide, VariantSearched, UserMovesDocument
  <2>2. PagesInv'
    BY <2>1 DEF SearchCallInv, PagesInv, WalkShape, PagesTileTheHits
  <2>3. CallInv'
    BY <1>2, CallSteps DEF SearchCallInv, SearchCallNext
  <2> QED
    BY <2>2, <2>3 DEF SearchCallInv
<1>3. CASE UNCHANGED searchCallVars
  BY <1>3 DEF searchCallVars, SearchCallInv, CallInv, PagesInv, WalkShape, VerdictComesFirst, PagesTileTheHits
<1> QED
  BY <1>1, <1>2, <1>3
-----------------------------------------------------------------------------
(* The search of the own documents (SearchFusion): lists in an order.      *)

\* Each of S stands in s, once.
Enumerates(s, S) == s \in Seq(S) /\ Len(s) = Cardinality(S) /\ Range(s) = S /\ Once(s)

LEMMA InOrderIs ==
    ASSUME NEW S, IsFiniteSet(S), NEW R, StrictOrder(S, R)
    PROVE  /\ Enumerates(InOrder(S, R), S) /\ Cardinality(S) \in Nat
           /\ \A i \in 1 .. Cardinality(S) : Cardinality(Ahead(S, R, InOrder(S, R)[i])) = i - 1
<1> DEFINE n == Cardinality(S)
           s == InOrder(S, R)
<1>1. /\ n \in Nat
      /\ \A x, y \in S : Cardinality(Ahead(S, R, x)) = Cardinality(Ahead(S, R, y)) => x = y
      /\ \A i \in 1 .. n : \E x \in S : Cardinality(Ahead(S, R, x)) = i - 1
      /\ \A x \in S : Cardinality(Ahead(S, R, x)) \in 0 .. n - 1
  BY PlacesAreTaken
<1>2. s = [i \in 1 .. n |-> CHOOSE x \in S : Cardinality(Ahead(S, R, x)) = i - 1]
  BY DEF InOrder, Ahead
<1> HIDE DEF n, s
<1>3. ASSUME NEW i \in 1 .. n PROVE s[i] \in S /\ Cardinality(Ahead(S, R, s[i])) = i - 1
  BY <1>1, <1>2
<1>4. s \in [1 .. n -> S]
  BY <1>2, <1>3
<1>5. s \in Seq(S) /\ Len(s) = n /\ DOMAIN s = 1 .. n
  BY <1>1, <1>4, IsASeq
<1>6. ASSUME NEW x \in S PROVE \E i \in 1 .. n : s[i] = x
  <2> DEFINE i == Cardinality(Ahead(S, R, x)) + 1
  <2>1. i \in 1 .. n /\ i - 1 = Cardinality(Ahead(S, R, x))
    BY <1>1
  <2>2. s[i] \in S /\ Cardinality(Ahead(S, R, s[i])) = i - 1
    BY <1>3, <2>1
  <2> HIDE DEF i
  <2>3. s[i] = x
    BY <1>1, <2>1, <2>2
  <2> QED
    BY <2>1, <2>3
<1>7. Range(s) = S
  BY <1>3, <1>5, <1>6 DEF Range
<1>8. Once(s)
  <2> SUFFICES ASSUME NEW i \in 1 .. n, NEW j \in 1 .. n, s[i] = s[j] PROVE i = j
    BY <1>5 DEF Once
  <2>1. i - 1 = j - 1
    BY <1>3
  <2> QED
    BY <1>1, <2>1
<1> QED
  BY <1>1, <1>3, <1>5, <1>7, <1>8 DEF Enumerates, n, s

(* Of finitely many numbers, at least one, one is the greatest.            *)
LEMMA MostIs ==
    ASSUME NEW S \in SUBSET Nat, IsFiniteSet(S), S # {}
    PROVE  Most(S) \in S /\ \A m \in S : m <= Most(S)
<1> DEFINE R == {p \in S \X S : p[1] > p[2]}
<1>1. \A x, y \in S : <<x, y>> \in R <=> x > y
  OBVIOUS
<1> HIDE DEF R
<1>2. StrictOrder(S, R)
  BY <1>1 DEF StrictOrder
<1>3. Cardinality(S) \in Nat /\ Cardinality(S) # 0
  BY FS_CardinalityType, FS_EmptySet
<1>4. 1 \in 1 .. Cardinality(S)
  BY <1>3
<1>5. PICK x \in S : Cardinality(Ahead(S, R, x)) = 0
  <2> DEFINE s == InOrder(S, R)
  <2>1. Enumerates(s, S) /\ \A i \in 1 .. Cardinality(S) : Cardinality(Ahead(S, R, s[i])) = i - 1
    BY <1>2, InOrderIs
  <2> HIDE DEF s
  <2>2. s[1] \in S
    BY <1>4, <2>1 DEF Enumerates
  <2>3. Cardinality(Ahead(S, R, s[1])) = 0
    BY <1>4, <2>1
  <2> QED
    BY <2>2, <2>3
<1>6. Ahead(S, R, x) = {}
  <2>1. Ahead(S, R, x) \subseteq S
    BY DEF Ahead
  <2> QED
    BY <1>5, <2>1, FS_Subset, FS_EmptySet
<1>7. \A m \in S : m <= x
  <2> SUFFICES ASSUME NEW m \in S PROVE m <= x
    OBVIOUS
  <2>1. <<m, x>> \notin R
    BY <1>6 DEF Ahead
  <2>2. ~(m > x) /\ m \in Nat /\ x \in Nat
    BY <1>1, <2>1
  <2> QED
    BY <2>2
<1> QED
  BY <1>7 DEF Most

LEMMA ByScoreIs ==
    ASSUME NEW D \in SUBSET Nat, IsFiniteSet(D), NEW score \in [D -> Nat]
    PROVE  Enumerates(ByScore(score), D) /\ Cardinality(D) \in Nat
<1> DEFINE R == {p \in D \X D : score[p[1]] > score[p[2]] \/ (score[p[1]] = score[p[2]] /\ p[1] < p[2])}
<1>1. \A x, y \in D : <<x, y>> \in R <=> score[x] > score[y] \/ (score[x] = score[y] /\ x < y)
  OBVIOUS
<1>2. ByScore(score) = InOrder(D, R)
  BY DEF ByScore
<1> HIDE DEF R
<1>3. \A x \in D : x \in Nat /\ score[x] \in Nat
  OBVIOUS
<1>4. StrictOrder(D, R)
  BY <1>1, <1>3 DEF StrictOrder
<1> QED
  BY <1>2, <1>4, InOrderIs

\* The best of them.
LEMMA BestAre ==
    ASSUME NEW S, IsFiniteSet(S), NEW s, Enumerates(s, S), NEW k \in Nat
    PROVE  LET best == Best(s, k)
           IN  /\ best \in Seq(S) /\ Once(best) /\ Len(best) <= k /\ Len(best) <= Cardinality(S)
               /\ Range(best) \subseteq S
               /\ Cardinality(S) <= k => best = s
               /\ Len(best) = Cardinality(S) => best = s
               /\ Len(best) < k => Len(best) = Cardinality(S)
<1> DEFINE m == IF Len(s) < k THEN Len(s) ELSE k
           best == SubSeq(s, 1, m)
<1>1. s \in Seq(S) /\ Len(s) \in Nat /\ Len(s) = Cardinality(S) /\ DOMAIN s = 1 .. Len(s)
  BY DEF Enumerates
<1>2. Best(s, k) = best
  BY DEF Best
<1>3. m \in Nat /\ m <= k /\ m <= Len(s) /\ (Len(s) <= k => m = Len(s)) /\ (m < k => m = Len(s))
  BY <1>1
<1> HIDE DEF m
<1>4. best \in Seq(S) /\ Len(best) = m /\ DOMAIN best = 1 .. m /\ \A i \in 1 .. m : best[i] = s[i]
  BY <1>1, <1>3
<1>5. m = Len(s) => best = s
  BY <1>1, <1>4
<1> HIDE DEF best
<1>6. Once(best)
  BY <1>1, <1>3, <1>4 DEF Once, Enumerates
<1>7. Range(best) \subseteq S
  BY <1>4 DEF Range
<1> QED
  BY <1>1, <1>2, <1>3, <1>4, <1>5, <1>6, <1>7

LEMMA TurnsDiffer ==
    \A n, a, b \in Nat : \A i, j \in 1 .. n : a * n + i = b * n + j => a = b /\ i = j
<1> SUFFICES ASSUME NEW n \in Nat, NEW a \in Nat, NEW b \in Nat, NEW i \in 1 .. n, NEW j \in 1 .. n,
                    a * n + i = b * n + j
             PROVE  a = b /\ i = j
  OBVIOUS
<1>1. \A p, q \in Nat : p > 0 /\ q > 0 => q <= p * q
  OBVIOUS
<1>2. \A p, q \in Nat : p < q => p * n + n <= q * n
  <2> SUFFICES ASSUME NEW p \in Nat, NEW q \in Nat, p < q PROVE p * n + n <= q * n
    OBVIOUS
  <2>1. q - p \in Nat /\ q - p > 0 /\ n > 0
    OBVIOUS
  <2>2. n <= (q - p) * n
    BY <1>1, <2>1
  <2>3. (q - p) * n = q * n - p * n
    OBVIOUS
  <2> QED
    BY <2>2, <2>3
<1>3. a * n \in Nat /\ b * n \in Nat /\ i \in Nat /\ j \in Nat /\ i >= 1 /\ j >= 1 /\ i <= n /\ j <= n
  OBVIOUS
<1>4. ~(a < b)
  <2> SUFFICES ASSUME a < b PROVE FALSE
    OBVIOUS
  <2>1. a * n + n <= b * n
    BY <1>2
  <2> QED
    BY <1>3, <2>1
<1>5. ~(b < a)
  <2> SUFFICES ASSUME b < a PROVE FALSE
    OBVIOUS
  <2>1. b * n + n <= a * n
    BY <1>2
  <2> QED
    BY <1>3, <2>1
<1>6. a = b
  BY <1>4, <1>5
<1> QED
  BY <1>3, <1>6

KeysIn(lists) == UNION {Range(lists[i]) : i \in DOMAIN lists}
TurnsOf(lists, x) == UNION {{(k - 1) * Len(lists) + i : k \in {n \in DOMAIN lists[i] : lists[i][n] = x}} : i \in DOMAIN lists}
FirstTurn(lists, x) == CHOOSE t \in TurnsOf(lists, x) : \A u \in TurnsOf(lists, x) : t <= u
EarlierTurn(lists) == {p \in KeysIn(lists) \X KeysIn(lists) : FirstTurn(lists, p[1]) < FirstTurn(lists, p[2])}

LEMMA InterleaveByTurns == \A lists : interleave(lists) = InOrder(KeysIn(lists), EarlierTurn(lists))
<1> SUFFICES ASSUME NEW lists PROVE interleave(lists) = InOrder(KeysIn(lists), EarlierTurn(lists))
  OBVIOUS
<1> DEFINE turn == [x \in KeysIn(lists) |-> FirstTurn(lists, x)]
           R == {p \in KeysIn(lists) \X KeysIn(lists) : turn[p[1]] < turn[p[2]]}
<1>1. interleave(lists) = InOrder(KeysIn(lists), R)
  BY DEF interleave, KeysIn, TurnsOf, FirstTurn
<1>2. R = EarlierTurn(lists)
  BY DEF EarlierTurn
<1> HIDE DEF R
<1> QED
  BY <1>1, <1>2

LEMMA KeyHasTurn ==
    ASSUME NEW K, NEW lists \in Seq(Seq(K)), NEW x
    PROVE  /\ \A t \in TurnsOf(lists, x) :
                \E i \in DOMAIN lists, k \in Nat :
                    k \in DOMAIN lists[i] /\ lists[i][k] = x /\ i \in 1 .. Len(lists) /\ k - 1 \in Nat /\ t = (k - 1) * Len(lists) + i
           /\ \A i \in DOMAIN lists : \A k \in DOMAIN lists[i] :
                lists[i][k] = x => (k - 1) * Len(lists) + i \in TurnsOf(lists, x)
<1>1. Len(lists) \in Nat /\ DOMAIN lists = 1 .. Len(lists) /\ \A i \in DOMAIN lists : lists[i] \in Seq(K)
  OBVIOUS
<1>2. \A i \in DOMAIN lists : \A k \in DOMAIN lists[i] : k \in Nat /\ k - 1 \in Nat
  BY <1>1
<1>3. ASSUME NEW t \in TurnsOf(lists, x)
      PROVE  \E i \in DOMAIN lists, k \in Nat :
                 k \in DOMAIN lists[i] /\ lists[i][k] = x /\ i \in 1 .. Len(lists) /\ k - 1 \in Nat /\ t = (k - 1) * Len(lists) + i
  <2>1. PICK i \in DOMAIN lists : t \in {(k - 1) * Len(lists) + i : k \in {n \in DOMAIN lists[i] : lists[i][n] = x}}
    BY DEF TurnsOf
  <2> QED
    BY <1>1, <1>2, <2>1
<1>4. ASSUME NEW i \in DOMAIN lists, NEW k \in DOMAIN lists[i], lists[i][k] = x
      PROVE  (k - 1) * Len(lists) + i \in TurnsOf(lists, x)
  <2>1. (k - 1) * Len(lists) + i \in {(m - 1) * Len(lists) + i : m \in {n \in DOMAIN lists[i] : lists[i][n] = x}}
    BY <1>4
  <2> QED
    BY <2>1 DEF TurnsOf
<1> QED
  BY <1>3, <1>4

LEMMA FirstTurnIs ==
    ASSUME NEW K, NEW lists \in Seq(Seq(K)), NEW x \in KeysIn(lists)
    PROVE  /\ FirstTurn(lists, x) \in TurnsOf(lists, x) /\ FirstTurn(lists, x) \in Nat \ {0}
           /\ \A t \in TurnsOf(lists, x) : FirstTurn(lists, x) <= t
<1>1. \A t \in TurnsOf(lists, x) : t \in Nat \ {0}
  <2> SUFFICES ASSUME NEW t \in TurnsOf(lists, x) PROVE t \in Nat \ {0}
    OBVIOUS
  <2>1. PICK i \in DOMAIN lists, k \in Nat :
           k \in DOMAIN lists[i] /\ i \in 1 .. Len(lists) /\ k - 1 \in Nat /\ t = (k - 1) * Len(lists) + i
    BY KeyHasTurn
  <2>2. Len(lists) \in Nat
    OBVIOUS
  <2>3. \A p, q \in Nat : p * q \in Nat
    OBVIOUS
  <2> DEFINE c == (k - 1) * Len(lists)
  <2>4. c \in Nat
    BY <2>1, <2>2, <2>3, Zenon
  <2>5. i \in Nat \ {0}
    BY <2>1, <2>2
  <2>6. t = c + i
    BY <2>1, Zenon
  <2> HIDE DEF c
  <2> QED
    BY <2>4, <2>5, <2>6
<1>2. TurnsOf(lists, x) # {}
  <2>1. PICK i \in DOMAIN lists : x \in Range(lists[i])
    BY DEF KeysIn
  <2>2. PICK k \in DOMAIN lists[i] : lists[i][k] = x
    BY <2>1 DEF Range
  <2> QED
    BY <2>2, KeyHasTurn
<1>3. PICK t \in TurnsOf(lists, x) : \A u \in TurnsOf(lists, x) : t <= u
  BY <1>1, <1>2, LeastOfNats
<1>4. FirstTurn(lists, x) \in TurnsOf(lists, x) /\ \A u \in TurnsOf(lists, x) : FirstTurn(lists, x) <= u
  BY <1>3 DEF FirstTurn
<1> QED
  BY <1>1, <1>4

LEMMA TurnsAreInOrder ==
    ASSUME NEW K, NEW lists \in Seq(Seq(K))
    PROVE  /\ StrictOrder(KeysIn(lists), EarlierTurn(lists))
           /\ \A x, y \in KeysIn(lists) : <<x, y>> \in EarlierTurn(lists) <=> FirstTurn(lists, x) < FirstTurn(lists, y)
           /\ \A x, y \in KeysIn(lists) : FirstTurn(lists, x) = FirstTurn(lists, y) => x = y
<1>1. \A x \in KeysIn(lists) : FirstTurn(lists, x) \in Nat
  BY FirstTurnIs
<1>2. \A x, y \in KeysIn(lists) : <<x, y>> \in EarlierTurn(lists) <=> FirstTurn(lists, x) < FirstTurn(lists, y)
  BY DEF EarlierTurn
<1>3. ASSUME NEW x \in KeysIn(lists), NEW y \in KeysIn(lists), FirstTurn(lists, x) = FirstTurn(lists, y)
      PROVE  x = y
  <2> DEFINE t == FirstTurn(lists, x)
  <2>0. t \in TurnsOf(lists, x) /\ t \in TurnsOf(lists, y)
    BY <1>3, FirstTurnIs
  <2> HIDE DEF t
  <2>1. PICK i \in DOMAIN lists, k \in Nat :
           k \in DOMAIN lists[i] /\ lists[i][k] = x /\ i \in 1 .. Len(lists) /\ k - 1 \in Nat /\ t = (k - 1) * Len(lists) + i
    BY <2>0, KeyHasTurn
  <2>2. PICK j \in DOMAIN lists, m \in Nat :
           m \in DOMAIN lists[j] /\ lists[j][m] = y /\ j \in 1 .. Len(lists) /\ m - 1 \in Nat /\ t = (m - 1) * Len(lists) + j
    BY <2>0, KeyHasTurn
  <2>3. Len(lists) \in Nat
    OBVIOUS
  <2>4. (k - 1) * Len(lists) + i = (m - 1) * Len(lists) + j
    BY <2>1, <2>2
  <2>5. k - 1 = m - 1 /\ i = j
    <3> DEFINE a == k - 1
               b == m - 1
    <3>1. a \in Nat /\ b \in Nat /\ a * Len(lists) + i = b * Len(lists) + j
      BY <2>1, <2>2, <2>4
    <3> HIDE DEF a, b
    <3> DEFINE n == Len(lists)
    <3>3. n \in Nat /\ a \in Nat /\ b \in Nat /\ i \in 1 .. n /\ j \in 1 .. n
      BY <2>1, <2>2, <2>3, <3>1
    <3>4. a * n + i = b * n + j
      BY <3>1
    <3> HIDE DEF n
    <3>5. \A p, q \in 1 .. n : a * n + p = b * n + q => a = b /\ p = q
      BY <3>3, TurnsDiffer, Zenon
    <3>2. a = b /\ i = j
      BY <3>3, <3>4, <3>5, Zenon
    <3> QED
      BY <3>2 DEF a, b
  <2>6. k \in Nat /\ m \in Nat
    OBVIOUS
  <2>7. k = m
    BY <2>5, <2>6
  <2> QED
    BY <2>1, <2>2, <2>5, <2>7
<1>4. StrictOrder(KeysIn(lists), EarlierTurn(lists))
  BY <1>1, <1>2, <1>3 DEF StrictOrder
<1> QED
  BY <1>2, <1>3, <1>4

(* The keys of the lists, each once; and the first of every list among the *)
(* first, one place for a list.                                            *)
LEMMA InterleaveIs ==
    ASSUME NEW K, IsFiniteSet(K), NEW lists \in Seq(Seq(K))
    PROVE  /\ Enumerates(interleave(lists), KeysIn(lists))
           /\ KeysIn(lists) \subseteq K /\ IsFiniteSet(KeysIn(lists)) /\ Cardinality(KeysIn(lists)) \in Nat
           /\ \A i \in DOMAIN lists : lists[i] # <<>> =>
                \E k \in DOMAIN interleave(lists) : k <= Len(lists) /\ interleave(lists)[k] = lists[i][1]
<1> DEFINE S == KeysIn(lists)
           R == EarlierTurn(lists)
           s == InOrder(S, R)
<1>1. interleave(lists) = s
  BY InterleaveByTurns
<1>2. S \subseteq K
  BY DEF KeysIn, Range
<1>3. IsFiniteSet(S)
  BY <1>2, FS_Subset
<1>4. StrictOrder(S, R) /\ \A x, y \in S : FirstTurn(lists, x) = FirstTurn(lists, y) => x = y
  BY TurnsAreInOrder
<1>5. \A x, y \in S : <<x, y>> \in R <=> FirstTurn(lists, x) < FirstTurn(lists, y)
  BY TurnsAreInOrder
<1>6. \A x \in S : FirstTurn(lists, x) \in Nat \ {0}
  BY FirstTurnIs
<1> HIDE DEF R
<1>7. Enumerates(s, S) /\ Cardinality(S) \in Nat /\ \A i \in 1 .. Cardinality(S) : Cardinality(Ahead(S, R, s[i])) = i - 1
  BY <1>3, <1>4, InOrderIs
<1> HIDE DEF s
<1>8. ASSUME NEW i \in DOMAIN lists, lists[i] # <<>>
      PROVE  \E k \in DOMAIN s : k <= Len(lists) /\ s[k] = lists[i][1]
  <2> DEFINE x == lists[i][1]
  <2>1. lists[i] \in Seq(K) /\ i \in 1 .. Len(lists) /\ Len(lists) \in Nat
    OBVIOUS
  <2>2. 1 \in DOMAIN lists[i]
    BY <1>8, <2>1
  <2>3. x \in S
    BY <2>2 DEF KeysIn, Range
  <2>4. (1 - 1) * Len(lists) + i = i
    BY <2>1
  <2>5. i \in TurnsOf(lists, x)
    BY <2>2, <2>4, KeyHasTurn
  <2>6. FirstTurn(lists, x) <= i
    BY <2>3, <2>5, FirstTurnIs
  <2> HIDE DEF x
  <2> DEFINE A == Ahead(S, R, x)
             t == [y \in A |-> FirstTurn(lists, y)]
  <2>7. \A y \in A : y \in S /\ FirstTurn(lists, y) \in 1 .. i - 1
    BY <1>5, <1>6, <2>1, <2>3, <2>6 DEF Ahead
  <2>8. t \in Injection(A, 1 .. i - 1)
    <3>1. t \in [A -> 1 .. i - 1]
      BY <2>7
    <3>2. \A y, z \in A : t[y] = t[z] => y = z
      BY <1>4, <2>7
    <3> QED
      BY <3>1, <3>2, Fun_IsInj
  <2>9. IsFiniteSet(1 .. i - 1) /\ Cardinality(1 .. i - 1) = i - 1
    <3>1. CASE i = 1
      <4>1. 1 .. i - 1 = {}
        BY <3>1
      <4> QED
        BY <3>1, <4>1, FS_EmptySet
    <3>2. CASE i # 1
      <4>1. i - 1 \in Int /\ 1 <= i - 1
        BY <2>1, <3>2
      <4> QED
        BY <4>1, FS_Interval
    <3> QED
      BY <3>1, <3>2
  <2> HIDE DEF A, t
  <2>10. Cardinality(A) <= i - 1
    BY <2>8, <2>9, FS_Injection
  <2>11. PICK k \in DOMAIN s : s[k] = x
    BY <1>7, <2>3 DEF Enumerates, Range
  <2>12. k \in 1 .. Cardinality(S)
    BY <1>7 DEF Enumerates
  <2>13. k - 1 <= i - 1
    BY <1>7, <2>10, <2>11, <2>12 DEF A
  <2>14. k <= Len(lists)
    BY <1>7, <2>1, <2>12, <2>13
  <2> QED
    BY <2>11, <2>14 DEF x
<1> QED
  BY <1>1, <1>2, <1>3, <1>7, <1>8
-----------------------------------------------------------------------------
Places == Nat \X Nat
BeforePairs(channel, P) == {pq \in P \X P : Before(channel, pq[1], pq[2])}
OfDoc(S, d) == {q \in S : q[1] = d}

LEMMA BeforeIsAnOrder ==
    ASSUME NEW channel, NEW P \in SUBSET Places
    PROVE  /\ StrictOrder(P, BeforePairs(channel, P))
           /\ \A T \in SUBSET P : \A p \in P : {q \in T : Before(channel, q, p)} = Ahead(T, BeforePairs(channel, P), p)
           /\ \A T \in SUBSET P : StrictOrder(T, BeforePairs(channel, P))
<1> DEFINE R == BeforePairs(channel, P)
           early(a, b) == a[1] < b[1] \/ (a[1] = b[1] /\ a[2] < b[2])
<1>1. \A p, q \in P : <<p, q>> \in R <=> Before(channel, p, q)
  BY DEF BeforePairs
<1>2. \A p, q : Before(channel, p, q) <=> IF channel = "idn" THEN early(q, p) ELSE early(p, q)
  BY DEF Before
<1>3. \A p \in P : p[1] \in Nat /\ p[2] \in Nat /\ p = <<p[1], p[2]>>
  BY DEF Places
<1> HIDE DEF R
<1>4. \A p \in P : ~early(p, p)
  BY <1>3
<1>5. \A p, q \in P : p # q => early(p, q) \/ early(q, p)
  <2> SUFFICES ASSUME NEW p \in P, NEW q \in P, p # q PROVE early(p, q) \/ early(q, p)
    OBVIOUS
  <2>1. p[1] # q[1] \/ p[2] # q[2]
    BY <1>3
  <2>2. p[1] \in Nat /\ p[2] \in Nat /\ q[1] \in Nat /\ q[2] \in Nat
    BY <1>3
  <2> QED
    BY <2>1, <2>2
<1>6. \A p, q, r \in P : early(p, q) /\ early(q, r) => early(p, r)
  BY <1>3
<1> HIDE DEF early
<1>7. StrictOrder(P, R)
  BY <1>1, <1>2, <1>4, <1>5, <1>6 DEF StrictOrder
<1>8. \A T \in SUBSET P : \A p \in P : {q \in T : Before(channel, q, p)} = Ahead(T, R, p)
  BY <1>1 DEF Ahead
<1>9. \A T \in SUBSET P : StrictOrder(T, R)
  BY <1>7 DEF StrictOrder
<1> QED
  BY <1>7, <1>8, <1>9 DEF R

(* The rows of one channel: the passages it keeps of each document, up to  *)
(* its limit.                                                              *)
KeptOf(S, R, perDoc) == {p \in S : Cardinality(Ahead(OfDoc(S, p[1]), R, p)) < perDoc}
TakenOf(S, R, perDoc, limit) == {p \in KeptOf(S, R, perDoc) : Cardinality(Ahead(KeptOf(S, R, perDoc), R, p)) < limit}
RowFor(S, R, channel, perDoc, p) ==
    [channel |-> channel, doc |-> p[1], ord |-> p[2],
     rank |-> Cardinality(Ahead(KeptOf(S, R, perDoc), R, p)) + 1, total |-> Cardinality(OfDoc(S, p[1]))]

LEMMA RowsByPlace ==
    ASSUME NEW channel, NEW S \in SUBSET Places, IsFiniteSet(S), NEW perDoc \in Nat, NEW limit \in Nat
    PROVE  LET R == BeforePairs(channel, S)
           IN  ChannelRows(S, channel, perDoc, limit) =
                 {RowFor(S, R, channel, perDoc, p) : p \in TakenOf(S, R, perDoc, limit)}
<1> DEFINE R == BeforePairs(channel, S)
           ahead(p, T) == Cardinality({q \in T : Before(channel, q, p)})
           kept == {p \in S : ahead(p, {q \in S : q[1] = p[1]}) < perDoc}
           row(p) == [channel |-> channel, doc |-> p[1], ord |-> p[2], rank |-> ahead(p, kept) + 1,
                      total |-> Cardinality({q \in S : q[1] = p[1]})]
           hits == {row(p) : p \in kept}
<1>1. ChannelRows(S, channel, perDoc, limit) = {h \in hits : h.rank <= limit}
  BY DEF ChannelRows
<1>2. \A T \in SUBSET S : \A p \in S : ahead(p, T) = Cardinality(Ahead(T, R, p))
  <2>1. \A T \in SUBSET S : \A p \in S : {q \in T : Before(channel, q, p)} = Ahead(T, R, p)
    BY BeforeIsAnOrder
  <2> HIDE DEF R
  <2> QED
    BY <2>1
<1>3. \A d : OfDoc(S, d) \in SUBSET S /\ OfDoc(S, d) = {q \in S : q[1] = d}
  BY DEF OfDoc
<1> HIDE DEF R, ahead
<1>4. kept = KeptOf(S, R, perDoc)
  BY <1>2, <1>3 DEF KeptOf
<1>5. kept \in SUBSET S
  OBVIOUS
<1> HIDE DEF kept
<1>6. \A p \in kept : row(p) = RowFor(S, R, channel, perDoc, p)
  BY <1>2, <1>3, <1>4, <1>5 DEF RowFor
<1>7. \A p \in kept : ahead(p, kept) \in Nat
  <2> SUFFICES ASSUME NEW p \in kept PROVE ahead(p, kept) \in Nat
    OBVIOUS
  <2>1. Ahead(kept, R, p) \in SUBSET S
    BY <1>5 DEF Ahead
  <2>2. Cardinality(Ahead(kept, R, p)) \in Nat
    BY <2>1, FS_Subset, FS_CardinalityType
  <2> QED
    BY <1>2, <1>5, <2>2
<1>8. \A p \in kept : row(p).rank <= limit <=> p \in TakenOf(S, R, perDoc, limit)
  <2> SUFFICES ASSUME NEW p \in kept PROVE row(p).rank <= limit <=> p \in TakenOf(S, R, perDoc, limit)
    OBVIOUS
  <2>1. row(p).rank = ahead(p, kept) + 1
    OBVIOUS
  <2>2. ahead(p, kept) + 1 <= limit <=> ahead(p, kept) < limit
    BY <1>7
  <2>3. ahead(p, kept) = Cardinality(Ahead(kept, R, p))
    BY <1>2, <1>5
  <2> HIDE DEF row
  <2> QED
    BY <1>4, <2>1, <2>2, <2>3 DEF TakenOf
<1>9. TakenOf(S, R, perDoc, limit) \subseteq kept
  BY <1>4 DEF TakenOf
<1> HIDE DEF row
<1>10. {h \in hits : h.rank <= limit} = {RowFor(S, R, channel, perDoc, p) : p \in TakenOf(S, R, perDoc, limit)}
  BY <1>6, <1>8, <1>9
<1> QED
  BY <1>1, <1>10 DEF R

(* What the rows of a channel say.  Fewer rows than the limit: every       *)
(* document has one, and one with few passages has them all.               *)
RowsSay(rows, channel, S) ==
    \A h \in rows :
      /\ h.channel = channel /\ h.rank \in Nat \ {0} /\ <<h.doc, h.ord>> \in S
      /\ h.doc \in Nat /\ h.ord \in Nat
      /\ h.total \in Nat /\ h.total = Cardinality(OfDoc(S, h.doc))
AllIn(rows, S, perDoc) ==
    \A q \in S :
      /\ \E h \in rows : h.doc = q[1]
      /\ Cardinality(OfDoc(S, q[1])) <= perDoc => \E h \in rows : h.doc = q[1] /\ h.ord = q[2]

RowFacts(rows, channel, S, perDoc, limit) ==
    /\ IsFiniteSet(rows) /\ Cardinality(rows) \in Nat /\ Cardinality(rows) <= limit
    /\ RowsSay(rows, channel, S)
    /\ S # {} => rows # {}
    /\ Cardinality(rows) < limit => AllIn(rows, S, perDoc)
    /\ Cardinality(S) <= Cardinality(rows) => \A q \in S : \E h \in rows : h.doc = q[1] /\ h.ord = q[2]

LEMMA RowsAre ==
    ASSUME NEW channel, NEW S \in SUBSET Places, IsFiniteSet(S),
           NEW perDoc \in Nat \ {0}, NEW limit \in Nat \ {0}
    PROVE  RowFacts(ChannelRows(S, channel, perDoc, limit), channel, S, perDoc, limit)
<1> DEFINE R == BeforePairs(channel, S)
           kept == KeptOf(S, R, perDoc)
           taken == TakenOf(S, R, perDoc, limit)
           row(p) == RowFor(S, R, channel, perDoc, p)
           f == [p \in taken |-> row(p)]
           rows == ChannelRows(S, channel, perDoc, limit)
<1>1. rows = {row(p) : p \in taken}
  BY RowsByPlace
<1>2. \A T \in SUBSET S : StrictOrder(T, R)
  BY BeforeIsAnOrder
<1>3. \A p \in S : p[1] \in Nat /\ p[2] \in Nat /\ p = <<p[1], p[2]>>
  BY DEF Places
<1> HIDE DEF R
<1>4. \A d : OfDoc(S, d) \in SUBSET S /\ IsFiniteSet(OfDoc(S, d)) /\ Cardinality(OfDoc(S, d)) \in Nat
  <2> SUFFICES ASSUME NEW d
               PROVE  OfDoc(S, d) \in SUBSET S /\ IsFiniteSet(OfDoc(S, d)) /\ Cardinality(OfDoc(S, d)) \in Nat
    OBVIOUS
  <2>1. OfDoc(S, d) \in SUBSET S
    BY DEF OfDoc
  <2> QED
    BY <2>1, FS_Subset, FS_CardinalityType
<1>5. kept \in SUBSET S /\ taken \in SUBSET kept
  BY DEF KeptOf, TakenOf
<1>6. IsFiniteSet(kept)
  BY <1>5, FS_Subset
<1>7. taken = FirstOnes(kept, R, limit)
  BY DEF TakenOf, FirstOnes
<1>8. \A q \in S : FirstOnes(OfDoc(S, q[1]), R, perDoc) = OfDoc(kept, q[1])
  BY DEF KeptOf, FirstOnes, OfDoc
<1> HIDE DEF kept, taken
<1>9. /\ IsFiniteSet(taken) /\ Cardinality(taken) \in Nat /\ Cardinality(taken) <= limit
      /\ Cardinality(taken) < limit => taken = kept
      /\ kept # {} => taken # {}
  BY <1>2, <1>5, <1>6, <1>7, FirstOnesAre
<1>10. ASSUME NEW q \in S
       PROVE  /\ OfDoc(kept, q[1]) # {}
              /\ Cardinality(OfDoc(S, q[1])) <= perDoc => OfDoc(kept, q[1]) = OfDoc(S, q[1])
  <2>1. q \in OfDoc(S, q[1])
    BY DEF OfDoc
  <2>2. StrictOrder(OfDoc(S, q[1]), R) /\ IsFiniteSet(OfDoc(S, q[1]))
    BY <1>2, <1>4
  <2> QED
    BY <1>8, <2>1, <2>2, FirstOnesAre
<1>11. ASSUME NEW p \in taken
       PROVE  /\ p \in S /\ row(p).channel = channel /\ row(p).doc = p[1] /\ row(p).ord = p[2]
              /\ row(p).rank \in Nat \ {0} /\ row(p).total = Cardinality(OfDoc(S, p[1]))
  <2>1. Ahead(kept, R, p) \in SUBSET S
    BY <1>5 DEF Ahead
  <2>2. Cardinality(Ahead(kept, R, p)) \in Nat
    BY <2>1, FS_Subset, FS_CardinalityType
  <2> QED
    BY <1>5, <2>2 DEF RowFor, kept
<1> HIDE DEF row, rows
<1>12. IsFiniteSet(rows) /\ Cardinality(rows) \in Nat /\ Cardinality(rows) = Cardinality(taken)
  <2>1. f = [p \in taken |-> f[p]] /\ DOMAIN f = taken
    OBVIOUS
  <2>2. {f[p] : p \in taken} = rows
    BY <1>1
  <2>3. \A x, y \in taken : f[x] = f[y] => x = y
    BY <1>3, <1>11
  <2> HIDE DEF f
  <2> QED
    BY <1>9, <2>1, <2>2, <2>3, ImageCounts
<1>13. \A p \in taken : row(p) \in rows /\ row(p).doc = p[1] /\ row(p).ord = p[2]
  BY <1>1, <1>11
<1>14. ASSUME NEW h \in rows
       PROVE  /\ h.channel = channel /\ h.rank \in Nat \ {0} /\ <<h.doc, h.ord>> \in S
              /\ h.doc \in Nat /\ h.ord \in Nat
              /\ h.total \in Nat /\ h.total = Cardinality(OfDoc(S, h.doc))
  <2>1. PICK p \in taken : h = row(p)
    BY <1>1
  <2> QED
    BY <1>3, <1>4, <1>11, <2>1
<1>15. S # {} => rows # {}
  <2> SUFFICES ASSUME NEW q \in S PROVE rows # {}
    OBVIOUS
  <2>1. kept # {}
    BY <1>10 DEF OfDoc
  <2> QED
    BY <1>9, <1>13, <2>1
<1>16. ASSUME Cardinality(rows) < limit, NEW q \in S
       PROVE  /\ \E h \in rows : h.doc = q[1]
              /\ Cardinality(OfDoc(S, q[1])) <= perDoc => \E h \in rows : h.doc = q[1] /\ h.ord = q[2]
  <2>1. taken = kept
    BY <1>9, <1>12, <1>16
  <2>2. PICK p \in kept : p[1] = q[1]
    BY <1>10 DEF OfDoc
  <2>3. \E h \in rows : h.doc = q[1]
    BY <1>13, <2>1, <2>2
  <2>4. Cardinality(OfDoc(S, q[1])) <= perDoc => q \in kept
    BY <1>10 DEF OfDoc
  <2> QED
    BY <1>13, <2>1, <2>3, <2>4
<1>17. ASSUME Cardinality(S) <= Cardinality(rows), NEW q \in S
       PROVE  \E h \in rows : h.doc = q[1] /\ h.ord = q[2]
  <2>1. taken \in SUBSET S
    BY <1>5
  <2>2. Cardinality(taken) <= Cardinality(S) /\ (Cardinality(S) = Cardinality(taken) => S = taken)
    BY <2>1, FS_Subset
  <2>3. Cardinality(S) \in Nat
    BY FS_CardinalityType
  <2>4. S = taken
    BY <1>9, <1>12, <1>17, <2>2, <2>3
  <2> QED
    BY <1>13, <2>4
<1>18. RowsSay(rows, channel, S)
  BY <1>14 DEF RowsSay
<1>19. Cardinality(rows) < limit => AllIn(rows, S, perDoc)
  BY <1>16 DEF AllIn
<1>20. RowFacts(rows, channel, S, perDoc, limit)
  BY <1>9, <1>12, <1>15, <1>17, <1>18, <1>19 DEF RowFacts
<1> QED
  BY <1>20 DEF rows
-----------------------------------------------------------------------------
AreHits(hits) ==
    /\ IsFiniteSet(hits)
    /\ \A h \in hits : /\ h.channel \in {"and", "idn", "meta"} /\ h.rank \in Nat \ {0}
                       /\ h.doc \in Nat /\ h.ord \in Nat /\ h.total \in Nat

LEMMA ScoreIs ==
    ASSUME NEW hits, AreHits(hits)
    PROVE  ScoreOf(hits) \in Nat
<1> DEFINE f == [h \in hits |-> Contribution(h)]
<1>1. ASSUME NEW h \in hits PROVE f[h] \in Nat
  <2> DEFINE w == ChannelWeight[h.channel]
             q == ScaleOfRanks \div (60 + h.rank)
  <2>1. w \in Nat
    BY DEF AreHits, ChannelWeight
  <2>2. 60 + h.rank \in Nat /\ 60 + h.rank > 0 /\ ScaleOfRanks \in Nat
    BY DEF AreHits, ScaleOfRanks
  <2>3. \A a, b \in Nat : b > 0 => a \div b \in Nat
    OBVIOUS
  <2>4. q \in Nat
    BY <2>2, <2>3
  <2>5. \A a, b \in Nat : a * b \in Nat
    OBVIOUS
  <2>6. f[h] = w * q
    BY DEF Contribution
  <2> HIDE DEF w, q
  <2> QED
    BY <2>1, <2>4, <2>5, <2>6
<1> HIDE DEF f
<1>2. IsFiniteSet(AllUnits(hits, f)) /\ SumOver(f, hits) = Total(hits, f)
  BY <1>1, UnitsFinite, FoldIsTotal DEF AreHits
<1>3. ScoreOf(hits) = SumOver(f, hits)
  BY DEF ScoreOf, SumOver, f
<1> QED
  BY <1>2, <1>3, TotalType

LEMMA FewerHits ==
    ASSUME NEW hits, AreHits(hits), NEW T \in SUBSET hits
    PROVE  AreHits(T) /\ ScoreOf(T) \in Nat
<1>1. AreHits(T)
  BY FS_Subset DEF AreHits
<1> QED
  BY <1>1, ScoreIs

(* What fuse says of one document: chunks of it, each once, and how many   *)
(* more the channel that knows most has counted.                           *)
OrdsOf(hits, d) == {h.ord : h \in {g \in hits : g.doc = d /\ g.ord # 0}}
TotalsOf(hits, d) == {h.total : h \in {g \in hits : g.doc = d /\ g.ord # 0}} \cup {Cardinality(OrdsOf(hits, d))}
ShownBy(r) == {r.chunks[i].ord : i \in DOMAIN r.chunks}
Known(r) == r.more + Len(r.chunks)

FusedRecords == [doc : Nat, chunks : Seq([ord : Nat, score : Nat]), more : Nat, score : Nat]

IsFused(r, hits, d, perDoc) ==
    /\ r \in FusedRecords /\ r.doc = d
    /\ ShownBy(r) \subseteq OrdsOf(hits, d) /\ Len(r.chunks) <= perDoc /\ Len(r.chunks) <= Cardinality(OrdsOf(hits, d))
    /\ Len(r.chunks) < perDoc \/ r.more = 0 => ShownBy(r) = OrdsOf(hits, d)
    /\ Known(r) \in TotalsOf(hits, d) /\ \A n \in TotalsOf(hits, d) : n <= Known(r)

LEMMA OrdsAre ==
    ASSUME NEW hits, AreHits(hits), NEW d
    PROVE  /\ OrdsOf(hits, d) \in SUBSET Nat /\ IsFiniteSet(OrdsOf(hits, d)) /\ Cardinality(OrdsOf(hits, d)) \in Nat
           /\ TotalsOf(hits, d) \in SUBSET Nat /\ IsFiniteSet(TotalsOf(hits, d)) /\ TotalsOf(hits, d) # {}
<1> DEFINE of == {g \in hits : g.doc = d /\ g.ord # 0}
           f == [h \in of |-> h.ord]
           t == [h \in of |-> h.total]
<1>1. of \in SUBSET hits /\ IsFiniteSet(of) /\ AreHits(of)
  <2>1. of \in SUBSET hits
    OBVIOUS
  <2> QED
    BY <2>1, FewerHits DEF AreHits
<1>2. OrdsOf(hits, d) = {f[h] : h \in of}
  BY DEF OrdsOf
<1>3. TotalsOf(hits, d) = {t[h] : h \in of} \cup {Cardinality(OrdsOf(hits, d))}
  BY DEF TotalsOf
<1>4. \A h \in of : f[h] \in Nat /\ t[h] \in Nat
  BY <1>1 DEF AreHits
<1> HIDE DEF of
<1>5. DOMAIN f = of /\ f = [h \in of |-> f[h]] /\ DOMAIN t = of /\ t = [h \in of |-> t[h]]
  OBVIOUS
<1> HIDE DEF f, t
<1>6. IsFiniteSet({f[h] : h \in of}) /\ Cardinality({f[h] : h \in of}) \in Nat /\ IsFiniteSet({t[h] : h \in of})
  BY <1>1, <1>5, ImageCounts
<1>7. IsFiniteSet({t[h] : h \in of} \cup {Cardinality(OrdsOf(hits, d))})
  BY <1>6, FS_AddElement
<1> QED
  BY <1>2, <1>3, <1>4, <1>6, <1>7

LEMMA FusedDocIs ==
    ASSUME NEW hits, AreHits(hits), NEW d \in Nat, NEW perDoc \in Nat
    PROVE  IsFused(FusedDoc(hits, d, perDoc), hits, d, perDoc)
<1> DEFINE of == {h \in hits : h.doc = d /\ h.ord # 0}
           ords == {h.ord : h \in of}
           score == [o \in ords |-> ScoreOf({h \in of : h.ord = o})]
           ranked == ByScore(score)
           picked == Best(ranked, perDoc)
           chunks == [i \in DOMAIN picked |-> [ord |-> picked[i], score |-> score[picked[i]]]]
           known == Most({h.total : h \in of} \cup {Len(ranked)})
           more == known - Len(picked)
           s == (IF ranked = <<>> THEN 0 ELSE score[ranked[1]]) + ScoreOf({h \in hits : h.doc = d /\ h.ord = 0})
           r == FusedDoc(hits, d, perDoc)
           totals == TotalsOf(hits, d)
<1>1. r = [doc |-> d, chunks |-> chunks, more |-> more, score |-> s]
  BY DEF FusedDoc
<1>2. /\ ords = OrdsOf(hits, d) /\ ords \in SUBSET Nat /\ IsFiniteSet(ords) /\ Cardinality(ords) \in Nat
      /\ totals \in SUBSET Nat /\ IsFiniteSet(totals) /\ totals # {}
  BY OrdsAre DEF OrdsOf
<1>3. totals = {h.total : h \in of} \cup {Cardinality(ords)}
  BY DEF TotalsOf, OrdsOf
<1>4. score \in [ords -> Nat]
  <2>1. \A o \in ords : ScoreOf({h \in of : h.ord = o}) \in Nat
    BY FewerHits
  <2> HIDE DEF ords, of
  <2> QED
    BY <2>1
<1>5. ScoreOf({h \in hits : h.doc = d /\ h.ord = 0}) \in Nat
  BY FewerHits
<1> HIDE DEF of, ords, score, totals
<1>6. Enumerates(ranked, ords)
  BY <1>2, <1>4, ByScoreIs
<1>7. ranked \in Seq(ords) /\ Len(ranked) = Cardinality(ords)
  BY <1>6 DEF Enumerates
<1> HIDE DEF ranked
<1>8. /\ picked \in Seq(ords) /\ Once(picked) /\ Len(picked) <= perDoc /\ Len(picked) <= Cardinality(ords)
      /\ Len(picked) = Cardinality(ords) => picked = ranked
      /\ Len(picked) < perDoc => Len(picked) = Cardinality(ords)
  BY <1>2, <1>6, BestAre
<1>9. known \in totals /\ \A m \in totals : m <= known
  <2>1. known = Most(totals)
    BY <1>3, <1>7
  <2> HIDE DEF known
  <2> QED
    BY <1>2, <2>1, MostIs
<1> HIDE DEF picked, known
<1>10. Len(picked) \in Nat /\ DOMAIN picked = 1 .. Len(picked) /\ \A i \in DOMAIN picked : picked[i] \in ords
  BY <1>8
<1>11. known \in Nat /\ Cardinality(ords) <= known
  BY <1>2, <1>3, <1>9
<1>12. more \in Nat /\ more + Len(picked) = known /\ (more = 0 => Len(picked) = Cardinality(ords))
  <2> DEFINE n == Len(picked)
             c == Cardinality(ords)
  <2>1. n \in Nat /\ c \in Nat /\ known \in Nat /\ n <= c /\ c <= known
    BY <1>2, <1>8, <1>10, <1>11
  <2> HIDE DEF n, c
  <2>2. known - n \in Nat /\ (known - n) + n = known /\ (known - n = 0 => n = c)
    BY <2>1
  <2> QED
    BY <2>2 DEF n, c
<1>13. s \in Nat
  <2>1. ranked # <<>> => ranked[1] \in ords
    BY <1>7
  <2>2. ranked # <<>> => score[ranked[1]] \in Nat
    BY <1>4, <2>1
  <2> QED
    BY <1>5, <2>2
<1> HIDE DEF more, s
<1>14. chunks \in Seq([ord : Nat, score : Nat]) /\ Len(chunks) = Len(picked) /\ DOMAIN chunks = DOMAIN picked
  <2>1. \A i \in DOMAIN picked : picked[i] \in Nat /\ score[picked[i]] \in Nat
    BY <1>2, <1>4, <1>10
  <2>2. \A i \in DOMAIN picked : [ord |-> picked[i], score |-> score[picked[i]]] \in [ord : Nat, score : Nat]
    BY <2>1
  <2>3. chunks \in [DOMAIN picked -> [ord : Nat, score : Nat]] /\ DOMAIN chunks = DOMAIN picked
    BY <2>2
  <2> HIDE DEF chunks
  <2>4. chunks \in [1 .. Len(picked) -> [ord : Nat, score : Nat]]
    BY <1>10, <2>3
  <2> DEFINE C == [ord : Nat, score : Nat]
             n == Len(picked)
  <2>5. chunks \in Seq(C) /\ Len(chunks) = n
    <3>1. chunks \in [1 .. n -> C] /\ n \in Nat
      BY <1>10, <2>4
    <3> HIDE DEF C, n
    <3>2. chunks \in Seq(C) /\ DOMAIN chunks = 1 .. n
      BY <3>1, IsASeq
    <3> QED
      BY <3>1, <3>2
  <2> QED
    BY <2>3, <2>5
<1>15. \A i \in DOMAIN picked : chunks[i].ord = picked[i]
  OBVIOUS
<1> HIDE DEF chunks
<1>16. Len(picked) = Cardinality(ords) => \A o \in ords : \E i \in DOMAIN picked : picked[i] = o
  BY <1>6, <1>8 DEF Enumerates, Range
<1>17. ShownBy(r) = {picked[i] : i \in DOMAIN picked}
  <2>1. r.chunks = chunks
    BY <1>1
  <2>2. {chunks[i].ord : i \in DOMAIN chunks} = {picked[i] : i \in DOMAIN picked}
    BY <1>14, <1>15
  <2> QED
    BY <2>1, <2>2 DEF ShownBy
<1>18. ShownBy(r) \subseteq ords /\ (Len(picked) = Cardinality(ords) => ShownBy(r) = ords)
  BY <1>10, <1>16, <1>17
<1>19. Known(r) = known
  BY <1>1, <1>12, <1>14 DEF Known
<1>20. r \in FusedRecords /\ r.doc = d /\ r.chunks = chunks /\ r.more = more
  BY <1>1, <1>12, <1>13, <1>14 DEF FusedRecords
<1> QED
  BY <1>2, <1>8, <1>9, <1>12, <1>14, <1>18, <1>19, <1>20 DEF IsFused, totals

\* The documents hit, each once.
FuseSays(docs, hits, perDoc) ==
    /\ docs \in Seq(FusedRecords)
    /\ \A i \in DOMAIN docs : IsFused(docs[i], hits, docs[i].doc, perDoc) /\ \E h \in hits : h.doc = docs[i].doc
    /\ \A h \in hits : \E i \in DOMAIN docs : docs[i].doc = h.doc
    /\ \A i, j \in DOMAIN docs : docs[i].doc = docs[j].doc => i = j

LEMMA FuseIs ==
    ASSUME NEW hits, AreHits(hits), NEW perDoc \in Nat
    PROVE  FuseSays(fuse(hits, perDoc), hits, perDoc)
<1> DEFINE D == {h.doc : h \in hits}
           made == [d \in D |-> FusedDoc(hits, d, perDoc)]
           score == [d \in DOMAIN made |-> made[d].score]
           order == ByScore(score)
           docs == fuse(hits, perDoc)
<1>1. docs = [i \in DOMAIN order |-> made[order[i]]]
  BY DEF fuse
<1>2. D \in SUBSET Nat /\ IsFiniteSet(D)
  <2> DEFINE f == [h \in hits |-> h.doc]
  <2>1. D = {f[h] : h \in hits} /\ DOMAIN f = hits /\ f = [h \in hits |-> f[h]]
    OBVIOUS
  <2>2. IsFiniteSet(hits)
    BY DEF AreHits
  <2> HIDE DEF f
  <2>3. IsFiniteSet({f[h] : h \in hits})
    BY <2>1, <2>2, ImageCounts
  <2> QED
    BY <2>1, <2>3 DEF AreHits
<1>3. \A d \in D : IsFused(made[d], hits, d, perDoc) /\ made[d] \in FusedRecords /\ made[d].doc = d
  <2>1. \A d \in D : IsFused(FusedDoc(hits, d, perDoc), hits, d, perDoc)
    BY <1>2, FusedDocIs
  <2> QED
    BY <2>1 DEF IsFused
<1>4. \A d \in D : \E h \in hits : h.doc = d
  OBVIOUS
<1>5. DOMAIN made = D
  OBVIOUS
<1>6. \A h \in hits : h.doc \in D
  OBVIOUS
<1> HIDE DEF made, D
<1>7. score \in [D -> Nat]
  BY <1>3, <1>5 DEF FusedRecords
<1> HIDE DEF score
<1>8. Enumerates(order, D)
  BY <1>2, <1>7, ByScoreIs
<1> HIDE DEF order
<1>9. /\ order \in Seq(D) /\ Len(order) \in Nat /\ DOMAIN order = 1 .. Len(order) /\ (\A i \in DOMAIN order : order[i] \in D)
      /\ \A d \in D : \E i \in DOMAIN order : order[i] = d
      /\ \A i, j \in DOMAIN order : order[i] = order[j] => i = j
  BY <1>8 DEF Enumerates, Range, Once
<1>10. DOMAIN docs = DOMAIN order /\ \A i \in DOMAIN order : docs[i] = made[order[i]]
  BY <1>1
<1>11. docs \in Seq(FusedRecords)
  <2>1. docs \in [1 .. Len(order) -> FusedRecords]
    BY <1>1, <1>3, <1>9
  <2> QED
    BY <1>9, <2>1, IsASeq
<1> HIDE DEF docs
<1>12. \A i \in DOMAIN docs : docs[i].doc = order[i] /\ IsFused(docs[i], hits, docs[i].doc, perDoc)
  BY <1>3, <1>9, <1>10
<1>13. \A i \in DOMAIN docs : \E h \in hits : h.doc = docs[i].doc
  BY <1>4, <1>9, <1>10, <1>12
<1>14. \A h \in hits : \E i \in DOMAIN docs : docs[i].doc = h.doc
  BY <1>6, <1>9, <1>10, <1>12
<1>15. \A i, j \in DOMAIN docs : docs[i].doc = docs[j].doc => i = j
  BY <1>9, <1>10, <1>12
<1> QED
  BY <1>11, <1>12, <1>13, <1>14, <1>15 DEF docs, FuseSays
-----------------------------------------------------------------------------
(* One variant: what its channels match, and what their rows say of it.    *)
Channels == {"and", "idn", "meta"}
IsVariant(v) ==
    /\ DOMAIN v = Channels
    /\ \A c \in Channels : v[c] \in SUBSET Places /\ IsFiniteSet(v[c])
    /\ \A p \in v["and"] \cup v["idn"] : p[2] # 0
    /\ \A p \in v["meta"] : p[2] = 0

Reached(v) == v["and"] \cup v["idn"] \cup v["meta"]
WordsOf(v, d) == {p \in v["and"] \cup v["idn"] : p[1] = d}
OrdsWithin(S) == {p[2] : p \in S}

LEMMA WordsAre ==
    ASSUME NEW v, IsVariant(v), NEW d
    PROVE  /\ WordsOf(v, d) \in SUBSET Places /\ IsFiniteSet(WordsOf(v, d)) /\ Cardinality(WordsOf(v, d)) \in Nat
           /\ \A p \in WordsOf(v, d) : p[1] = d /\ p[2] \in Nat \ {0} /\ p = <<d, p[2]>>
<1>1. v["and"] \in SUBSET Places /\ IsFiniteSet(v["and"]) /\ v["idn"] \in SUBSET Places /\ IsFiniteSet(v["idn"])
  BY DEF IsVariant, Channels
<1>2. IsFiniteSet(v["and"] \cup v["idn"])
  BY <1>1, FS_Union
<1>3. WordsOf(v, d) \in SUBSET (v["and"] \cup v["idn"])
  BY DEF WordsOf
<1>4. IsFiniteSet(WordsOf(v, d)) /\ Cardinality(WordsOf(v, d)) \in Nat
  BY <1>2, <1>3, FS_Subset, FS_CardinalityType
<1>5. WordsOf(v, d) \in SUBSET Places
  BY <1>1, <1>3
<1>6. \A p \in WordsOf(v, d) : p[1] = d /\ p[2] # 0
  BY DEF WordsOf, IsVariant
<1>7. \A p \in Places : p[2] \in Nat /\ p = <<p[1], p[2]>>
  BY DEF Places
<1> QED
  BY <1>4, <1>5, <1>6, <1>7

LEMMA HitsAre ==
    ASSUME NEW v, IsVariant(v), NEW perDoc \in Nat \ {0}, NEW limit \in Nat \ {0}
    PROVE  LET hits == searchChannels(v, perDoc, limit)
           IN  /\ AreHits(hits)
               /\ \A c \in Channels : {h \in hits : h.channel = c} = ChannelRows(v[c], c, perDoc, limit)
               /\ \A h \in hits : /\ h.channel \in Channels /\ <<h.doc, h.ord>> \in v[h.channel]
                                  /\ h.total = Cardinality(OfDoc(v[h.channel], h.doc))
<1> DEFINE hits == searchChannels(v, perDoc, limit)
           rows == [c \in Channels |-> ChannelRows(v[c], c, perDoc, limit)]
<1>1. hits = UNION {rows[c] : c \in Channels}
  BY DEF searchChannels, IsVariant
<1>2. ASSUME NEW c \in Channels
      PROVE  /\ IsFiniteSet(rows[c])
             /\ \A h \in rows[c] : /\ h.channel = c /\ h.rank \in Nat \ {0} /\ <<h.doc, h.ord>> \in v[c]
                                   /\ h.doc \in Nat /\ h.ord \in Nat
                                   /\ h.total \in Nat /\ h.total = Cardinality(OfDoc(v[c], h.doc))
  <2>1. v[c] \in SUBSET Places /\ IsFiniteSet(v[c])
    BY DEF IsVariant
  <2> DEFINE S == v[c]
             U == ChannelRows(S, c, perDoc, limit)
  <2>2. rows[c] = U
    OBVIOUS
  <2>3. S \in SUBSET Places /\ IsFiniteSet(S)
    BY <2>1
  <2> HIDE DEF S
  <2>4. /\ IsFiniteSet(U)
        /\ \A h \in U : /\ h.channel = c /\ h.rank \in Nat \ {0} /\ <<h.doc, h.ord>> \in S
                        /\ h.doc \in Nat /\ h.ord \in Nat
                        /\ h.total \in Nat /\ h.total = Cardinality(OfDoc(S, h.doc))
    <3>1. RowFacts(U, c, S, perDoc, limit)
      BY <2>3, RowsAre
    <3> QED
      BY <3>1 DEF RowFacts, RowsSay
  <2> HIDE DEF U, rows
  <2> QED
    BY <2>2, <2>4 DEF S
<1>3. IsFiniteSet(hits)
  <2>1. hits = rows["and"] \cup rows["idn"] \cup rows["meta"]
    BY <1>1 DEF Channels
  <2>2. "and" \in Channels /\ "idn" \in Channels /\ "meta" \in Channels
    BY DEF Channels
  <2> HIDE DEF rows, hits
  <2>3. IsFiniteSet(rows["and"]) /\ IsFiniteSet(rows["idn"]) /\ IsFiniteSet(rows["meta"])
    BY <1>2, <2>2
  <2>4. IsFiniteSet(rows["and"] \cup rows["idn"])
    BY <2>3, FS_Union
  <2>5. IsFiniteSet((rows["and"] \cup rows["idn"]) \cup rows["meta"])
    BY <2>3, <2>4, FS_Union
  <2> QED
    BY <2>1, <2>5
<1>4. \A c \in Channels : rows[c] = ChannelRows(v[c], c, perDoc, limit)
  OBVIOUS
<1> HIDE DEF rows, hits
<1>6. (\A h \in hits : \E c \in Channels : h \in rows[c]) /\ \A c \in Channels : rows[c] \subseteq hits
  BY <1>1
<1>9. \A c \in Channels : \A h \in rows[c] : h.channel = c
  BY <1>2
<1>5. \A c \in Channels : {h \in hits : h.channel = c} = rows[c]
  BY <1>6, <1>9
<1>7. AreHits(hits)
  BY <1>2, <1>3, <1>6 DEF AreHits, Channels
<1>8. \A h \in hits : /\ h.channel \in Channels /\ <<h.doc, h.ord>> \in v[h.channel]
                      /\ h.total = Cardinality(OfDoc(v[h.channel], h.doc))
  <2> SUFFICES ASSUME NEW h \in hits
               PROVE  /\ h.channel \in Channels /\ <<h.doc, h.ord>> \in v[h.channel]
                      /\ h.total = Cardinality(OfDoc(v[h.channel], h.doc))
    OBVIOUS
  <2>1. PICK c \in Channels : h \in rows[c]
    BY <1>6
  <2> QED
    BY <1>2, <2>1
<1> QED
  BY <1>4, <1>5, <1>7, <1>8 DEF hits

(* What is counted of a document is never more than its passages.          *)
LEMMA CountsAreBounded ==
    ASSUME NEW v, IsVariant(v), NEW perDoc \in Nat \ {0}, NEW limit \in Nat \ {0}, NEW d
    PROVE  LET hits == searchChannels(v, perDoc, limit)
           IN  /\ OrdsOf(hits, d) \subseteq OrdsWithin(WordsOf(v, d))
               /\ \A n \in TotalsOf(hits, d) : n <= Cardinality(WordsOf(v, d))
               /\ \A h \in hits : h.doc = d /\ h.ord # 0 =>
                    h.channel \in {"and", "idn"} /\ h.ord \in OrdsOf(hits, d) /\ h.total \in TotalsOf(hits, d)
<1> DEFINE hits == searchChannels(v, perDoc, limit)
           W == WordsOf(v, d)
<1>1. \A h \in hits : /\ h.channel \in Channels /\ <<h.doc, h.ord>> \in v[h.channel]
                      /\ h.total = Cardinality(OfDoc(v[h.channel], h.doc))
  BY HitsAre
<1>2. W \in SUBSET Places /\ IsFiniteSet(W) /\ Cardinality(W) \in Nat /\ \A p \in W : p = <<d, p[2]>>
  BY WordsAre
<1> HIDE DEF hits
<1>3. ASSUME NEW h \in hits, h.doc = d, h.ord # 0
      PROVE  /\ h.channel \in {"and", "idn"} /\ <<d, h.ord>> \in W
             /\ h.ord \in OrdsOf(hits, d) /\ h.total \in TotalsOf(hits, d)
             /\ OfDoc(v[h.channel], d) \subseteq W
  <2>1. h.channel \in Channels /\ <<d, h.ord>> \in v[h.channel]
    BY <1>1, <1>3
  <2>2. <<d, h.ord>>[2] = h.ord /\ <<d, h.ord>>[1] = d
    OBVIOUS
  <2>3. h.channel # "meta"
    BY <1>3, <2>1, <2>2 DEF IsVariant
  <2>4. h.channel \in {"and", "idn"}
    BY <2>1, <2>3 DEF Channels
  <2>5. <<d, h.ord>> \in W
    BY <2>1, <2>2, <2>4 DEF WordsOf
  <2>6. OfDoc(v[h.channel], d) \subseteq W
    BY <2>4 DEF OfDoc, WordsOf
  <2> QED
    BY <1>3, <2>4, <2>5, <2>6 DEF OrdsOf, TotalsOf
<1>4. OrdsOf(hits, d) \subseteq OrdsWithin(W)
  <2> SUFFICES ASSUME NEW o \in OrdsOf(hits, d) PROVE o \in OrdsWithin(W)
    OBVIOUS
  <2>1. PICK h \in hits : h.doc = d /\ h.ord # 0 /\ h.ord = o
    BY DEF OrdsOf
  <2>2. <<d, o>> \in W /\ <<d, o>>[2] = o
    BY <1>3, <2>1
  <2> QED
    BY <2>2 DEF OrdsWithin
<1>5. IsFiniteSet(OrdsWithin(W)) /\ Cardinality(OrdsWithin(W)) \in Nat /\ Cardinality(OrdsWithin(W)) <= Cardinality(W)
  <2> DEFINE f == [p \in W |-> p[2]]
  <2>1. OrdsWithin(W) = {f[p] : p \in W} /\ DOMAIN f = W /\ f = [p \in W |-> f[p]]
    BY DEF OrdsWithin
  <2> HIDE DEF f, W
  <2> QED
    BY <1>2, <2>1, ImageCounts
<1>6. Cardinality(OrdsOf(hits, d)) \in Nat /\ Cardinality(OrdsOf(hits, d)) <= Cardinality(W)
  <2>1. IsFiniteSet(OrdsOf(hits, d)) /\ Cardinality(OrdsOf(hits, d)) <= Cardinality(OrdsWithin(W))
    BY <1>4, <1>5, FS_Subset
  <2>2. Cardinality(OrdsOf(hits, d)) \in Nat
    BY <2>1, FS_CardinalityType
  <2> QED
    BY <1>2, <1>5, <2>1, <2>2
<1>7. ASSUME NEW h \in hits, h.doc = d, h.ord # 0 PROVE h.total <= Cardinality(W)
  <2>1. h.total = Cardinality(OfDoc(v[h.channel], d)) /\ OfDoc(v[h.channel], d) \in SUBSET W
    BY <1>1, <1>3, <1>7
  <2> HIDE DEF W
  <2> QED
    BY <1>2, <2>1, FS_Subset
<1>8. ASSUME NEW n \in TotalsOf(hits, d) PROVE n <= Cardinality(W)
  <2>1. CASE n = Cardinality(OrdsOf(hits, d))
    BY <1>6, <2>1
  <2>2. CASE n # Cardinality(OrdsOf(hits, d))
    <3>1. PICK h \in hits : h.doc = d /\ h.ord # 0 /\ h.total = n
      BY <2>2 DEF TotalsOf
    <3> QED
      BY <1>7, <3>1
  <2> QED
    BY <2>1, <2>2
<1> QED
  BY <1>3, <1>4, <1>8 DEF hits

(* No channel full: every document reached is hit, and all the passages of *)
(* one whose channels have counted few.                                    *)
LEMMA NoChannelIsFull ==
    ASSUME NEW v, IsVariant(v), NEW perDoc \in Nat \ {0}, NEW limit \in Nat \ {0},
           \A c \in Channels : Cardinality(ChannelRows(v[c], c, perDoc, limit)) < limit
    PROVE  LET hits == searchChannels(v, perDoc, limit)
           IN  /\ \A p \in Reached(v) : \E h \in hits : h.doc = p[1]
               /\ \A d : (\A n \in TotalsOf(hits, d) : n <= perDoc) => OrdsWithin(WordsOf(v, d)) \subseteq OrdsOf(hits, d)
<1> DEFINE hits == searchChannels(v, perDoc, limit)
           rows(c) == ChannelRows(v[c], c, perDoc, limit)
<1>1. \A c \in Channels : {h \in hits : h.channel = c} = rows(c)
  BY HitsAre
<1>2. \A c \in Channels : RowsSay(rows(c), c, v[c]) /\ AllIn(rows(c), v[c], perDoc)
  <2> SUFFICES ASSUME NEW c \in Channels PROVE RowsSay(rows(c), c, v[c]) /\ AllIn(rows(c), v[c], perDoc)
    OBVIOUS
  <2>1. v[c] \in SUBSET Places /\ IsFiniteSet(v[c])
    BY DEF IsVariant
  <2>2. RowFacts(rows(c), c, v[c], perDoc, limit)
    BY <2>1, RowsAre
  <2> QED
    BY <2>2 DEF RowFacts
<1>3. \A d : \A h \in hits : h.doc = d /\ h.ord # 0 =>
        h.channel \in {"and", "idn"} /\ h.ord \in OrdsOf(hits, d) /\ h.total \in TotalsOf(hits, d)
  BY CountsAreBounded
<1> HIDE DEF rows, hits
<1>4. \A c \in Channels : rows(c) \subseteq hits
  BY <1>1
<1>5. \A p \in Reached(v) : \E h \in hits : h.doc = p[1]
  <2> SUFFICES ASSUME NEW p \in Reached(v) PROVE \E h \in hits : h.doc = p[1]
    OBVIOUS
  <2>1. PICK c \in Channels : p \in v[c]
    BY DEF Reached, Channels
  <2> QED
    BY <1>2, <1>4, <2>1 DEF AllIn
<1>6. ASSUME NEW d, \A n \in TotalsOf(hits, d) : n <= perDoc, NEW o \in OrdsWithin(WordsOf(v, d))
      PROVE  o \in OrdsOf(hits, d)
  <2>1. PICK p \in WordsOf(v, d) : p[2] = o
    BY DEF OrdsWithin
  <2>2. PICK c \in {"and", "idn"} : p \in v[c] /\ p[1] = d
    BY DEF WordsOf
  <2>3. c \in Channels /\ \A q \in v[c] : q[2] # 0
    BY <2>2 DEF Channels, IsVariant
  <2>4. PICK h \in rows(c) : h.doc = d
    BY <1>2, <2>2, <2>3 DEF AllIn
  <2>5. <<h.doc, h.ord>> \in v[c] /\ h.total = Cardinality(OfDoc(v[c], d))
    BY <1>2, <2>3, <2>4 DEF RowsSay
  <2>6. <<h.doc, h.ord>>[2] = h.ord
    OBVIOUS
  <2>7. h.ord # 0 /\ h \in hits
    BY <1>4, <2>3, <2>5, <2>6
  <2>8. Cardinality(OfDoc(v[c], d)) <= perDoc
    BY <1>3, <1>6, <2>4, <2>5, <2>7
  <2>9. PICK g \in rows(c) : g.doc = d /\ g.ord = o
    BY <1>2, <2>1, <2>2, <2>3, <2>8 DEF AllIn
  <2>10. o # 0 /\ g \in hits
    BY <1>4, <2>1, <2>2, <2>3
  <2> QED
    BY <2>9, <2>10 DEF OrdsOf
<1> QED
  BY <1>5, <1>6 DEF hits

(* Inside one document, with no channel that has matched more than it      *)
(* shows: every passage is hit.                                            *)
LEMMA NoChannelHasMore ==
    ASSUME NEW v, IsVariant(v), NEW depth \in Nat \ {0}, NEW d, \A p \in Reached(v) : p[1] = d,
           \A h \in searchChannels(v, depth, depth) :
             h.channel # "meta" => h.total <= Cardinality(ChannelRows(v[h.channel], h.channel, depth, depth))
    PROVE  LET hits == searchChannels(v, depth, depth)
           IN  OrdsOf(hits, d) = OrdsWithin(WordsOf(v, d)) /\ Cardinality(OrdsOf(hits, d)) < 3 * depth
<1> DEFINE hits == searchChannels(v, depth, depth)
           rows(c) == ChannelRows(v[c], c, depth, depth)
           f(c) == [h \in rows(c) |-> h.ord]
           ords(c) == {f(c)[h] : h \in rows(c)}
<1>1. \A c \in Channels : {h \in hits : h.channel = c} = rows(c)
  BY HitsAre
<1>2. \A c \in Channels : RowFacts(rows(c), c, v[c], depth, depth)
  <2> SUFFICES ASSUME NEW c \in Channels PROVE RowFacts(rows(c), c, v[c], depth, depth)
    OBVIOUS
  <2>1. v[c] \in SUBSET Places /\ IsFiniteSet(v[c])
    BY DEF IsVariant
  <2> QED
    BY <2>1, RowsAre
<1>3. /\ OrdsOf(hits, d) \subseteq OrdsWithin(WordsOf(v, d))
      /\ \A h \in hits : h.doc = d /\ h.ord # 0 => h.channel \in {"and", "idn"} /\ h.ord \in OrdsOf(hits, d)
  BY CountsAreBounded
<1>4. \A h \in hits : h.channel # "meta" => h.total <= Cardinality(rows(h.channel))
  OBVIOUS
<1>5. /\ "and" \in Channels /\ "idn" \in Channels
      /\ \A p \in v["and"] \cup v["idn"] : p[2] # 0 /\ p[1] = d
  BY DEF Channels, IsVariant, Reached
<1>6. \A c \in Channels : f(c) = [h \in rows(c) |-> f(c)[h]] /\ DOMAIN f(c) = rows(c) /\ \A h \in rows(c) : f(c)[h] = h.ord
  OBVIOUS
<1> HIDE DEF rows, hits, f
<1>7. \A c \in Channels : IsFiniteSet(rows(c)) /\ Cardinality(rows(c)) \in Nat /\ Cardinality(rows(c)) <= depth
  BY <1>2 DEF RowFacts
<1>8. ASSUME NEW c \in {"and", "idn"}, NEW q \in v[c]
      PROVE  \E h \in hits : h.doc = d /\ h.ord = q[2]
  <2>1. c \in Channels /\ c # "meta" /\ \A p \in v[c] : p[1] = d
    BY <1>5
  <2>2. OfDoc(v[c], d) = v[c]
    BY <2>1 DEF OfDoc
  <2>3. PICK h \in rows(c) : TRUE
    BY <1>2, <2>1 DEF RowFacts
  <2>4. h.channel = c /\ <<h.doc, h.ord>> \in v[c] /\ h.total = Cardinality(OfDoc(v[c], h.doc)) /\ h \in hits
    BY <1>1, <1>2, <2>1 DEF RowFacts, RowsSay
  <2>5. <<h.doc, h.ord>>[1] = h.doc
    OBVIOUS
  <2>6. h.total = Cardinality(v[c])
    BY <2>1, <2>2, <2>4, <2>5
  <2>7. Cardinality(v[c]) <= Cardinality(rows(c))
    BY <1>4, <2>1, <2>4, <2>6
  <2>8. PICK g \in rows(c) : g.doc = q[1] /\ g.ord = q[2]
    BY <1>2, <2>1, <2>7 DEF RowFacts
  <2> QED
    BY <1>1, <2>1, <2>8
<1>9. OrdsWithin(WordsOf(v, d)) \subseteq OrdsOf(hits, d)
  <2> SUFFICES ASSUME NEW o \in OrdsWithin(WordsOf(v, d)) PROVE o \in OrdsOf(hits, d)
    OBVIOUS
  <2>1. PICK p \in WordsOf(v, d) : p[2] = o
    BY DEF OrdsWithin
  <2>2. PICK c \in {"and", "idn"} : p \in v[c]
    BY DEF WordsOf
  <2>3. PICK h \in hits : h.doc = d /\ h.ord = o
    BY <1>8, <2>1, <2>2
  <2>4. o # 0
    BY <1>5, <2>1, <2>2
  <2> QED
    BY <2>3, <2>4 DEF OrdsOf
<1>10. OrdsOf(hits, d) \subseteq ords("and") \cup ords("idn")
  <2> SUFFICES ASSUME NEW o \in OrdsOf(hits, d) PROVE o \in ords("and") \cup ords("idn")
    OBVIOUS
  <2>1. PICK h \in hits : h.doc = d /\ h.ord # 0 /\ h.ord = o
    BY DEF OrdsOf
  <2>2. h.channel \in {"and", "idn"}
    BY <1>3, <2>1
  <2>3. h \in rows(h.channel) /\ h.channel \in Channels
    BY <1>1, <1>5, <2>2
  <2> QED
    BY <1>6, <2>1, <2>2, <2>3
<1>11. \A c \in {"and", "idn"} : IsFiniteSet(ords(c)) /\ Cardinality(ords(c)) \in Nat /\ Cardinality(ords(c)) <= depth
  <2> SUFFICES ASSUME NEW c \in {"and", "idn"}
               PROVE  IsFiniteSet(ords(c)) /\ Cardinality(ords(c)) \in Nat /\ Cardinality(ords(c)) <= depth
    OBVIOUS
  <2>1. c \in Channels
    BY <1>5
  <2> DEFINE r == rows(c)
             e == f(c)
  <2>2. IsFiniteSet(r) /\ Cardinality(r) \in Nat /\ Cardinality(r) <= depth /\ e = [h \in r |-> e[h]] /\ DOMAIN e = r
    BY <1>6, <1>7, <2>1
  <2> HIDE DEF r, e
  <2>3. IsFiniteSet({e[h] : h \in r}) /\ Cardinality({e[h] : h \in r}) \in Nat /\ Cardinality({e[h] : h \in r}) <= Cardinality(r)
    BY <2>2, ImageCounts
  <2>4. ords(c) = {e[h] : h \in r}
    BY DEF r, e
  <2> HIDE DEF ords
  <2> QED
    BY <2>2, <2>3, <2>4
<1> HIDE DEF ords
<1>12. Cardinality(OrdsOf(hits, d)) < 3 * depth
  <2> DEFINE A == ords("and")
             B == ords("idn")
  <2>1. IsFiniteSet(A) /\ IsFiniteSet(B) /\ Cardinality(A) \in Nat /\ Cardinality(B) \in Nat
        /\ Cardinality(A) <= depth /\ Cardinality(B) <= depth
    BY <1>11
  <2> HIDE DEF A, B
  <2>2. IsFiniteSet(A \cup B) /\ Cardinality(A \cup B) = Cardinality(A) + Cardinality(B) - Cardinality(A \cap B)
    BY <2>1, FS_Union
  <2>3. Cardinality(A \cap B) \in Nat
    BY <2>1, FS_Intersection, FS_CardinalityType
  <2>4. OrdsOf(hits, d) \in SUBSET (A \cup B)
    BY <1>10 DEF A, B
  <2>5. IsFiniteSet(OrdsOf(hits, d)) /\ Cardinality(OrdsOf(hits, d)) <= Cardinality(A \cup B)
    BY <2>2, <2>4, FS_Subset
  <2>6. Cardinality(OrdsOf(hits, d)) \in Nat
    BY <2>5, FS_CardinalityType
  <2> QED
    BY <2>1, <2>2, <2>3, <2>5, <2>6
<1> QED
  BY <1>3, <1>9, <1>12 DEF hits

(* The answer to one variant.                                              *)
AnswerSays(a, v) ==
    /\ a.docs \in Seq(FusedRecords)
    /\ \A i \in DOMAIN a.docs :
         LET r == a.docs[i]
         IN  /\ \E p \in Reached(v) : p[1] = r.doc
             /\ ShownBy(r) \subseteq OrdsWithin(WordsOf(v, r.doc)) /\ Known(r) <= Cardinality(WordsOf(v, r.doc))
AnswerIsWhole(a, v) ==
    /\ \A p \in Reached(v) : \E i \in DOMAIN a.docs : a.docs[i].doc = p[1]
    /\ \A i \in DOMAIN a.docs :
         LET r == a.docs[i] IN Known(r) <= ShownPerDoc => ShownBy(r) = OrdsWithin(WordsOf(v, r.doc))
AnswerShowsAll(a, v, d) ==
    IF a.docs = <<>> THEN WordsOf(v, d) = {} ELSE ShownBy(a.docs[1]) = OrdsWithin(WordsOf(v, d))

LEMMA FusedSays ==
    ASSUME NEW v, IsVariant(v), NEW perDoc \in Nat \ {0}, NEW limit \in Nat \ {0}, NEW k \in Nat
    PROVE  LET hits == searchChannels(v, perDoc, limit)
           IN  /\ AreHits(hits)
               /\ AnswerSays([docs |-> fuse(hits, k)], v)
               /\ \A i \in DOMAIN fuse(hits, k) : IsFused(fuse(hits, k)[i], hits, fuse(hits, k)[i].doc, k)
               /\ \A h \in hits : \E i \in DOMAIN fuse(hits, k) : fuse(hits, k)[i].doc = h.doc
<1> DEFINE hits == searchChannels(v, perDoc, limit)
           docs == fuse(hits, k)
<1>1. AreHits(hits) /\ \A h \in hits : h.channel \in Channels /\ <<h.doc, h.ord>> \in v[h.channel]
  BY HitsAre
<1>2. ASSUME NEW d
      PROVE  /\ OrdsOf(hits, d) \subseteq OrdsWithin(WordsOf(v, d))
             /\ \A n \in TotalsOf(hits, d) : n <= Cardinality(WordsOf(v, d))
  BY CountsAreBounded
<1> HIDE DEF hits
<1>3. /\ docs \in Seq(FusedRecords)
      /\ \A i \in DOMAIN docs : IsFused(docs[i], hits, docs[i].doc, k) /\ \E h \in hits : h.doc = docs[i].doc
      /\ \A h \in hits : \E i \in DOMAIN docs : docs[i].doc = h.doc
  <2>1. FuseSays(docs, hits, k)
    BY <1>1, FuseIs
  <2> QED
    BY <2>1 DEF FuseSays
<1> HIDE DEF docs
<1>4. ASSUME NEW i \in DOMAIN docs
      PROVE  /\ \E p \in Reached(v) : p[1] = docs[i].doc
             /\ ShownBy(docs[i]) \subseteq OrdsWithin(WordsOf(v, docs[i].doc))
             /\ Known(docs[i]) <= Cardinality(WordsOf(v, docs[i].doc))
  <2>1. PICK h \in hits : h.doc = docs[i].doc
    BY <1>3
  <2>2. h.channel \in Channels /\ <<h.doc, h.ord>> \in v[h.channel] /\ <<h.doc, h.ord>>[1] = h.doc
    BY <1>1
  <2>3. <<h.doc, h.ord>> \in Reached(v)
    BY <2>2 DEF Channels, Reached
  <2>4. IsFused(docs[i], hits, docs[i].doc, k)
    BY <1>3
  <2> QED
    BY <1>2, <2>1, <2>2, <2>3, <2>4 DEF IsFused
<1>5. AnswerSays([docs |-> docs], v)
  BY <1>3, <1>4 DEF AnswerSays
<1> QED
  BY <1>1, <1>3, <1>5 DEF docs, hits

LEMMA LibraryAnswerIs ==
    ASSUME NEW v, IsVariant(v)
    PROVE  LET a == searchVariant(v, FALSE)
           IN  AnswerSays(a, v) /\ (~a.saturated => AnswerIsWhole(a, v))
<1> DEFINE hits == searchChannels(v, SqlPerDoc, ChannelDepth)
           docs == fuse(hits, ShownPerDoc)
           a == searchVariant(v, FALSE)
           rows(c) == {h \in hits : h.channel = c}
<1>0. /\ SqlPerDoc \in Nat \ {0} /\ ChannelDepth \in Nat \ {0} /\ ShownPerDoc \in Nat \ {0} /\ ShownPerDoc <= SqlPerDoc
      /\ ShownPerDoc \in Nat
  BY FusionAssumption
<1>1. a.docs = docs /\ (a.saturated <=> \E c \in DOMAIN v : Cardinality(rows(c)) >= ChannelDepth)
  <2> DEFINE full == \E c \in DOMAIN v : Cardinality(rows(c)) >= ChannelDepth
  <2>1. a = [docs |-> docs, saturated |-> full]
    BY DEF searchVariant
  <2> HIDE DEF a, docs, full
  <2>2. a.docs = docs /\ a.saturated = full
    BY <2>1
  <2> QED
    BY <2>2 DEF full
<1>2. /\ AreHits(hits)
      /\ AnswerSays([docs |-> docs], v)
      /\ \A i \in DOMAIN docs : IsFused(docs[i], hits, docs[i].doc, ShownPerDoc)
      /\ \A h \in hits : \E i \in DOMAIN docs : docs[i].doc = h.doc
  BY <1>0, FusedSays
<1>3. \A c \in Channels : rows(c) = ChannelRows(v[c], c, SqlPerDoc, ChannelDepth)
  BY <1>0, HitsAre
<1>4. DOMAIN v = Channels
  BY DEF IsVariant
<1>5. \A c \in Channels : Cardinality(rows(c)) \in Nat
  <2> SUFFICES ASSUME NEW c \in Channels PROVE Cardinality(rows(c)) \in Nat
    OBVIOUS
  <2>1. rows(c) \in SUBSET hits
    OBVIOUS
  <2> HIDE DEF rows, hits
  <2> QED
    BY <1>2, <2>1, FS_Subset, FS_CardinalityType DEF AreHits
<1> HIDE DEF rows
<1>6. ~a.saturated => \A c \in Channels : Cardinality(ChannelRows(v[c], c, SqlPerDoc, ChannelDepth)) < ChannelDepth
  <2> SUFFICES ASSUME ~a.saturated, NEW c \in Channels
               PROVE  Cardinality(ChannelRows(v[c], c, SqlPerDoc, ChannelDepth)) < ChannelDepth
    OBVIOUS
  <2>1. ~(Cardinality(rows(c)) >= ChannelDepth)
    BY <1>1, <1>4
  <2>2. rows(c) = ChannelRows(v[c], c, SqlPerDoc, ChannelDepth) /\ Cardinality(rows(c)) \in Nat
    BY <1>3, <1>5
  <2> QED
    BY <1>0, <2>1, <2>2
<1>7. a.docs = docs
  BY <1>1
<1>8. AnswerSays(a, v)
  BY <1>2, <1>7 DEF AnswerSays
<1>9. ASSUME ~a.saturated PROVE AnswerIsWhole(a, v)
  <2>1. /\ \A p \in Reached(v) : \E h \in hits : h.doc = p[1]
        /\ \A d : (\A n \in TotalsOf(hits, d) : n <= SqlPerDoc) => OrdsWithin(WordsOf(v, d)) \subseteq OrdsOf(hits, d)
    BY <1>0, <1>6, <1>9, NoChannelIsFull
  <2> HIDE DEF hits, docs
  <2>2. \A p \in Reached(v) : \E i \in DOMAIN docs : docs[i].doc = p[1]
    BY <1>2, <2>1
  <2>3. ASSUME NEW i \in DOMAIN docs, Known(docs[i]) <= ShownPerDoc
        PROVE  ShownBy(docs[i]) = OrdsWithin(WordsOf(v, docs[i].doc))
    <3> DEFINE r == docs[i]
               d == docs[i].doc
    <3>1. IsFused(r, hits, d, ShownPerDoc)
      BY <1>2
    <3>2. /\ r \in FusedRecords /\ ShownBy(r) \subseteq OrdsOf(hits, d) /\ Len(r.chunks) <= ShownPerDoc
          /\ Len(r.chunks) < ShownPerDoc \/ r.more = 0 => ShownBy(r) = OrdsOf(hits, d)
          /\ \A n \in TotalsOf(hits, d) : n <= Known(r)
      BY <3>1 DEF IsFused
    <3>3. ShownBy(r) \subseteq OrdsWithin(WordsOf(v, d))
      BY <1>2 DEF AnswerSays
    <3>4. TotalsOf(hits, d) \in SUBSET Nat
      BY <1>2, OrdsAre
    <3> HIDE DEF r, d
    <3>5. r.more \in Nat /\ r.chunks \in Seq([ord : Nat, score : Nat])
      BY <3>2 DEF FusedRecords
    <3>6. Len(r.chunks) \in Nat
      BY <3>5
    <3>7. Known(r) <= ShownPerDoc
      BY <2>3 DEF r
    <3>8. Known(r) = r.more + Len(r.chunks)
      BY DEF Known
    <3>9. \A n \in TotalsOf(hits, d) : n <= SqlPerDoc
      BY <1>0, <3>2, <3>4, <3>5, <3>6, <3>7, <3>8
    <3>10. OrdsWithin(WordsOf(v, d)) \subseteq OrdsOf(hits, d)
      BY <2>1, <3>9
    <3>11. Len(r.chunks) < ShownPerDoc \/ r.more = 0
      BY <1>0, <3>2, <3>5, <3>6, <3>7, <3>8
    <3>12. ShownBy(r) = OrdsWithin(WordsOf(v, d))
      BY <3>2, <3>3, <3>10, <3>11
    <3> QED
      BY <3>12 DEF r, d
  <2> QED
    BY <1>7, <2>2, <2>3 DEF AnswerIsWhole
<1> QED
  BY <1>8, <1>9

LEMMA DocAnswerIs ==
    ASSUME NEW v, IsVariant(v), NEW d, \A p \in Reached(v) : p[1] = d
    PROVE  LET a == searchVariant(v, TRUE)
           IN  AnswerSays(a, v) /\ (~a.saturated => AnswerShowsAll(a, v, d))
<1> DEFINE hits == searchChannels(v, DocDepth, DocDepth)
           docs == fuse(hits, 3 * DocDepth)
           a == searchVariant(v, TRUE)
           rows(c) == {h \in hits : h.channel = c}
<1>0. DocDepth \in Nat \ {0} /\ 3 * DocDepth \in Nat
  BY FusionAssumption
<1>1. a.docs = docs /\ (a.saturated <=> \E h \in hits : h.channel # "meta" /\ h.total > Cardinality(rows(h.channel)))
  <2> DEFINE full == \E h \in hits : h.channel # "meta" /\ h.total > Cardinality(rows(h.channel))
  <2>1. a = [docs |-> docs, saturated |-> full]
    BY DEF searchVariant
  <2> HIDE DEF a, docs, full
  <2>2. a.docs = docs /\ a.saturated = full
    BY <2>1
  <2> QED
    BY <2>2 DEF full
<1>2. /\ AreHits(hits)
      /\ AnswerSays([docs |-> docs], v)
      /\ \A i \in DOMAIN docs : IsFused(docs[i], hits, docs[i].doc, 3 * DocDepth)
      /\ \A h \in hits : \E i \in DOMAIN docs : docs[i].doc = h.doc
  BY <1>0, FusedSays
<1>3. \A c \in Channels : rows(c) = ChannelRows(v[c], c, DocDepth, DocDepth)
  BY <1>0, HitsAre
<1>4. \A h \in hits : h.channel \in Channels
  BY <1>0, HitsAre
<1>5. \A c \in Channels : Cardinality(rows(c)) \in Nat
  <2> SUFFICES ASSUME NEW c \in Channels PROVE Cardinality(rows(c)) \in Nat
    OBVIOUS
  <2>1. rows(c) \in SUBSET hits
    OBVIOUS
  <2> HIDE DEF rows, hits
  <2> QED
    BY <1>2, <2>1, FS_Subset, FS_CardinalityType DEF AreHits
<1>6. \A h \in hits : h.total \in Nat
  BY <1>2 DEF AreHits
<1> HIDE DEF rows
<1>7. ~a.saturated => \A h \in hits : h.channel # "meta" =>
                        h.total <= Cardinality(ChannelRows(v[h.channel], h.channel, DocDepth, DocDepth))
  <2> SUFFICES ASSUME ~a.saturated, NEW h \in hits, h.channel # "meta"
               PROVE  h.total <= Cardinality(ChannelRows(v[h.channel], h.channel, DocDepth, DocDepth))
    OBVIOUS
  <2>1. ~(h.total > Cardinality(rows(h.channel)))
    BY <1>1
  <2>2. rows(h.channel) = ChannelRows(v[h.channel], h.channel, DocDepth, DocDepth) /\ Cardinality(rows(h.channel)) \in Nat
    BY <1>3, <1>4, <1>5
  <2> QED
    BY <1>6, <2>1, <2>2
<1>8. a.docs = docs
  BY <1>1
<1>9. AnswerSays(a, v)
  BY <1>2, <1>8 DEF AnswerSays
<1>10. ASSUME ~a.saturated PROVE AnswerShowsAll(a, v, d)
  <2>1. OrdsOf(hits, d) = OrdsWithin(WordsOf(v, d)) /\ Cardinality(OrdsOf(hits, d)) < 3 * DocDepth
    BY <1>0, <1>7, <1>10, NoChannelHasMore
  <2>2. docs \in Seq(FusedRecords)
    BY <1>2 DEF AnswerSays
  <2>3. OrdsOf(hits, d) \in SUBSET Nat /\ Cardinality(OrdsOf(hits, d)) \in Nat /\ TotalsOf(hits, d) \in SUBSET Nat
        /\ IsFiniteSet(OrdsOf(hits, d))
    BY <1>2, OrdsAre
  <2> HIDE DEF hits, docs
  <2>4. CASE docs = <<>>
    <3>1. hits = {}
      BY <1>2, <2>4
    <3>2. OrdsOf(hits, d) = {}
      BY <3>1 DEF OrdsOf
    <3>3. WordsOf(v, d) = {}
      BY <2>1, <3>2 DEF OrdsWithin
    <3> QED
      BY <1>8, <2>4, <3>3 DEF AnswerShowsAll
  <2>5. CASE docs # <<>>
    <3> DEFINE r == docs[1]
    <3>1. 1 \in DOMAIN docs
      BY <2>2, <2>5
    <3>2. r.doc = d
      BY <1>2, <3>1 DEF AnswerSays
    <3>3. IsFused(r, hits, d, 3 * DocDepth)
      BY <1>2, <3>1, <3>2
    <3> HIDE DEF r
    <3>4. /\ r \in FusedRecords /\ ShownBy(r) \subseteq OrdsOf(hits, d) /\ Len(r.chunks) <= Cardinality(OrdsOf(hits, d))
          /\ Len(r.chunks) < 3 * DocDepth \/ r.more = 0 => ShownBy(r) = OrdsOf(hits, d)
      BY <3>3 DEF IsFused
    <3>5. r.more \in Nat /\ r.chunks \in Seq([ord : Nat, score : Nat])
      BY <3>4 DEF FusedRecords
    <3>6. ShownBy(r) = OrdsOf(hits, d)
      BY <1>0, <2>1, <2>3, <3>4, <3>5
    <3> QED
      BY <1>8, <2>1, <2>5, <3>6 DEF AnswerShowsAll, r
  <2> QED
    BY <2>4, <2>5
<1> QED
  BY <1>9, <1>10
-----------------------------------------------------------------------------
(* The variants of a call.                                                 *)
LEMMA PassagesAre ==
    /\ IsFiniteSet(Passages) /\ IsFiniteSet(FusedDocs \X {0})
    /\ \A p \in Passages : p \in Places /\ p[1] \in FusedDocs /\ p[2] # 0
    /\ \A p \in FusedDocs \X {0} : p \in Places /\ p[1] \in FusedDocs /\ p[2] = 0
<1>1. IsFiniteSet(FusedDocs) /\ IsFiniteSet(ChunkOrds) /\ IsFiniteSet({0})
  BY FusionAssumption, FS_Singleton
<1>2. IsFiniteSet(FusedDocs \X ChunkOrds) /\ IsFiniteSet(FusedDocs \X {0})
  BY <1>1, FS_Product
<1>3. Passages \in SUBSET (FusedDocs \X ChunkOrds)
  BY DEF Passages
<1>4. IsFiniteSet(Passages)
  BY <1>2, <1>3, FS_Subset
<1>5. FusedDocs \subseteq Nat /\ ChunkOrds \subseteq Nat /\ 0 \notin ChunkOrds
  BY FusionAssumption
<1>6. \A p \in FusedDocs \X ChunkOrds : p \in Places /\ p[1] \in FusedDocs /\ p[2] # 0
  BY <1>5 DEF Places
<1>7. \A p \in FusedDocs \X {0} : p \in Places /\ p[1] \in FusedDocs /\ p[2] = 0
  <2> SUFFICES ASSUME NEW p \in FusedDocs \X {0} PROVE p \in Places /\ p[1] \in FusedDocs /\ p[2] = 0
    OBVIOUS
  <2>1. PICK d \in FusedDocs, z \in {0} : p = <<d, z>>
    OBVIOUS
  <2>2. d \in Nat /\ z = 0 /\ 0 \in Nat
    BY <1>5
  <2>3. p[1] = d /\ p[2] = 0
    BY <2>1, <2>2
  <2>4. <<d, 0>> \in Nat \X Nat
    BY <2>2
  <2> QED
    BY <2>1, <2>2, <2>3, <2>4 DEF Places
<1> QED
  BY <1>2, <1>3, <1>4, <1>6, <1>7

LEMMA InsideIs ==
    ASSUME NEW v \in Variants, NEW d \in FusedDocs \cup {NoDoc}
    PROVE  /\ IsVariant(Inside(v, d)) /\ IsVariant(v)
           /\ \A p \in Reached(v) : p[1] \in FusedDocs
           /\ Reached(v) = v.and \cup v.idn \cup v.meta
           /\ d # NoDoc => (\A p \in Reached(Inside(v, d)) : p[1] = d) /\ WordsOf(Inside(v, d), d) = WordsOf(v, d)
           /\ d = NoDoc => Inside(v, d) = v
<1> DEFINE w == Inside(v, d)
<1>1. /\ DOMAIN v = Channels
      /\ v["and"] \in SUBSET Passages /\ v["idn"] \in SUBSET Passages /\ v["meta"] \in SUBSET (FusedDocs \X {0})
  BY DEF Variants, Channels
<1>2. /\ IsFiniteSet(v["and"]) /\ IsFiniteSet(v["idn"]) /\ IsFiniteSet(v["meta"])
  BY <1>1, PassagesAre, FS_Subset
<1>3. IsVariant(v)
  BY <1>1, <1>2, PassagesAre DEF IsVariant, Channels
<1>4. \A p \in Reached(v) : p[1] \in FusedDocs
  BY <1>1, PassagesAre DEF Reached
<1>5. Reached(v) = v.and \cup v.idn \cup v.meta
  BY DEF Reached
<1>6. CASE d = NoDoc
  BY <1>3, <1>4, <1>5, <1>6 DEF Inside
<1>7. CASE d # NoDoc
  <2>1. w = [c \in Channels |-> {p \in v[c] : p[1] = d}]
    BY <1>1, <1>7 DEF Inside
  <2>2. DOMAIN w = Channels /\ \A c \in Channels : w[c] = {p \in v[c] : p[1] = d} /\ w[c] \in SUBSET v[c]
    BY <2>1
  <2>3. "and" \in Channels /\ "idn" \in Channels /\ "meta" \in Channels
    BY DEF Channels
  <2> HIDE DEF w
  <2>4. \A c \in Channels : w[c] \in SUBSET Places /\ IsFiniteSet(w[c])
    <3> SUFFICES ASSUME NEW c \in Channels PROVE w[c] \in SUBSET Places /\ IsFiniteSet(w[c])
      OBVIOUS
    <3>1. v[c] \in SUBSET Places /\ IsFiniteSet(v[c]) /\ w[c] \in SUBSET v[c]
      BY <1>3, <2>2 DEF IsVariant
    <3> QED
      BY <3>1, FS_Subset
  <2>5. /\ \A p \in w["and"] \cup w["idn"] : p[2] # 0
        /\ \A p \in w["meta"] : p[2] = 0
    BY <1>3, <2>2, <2>3 DEF IsVariant
  <2>6. IsVariant(w)
    BY <2>2, <2>4, <2>5 DEF IsVariant
  <2>7. \A p \in Reached(w) : p[1] = d
    BY <2>2, <2>3 DEF Reached
  <2>8. WordsOf(w, d) = WordsOf(v, d)
    BY <2>2, <2>3 DEF WordsOf
  <2> QED
    BY <1>3, <1>4, <1>5, <1>7, <2>6, <2>7, <2>8 DEF w
<1> QED
  BY <1>6, <1>7

FusionAnswers == {searchVariant(Inside(v, d), d # NoDoc) : v \in Variants, d \in FusedDocs \cup {NoDoc}}

FusionInv ==
    /\ fused[1] \in Seq(Variants) /\ fused[2] \in FusedDocs \cup {NoDoc}
    /\ fusedAnswers \in Seq(FusionAnswers) /\ Len(fusedAnswers) <= Len(fused[1])
    /\ \A i \in 1 .. Len(fusedAnswers) :
         fusedAnswers[i] = searchVariant(Inside(fused[1][i], fused[2]), fused[2] # NoDoc)
    /\ fusedEntries # <<>> =>
         /\ Len(fusedAnswers) = Len(fused[1])
         /\ fusedEntries = <<Merged([i \in DOMAIN fusedAnswers |-> fusedAnswers[i].docs], fused[2])>>

LEMMA FusionStarts == FusionInit => FusionInv
<1> SUFFICES ASSUME FusionInit PROVE FusionInv
  OBVIOUS
<1>1. FusionSamples \subseteq Seq(Variants)
  <2> DEFINE words == {v \in Variants : v.idn = {} /\ v.meta = {} /\ Cardinality(v.and) = 1}
             bare == {u \in Variants : u.meta = {}}
  <2>1. FusionSamples = {<<v>> : v \in Variants} \cup {<<v, w>> : v \in bare, w \in words}
    BY DEF FusionSamples
  <2>2. words \subseteq Variants /\ bare \subseteq Variants
    OBVIOUS
  <2> HIDE DEF words, bare
  <2>3. \A v, w \in Variants : <<v>> \in Seq(Variants) /\ <<v, w>> \in Seq(Variants)
    <3> HIDE DEF Variants
    <3> QED
      OBVIOUS
  <2> SUFFICES ASSUME NEW s \in FusionSamples PROVE s \in Seq(Variants)
    OBVIOUS
  <2>4. (\E v \in Variants : s = <<v>>) \/ (\E v \in bare, w \in words : s = <<v, w>>)
    BY <2>1
  <2> QED
    BY <2>2, <2>3, <2>4
<1>2. fused[1] \in Seq(Variants) /\ fused[2] \in FusedDocs \cup {NoDoc}
  BY <1>1 DEF FusionInit
<1>3. fusedAnswers = <<>> /\ fusedEntries = <<>>
  BY DEF FusionInit
<1>4. fusedAnswers \in Seq(FusionAnswers) /\ Len(fusedAnswers) = 0
  BY <1>3
<1>5. Len(fused[1]) \in Nat
  BY <1>2
<1> QED
  BY <1>2, <1>3, <1>4, <1>5 DEF FusionInv

LEMMA FusionSteps == FusionInv /\ [FusionNext]_fusionVars => FusionInv'
<1> SUFFICES ASSUME FusionInv, [FusionNext]_fusionVars PROVE FusionInv'
  OBVIOUS
<1> DEFINE reply(i) == searchVariant(Inside(fused[1][i], fused[2]), fused[2] # NoDoc)
           n == Len(fusedAnswers)
           merged == <<Merged([i \in DOMAIN fusedAnswers |-> fusedAnswers[i].docs], fused[2])>>
<1>1. /\ fused[1] \in Seq(Variants) /\ fused[2] \in FusedDocs \cup {NoDoc}
      /\ fusedAnswers \in Seq(FusionAnswers) /\ n <= Len(fused[1]) /\ n \in Nat /\ Len(fused[1]) \in Nat
      /\ \A i \in 1 .. n : fusedAnswers[i] = reply(i)
      /\ fusedEntries # <<>> => n = Len(fused[1]) /\ fusedEntries = merged
  BY DEF FusionInv
<1>2. CASE FusionSearches
  <2> DEFINE a == reply(n + 1)
  <2>1. n < Len(fused[1]) /\ fusedAnswers' = Append(fusedAnswers, a) /\ UNCHANGED <<fused, fusedEntries>>
    BY <1>2 DEF FusionSearches
  <2>2. n + 1 \in 1 .. Len(fused[1]) /\ fused[1][n + 1] \in Variants
    BY <1>1, <2>1
  <2>3. a \in FusionAnswers
    BY <1>1, <2>2 DEF FusionAnswers
  <2>4. fusedEntries = <<>>
    BY <1>1, <2>1
  <2> HIDE DEF a
  <2>5. /\ fusedAnswers' \in Seq(FusionAnswers) /\ Len(fusedAnswers') = n + 1
        /\ \A i \in 1 .. n : fusedAnswers'[i] = fusedAnswers[i]
        /\ fusedAnswers'[n + 1] = a
    <3> HIDE DEF FusionAnswers
    <3> QED
      BY <1>1, <2>1, <2>3
  <2>6. \A i \in 1 .. n + 1 : fusedAnswers'[i] = reply(i)
    <3> SUFFICES ASSUME NEW i \in 1 .. n + 1 PROVE fusedAnswers'[i] = reply(i)
      OBVIOUS
    <3>1. i \in 1 .. n \/ i = n + 1
      BY <1>1
    <3> QED
      BY <1>1, <2>5, <3>1 DEF a
  <2> HIDE DEF n
  <2> QED
    BY <1>1, <2>1, <2>2, <2>4, <2>5, <2>6 DEF FusionInv
<1>3. CASE FusionMerges
  BY <1>1, <1>3 DEF FusionMerges, FusionInv
<1>4. CASE UNCHANGED fusionVars
  BY <1>4 DEF fusionVars, FusionInv
<1> QED
  BY <1>2, <1>3, <1>4 DEF FusionNext
-----------------------------------------------------------------------------
(* An entry of the merged list: what the records of its document say.      *)
RecordsOf(records, d) == {r \in records : r.doc = d}
OrdsShown(all) == UNION {ShownBy(r) : r \in all}

EntrySays(e, all) ==
    /\ Len(e.chunks) \in Nat /\ e.more \in Nat /\ Len(e.chunks) <= ShownPerDoc
    /\ Range(e.chunks) \subseteq OrdsShown(all)
    /\ e.more = 0 => Range(e.chunks) = OrdsShown(all)
    /\ \/ \E r \in all : Known(e) = Known(r)
       \/ Known(e) = Cardinality(OrdsShown(all))
    /\ \A r \in all : Known(r) <= Known(e)

LEMMA ChunksOfAre ==
    ASSUME NEW r \in FusedRecords
    PROVE  /\ IsFiniteSet(Range(r.chunks)) /\ Range(r.chunks) \subseteq [ord : Nat, score : Nat]
           /\ ShownBy(r) = {c.ord : c \in Range(r.chunks)}
           /\ Known(r) \in Nat
<1> DEFINE s == r.chunks
           C == [ord : Nat, score : Nat]
<1>1. s \in Seq(C) /\ r.more \in Nat
  BY DEF FusedRecords
<1>2. ShownBy(r) = {c.ord : c \in Range(s)}
  <2>1. ShownBy(r) = {s[i].ord : i \in DOMAIN s}
    BY DEF ShownBy
  <2> HIDE DEF s
  <2> QED
    BY <2>1 DEF Range
<1>3. Known(r) = r.more + Len(s)
  BY DEF Known
<1> HIDE DEF s, C
<1>4. Len(s) \in Nat /\ DOMAIN s = 1 .. Len(s) /\ s = [i \in DOMAIN s |-> s[i]] /\ \A i \in DOMAIN s : s[i] \in C
  BY <1>1
<1>5. IsFiniteSet(DOMAIN s)
  BY <1>4, UpToCounts
<1>6. IsFiniteSet({s[i] : i \in DOMAIN s})
  BY <1>4, <1>5, ImageCounts
<1>7. IsFiniteSet(Range(s)) /\ Range(s) \subseteq C
  BY <1>4, <1>6 DEF Range
<1> QED
  BY <1>1, <1>2, <1>3, <1>4, <1>7 DEF s, C

LEMMA EntryIs ==
    ASSUME NEW records \in SUBSET FusedRecords, IsFiniteSet(records), NEW d
    PROVE  Entry(records, d).doc = d /\ EntrySays(Entry(records, d), RecordsOf(records, d))
<1> DEFINE all == RecordsOf(records, d)
           scored == UNION {Range(r.chunks) : r \in all}
           ords == {c.ord : c \in scored}
           best(o) == Most({c.score : c \in {s \in scored : s.ord = o}})
           score == [o \in ords |-> best(o)]
           ranked == ByScore(score)
           picked == Best(ranked, ShownPerDoc)
           totals == {r.more + Len(r.chunks) : r \in all} \cup {Len(ranked)}
           known == Most(totals)
           e == Entry(records, d)
           C == [ord : Nat, score : Nat]
<1>1. e = [doc |-> d, chunks |-> picked, more |-> known - Len(picked)]
  BY DEF Entry, RecordsOf
<1>2. all \in SUBSET FusedRecords /\ IsFiniteSet(all)
  <2>1. all \in SUBSET records
    BY DEF RecordsOf
  <2> QED
    BY <2>1, FS_Subset
<1> HIDE DEF all
<1>3. \A r \in all : /\ IsFiniteSet(Range(r.chunks)) /\ Range(r.chunks) \subseteq C
                     /\ ShownBy(r) = {c.ord : c \in Range(r.chunks)}
                     /\ Known(r) \in Nat /\ Known(r) = r.more + Len(r.chunks)
  BY <1>2, ChunksOfAre DEF Known
<1>4. IsFiniteSet(scored) /\ scored \subseteq C
  <2> DEFINE f == [r \in all |-> Range(r.chunks)]
  <2>1. DOMAIN f = all /\ f = [r \in all |-> f[r]] /\ {f[r] : r \in all} = {Range(r.chunks) : r \in all}
    OBVIOUS
  <2> DEFINE F == {f[r] : r \in all}
  <2>2. scored = UNION F /\ (\A T \in F : IsFiniteSet(T))
    BY <1>3
  <2>3. scored \subseteq C
    BY <1>3
  <2> HIDE DEF f, scored
  <2>4. IsFiniteSet(F)
    BY <1>2, <2>1, ImageCounts
  <2> HIDE DEF F
  <2> QED
    BY <2>2, <2>3, <2>4, FS_UNION
<1>5. ords = OrdsShown(all)
  <2>1. UNION {{c.ord : c \in Range(r.chunks)} : r \in all} = ords
    OBVIOUS
  <2>2. {ShownBy(r) : r \in all} = {{c.ord : c \in Range(r.chunks)} : r \in all}
    BY <1>3
  <2> QED
    BY <2>1, <2>2 DEF OrdsShown
<1> HIDE DEF scored
<1>6. IsFiniteSet(ords) /\ ords \in SUBSET Nat /\ Cardinality(ords) \in Nat
  <2> DEFINE f == [c \in scored |-> c.ord]
  <2>1. DOMAIN f = scored /\ f = [c \in scored |-> f[c]] /\ {f[c] : c \in scored} = ords
    OBVIOUS
  <2>2. \A c \in scored : c.ord \in Nat
    BY <1>4
  <2> HIDE DEF f
  <2>3. IsFiniteSet({f[c] : c \in scored}) /\ Cardinality({f[c] : c \in scored}) \in Nat
    BY <1>4, <2>1, ImageCounts
  <2>4. ords \subseteq Nat
    BY <2>2
  <2> HIDE DEF ords
  <2> QED
    BY <2>1, <2>3, <2>4
<1>7. \A o \in ords : best(o) \in Nat
  <2> SUFFICES ASSUME NEW o \in ords PROVE best(o) \in Nat
    OBVIOUS
  <2> DEFINE T == {s \in scored : s.ord = o}
             f == [c \in T |-> c.score]
             S == {f[c] : c \in T}
  <2>1. best(o) = Most(S) /\ DOMAIN f = T /\ f = [c \in T |-> f[c]]
    OBVIOUS
  <2>2. T \in SUBSET scored /\ T # {}
    OBVIOUS
  <2>3. IsFiniteSet(T)
    BY <1>4, <2>2, FS_Subset
  <2>4. \A c \in T : f[c] \in Nat
    BY <1>4, <2>2
  <2> HIDE DEF T, f, best
  <2>5. IsFiniteSet(S)
    BY <2>1, <2>3, ImageCounts
  <2>6. S \in SUBSET Nat /\ S # {}
    BY <2>2, <2>4
  <2> HIDE DEF S
  <2>7. Most(S) \in S
    BY <2>5, <2>6, MostIs
  <2> QED
    BY <2>1, <2>6, <2>7
<1> HIDE DEF ords, best
<1>8. score \in [ords -> Nat]
  BY <1>7
<1> HIDE DEF score
<1>9. Enumerates(ranked, ords)
  BY <1>6, <1>8, ByScoreIs
<1>10. Len(ranked) = Cardinality(ords) /\ Range(ranked) = ords
  BY <1>9 DEF Enumerates
<1> HIDE DEF ranked
<1>11. /\ picked \in Seq(ords) /\ Len(picked) <= ShownPerDoc /\ Len(picked) <= Cardinality(ords)
       /\ Range(picked) \subseteq ords
       /\ Len(picked) = Cardinality(ords) => picked = ranked
  <2>1. ShownPerDoc \in Nat
    BY FusionAssumption
  <2> QED
    BY <1>6, <1>9, <2>1, BestAre
<1>12. totals \in SUBSET Nat /\ IsFiniteSet(totals) /\ totals # {}
       /\ (\A n \in totals : (\E r \in all : n = Known(r)) \/ n = Cardinality(ords))
       /\ (\A r \in all : Known(r) \in totals) /\ Cardinality(ords) \in totals
  <2> DEFINE f == [r \in all |-> Known(r)]
  <2>1. DOMAIN f = all /\ f = [r \in all |-> f[r]] /\ \A r \in all : f[r] = Known(r)
    OBVIOUS
  <2>2. {f[r] : r \in all} = {r.more + Len(r.chunks) : r \in all}
    BY <1>3
  <2>3. totals = {f[r] : r \in all} \cup {Cardinality(ords)}
    BY <1>10, <2>2
  <2> HIDE DEF f, totals
  <2>4. IsFiniteSet({f[r] : r \in all})
    BY <1>2, <2>1, ImageCounts
  <2>5. IsFiniteSet(totals)
    BY <2>3, <2>4, FS_AddElement
  <2> QED
    BY <1>3, <1>6, <2>1, <2>3, <2>5
<1> HIDE DEF picked, totals
<1>13. known \in totals /\ \A n \in totals : n <= known
  BY <1>12, MostIs
<1> HIDE DEF known
<1>14. e.doc = d /\ e.chunks = picked /\ e.more = known - Len(picked)
  BY <1>1
<1>15. Len(picked) \in Nat
  BY <1>11
<1>16. e.more \in Nat /\ e.more + Len(picked) = known /\ (e.more = 0 => Len(picked) = Cardinality(ords))
  <2> DEFINE n == Len(picked)
             c == Cardinality(ords)
  <2>1. n \in Nat /\ c \in Nat /\ known \in Nat /\ n <= c /\ c <= known
    BY <1>6, <1>11, <1>12, <1>13, <1>15
  <2> HIDE DEF n, c
  <2>2. known - n \in Nat /\ (known - n) + n = known /\ (known - n = 0 => n = c)
    BY <2>1
  <2> QED
    BY <1>14, <2>2 DEF n, c
<1>17. Known(e) = known
  BY <1>14, <1>16 DEF Known
<1> HIDE DEF e
<1>18. Range(e.chunks) \subseteq OrdsShown(all) /\ (e.more = 0 => Range(e.chunks) = OrdsShown(all))
  BY <1>5, <1>10, <1>11, <1>14, <1>16
<1>19. (\E r \in all : Known(e) = Known(r)) \/ Known(e) = Cardinality(OrdsShown(all))
  BY <1>5, <1>12, <1>13, <1>17
<1>20. \A r \in all : Known(r) <= Known(e)
  BY <1>12, <1>13, <1>17
<1>21. EntrySays(e, all)
  BY <1>11, <1>14, <1>15, <1>16, <1>18, <1>19, <1>20 DEF EntrySays
<1> QED
  BY <1>14, <1>21 DEF e, all

LEMMA WithinIs ==
    ASSUME FusionInv, NEW d
    PROVE  /\ IsFiniteSet(Within(d)) /\ Cardinality(Within(d)) \in Nat
           /\ \A i \in DOMAIN fused[1] : /\ WordsOf(fused[1][i], d) \subseteq Within(d)
                                         /\ Cardinality(WordsOf(fused[1][i], d)) <= Cardinality(Within(d))
           /\ \A p \in Within(d) : p = <<d, p[2]>> /\ \E i \in DOMAIN fused[1] : p \in WordsOf(fused[1][i], d)
<1>1. \A i \in DOMAIN fused[1] : fused[1][i] \in Variants
  BY DEF FusionInv
<1>2. NoDoc \in FusedDocs \cup {NoDoc}
  OBVIOUS
<1>3. \A v \in Variants : IsVariant(v) /\ Reached(v) = v.and \cup v.idn \cup v.meta
  BY <1>2, InsideIs
<1>4. ASSUME NEW p PROVE p \in Matches <=> \E i \in DOMAIN fused[1] : p \in Reached(fused[1][i])
  BY <1>1, <1>3 DEF Matches, Range
<1>5. \A v \in Variants : \A p \in Reached(v) : p[2] # 0 => p \in v["and"] \cup v["idn"]
  BY <1>3 DEF Reached, IsVariant
<1>6. \A v \in Variants : \A p \in v["and"] \cup v["idn"] : p \in Passages /\ p \in Reached(v)
  BY DEF Variants, Reached
<1>7. ASSUME NEW i \in DOMAIN fused[1] PROVE WordsOf(fused[1][i], d) \subseteq Within(d)
  BY <1>1, <1>3, <1>4, <1>6 DEF WordsOf, Within, IsVariant
<1>8. ASSUME NEW p \in Within(d)
      PROVE  p \in Passages /\ p[1] = d /\ \E i \in DOMAIN fused[1] : p \in WordsOf(fused[1][i], d)
  <2>1. p \in Matches /\ p[1] = d /\ p[2] # 0
    BY DEF Within
  <2>2. PICK i \in DOMAIN fused[1] : p \in Reached(fused[1][i])
    BY <1>4, <2>1
  <2>3. p \in fused[1][i]["and"] \cup fused[1][i]["idn"]
    BY <1>1, <1>5, <2>1, <2>2
  <2> QED
    BY <1>1, <1>6, <2>1, <2>3 DEF WordsOf
<1>9. IsFiniteSet(Within(d)) /\ Cardinality(Within(d)) \in Nat
  <2>1. Within(d) \in SUBSET Passages
    BY <1>8
  <2> QED
    BY <2>1, PassagesAre, FS_Subset, FS_CardinalityType
<1>10. \A p \in Within(d) : p = <<d, p[2]>>
  <2>1. \A p \in Passages : p = <<p[1], p[2]>>
    BY PassagesAre DEF Places
  <2> QED
    BY <1>8, <2>1
<1>11. \A i \in DOMAIN fused[1] : Cardinality(WordsOf(fused[1][i], d)) <= Cardinality(Within(d))
  BY <1>7, <1>9, FS_Subset
<1> QED
  BY <1>7, <1>8, <1>9, <1>10, <1>11

LEMMA OrdsInside ==
    ASSUME FusionInv, NEW d, NEW S \in SUBSET Within(d)
    PROVE  /\ OrdsWithin(S) \subseteq OrdsWithin(Within(d))
           /\ IsFiniteSet(OrdsWithin(Within(d))) /\ Cardinality(OrdsWithin(Within(d))) \in Nat
           /\ Cardinality(OrdsWithin(Within(d))) <= Cardinality(Within(d))
<1>1. IsFiniteSet(Within(d))
  BY WithinIs
<1> DEFINE W == Within(d)
           f == [p \in W |-> p[2]]
<1>2. OrdsWithin(W) = {f[p] : p \in W} /\ DOMAIN f = W /\ f = [p \in W |-> f[p]]
  BY DEF OrdsWithin
<1>3. OrdsWithin(S) \subseteq OrdsWithin(W)
  BY DEF OrdsWithin
<1> HIDE DEF f, W
<1>4. IsFiniteSet(W)
  BY <1>1 DEF W
<1>5. IsFiniteSet(OrdsWithin(W)) /\ Cardinality(OrdsWithin(W)) \in Nat /\ Cardinality(OrdsWithin(W)) <= Cardinality(W)
  BY <1>2, <1>4, ImageCounts
<1> QED
  BY <1>3, <1>5 DEF W

RecordsIn(lists) == UNION {Range(lists[i]) : i \in DOMAIN lists}

LEMMA RecordsAre ==
    ASSUME NEW S, NEW n \in Nat, NEW lists, DOMAIN lists = 1 .. n, \A i \in 1 .. n : lists[i] \in Seq(S)
    PROVE  /\ IsFiniteSet(RecordsIn(lists)) /\ RecordsIn(lists) \in SUBSET S
           /\ \A r \in RecordsIn(lists) : \E i \in 1 .. n : \E k \in DOMAIN lists[i] : lists[i][k] = r
           /\ \A i \in 1 .. n : \A k \in DOMAIN lists[i] : lists[i][k] \in RecordsIn(lists)
<1> DEFINE f == [i \in 1 .. n |-> Range(lists[i])]
           F == {f[i] : i \in 1 .. n}
           records == RecordsIn(lists)
<1>1. \A i \in 1 .. n : IsFiniteSet(f[i]) /\ f[i] \subseteq S /\ f[i] = Range(lists[i])
  BY RangeCounts
<1>2. DOMAIN f = 1 .. n /\ f = [i \in 1 .. n |-> f[i]] /\ records = UNION F
  BY DEF RecordsIn
<1>3. IsFiniteSet(1 .. n)
  BY UpToCounts
<1> HIDE DEF f, records
<1>4. IsFiniteSet(F) /\ \A T \in F : IsFiniteSet(T)
  BY <1>1, <1>2, <1>3, ImageCounts
<1>5. IsFiniteSet(UNION F)
  <2> HIDE DEF F
  <2> QED
    BY <1>4, FS_UNION
<1>6. records \subseteq S
  BY <1>1, <1>2
<1>7. \A r \in records : \E i \in 1 .. n : r \in Range(lists[i])
  BY <1>1, <1>2
<1>8. \A i \in 1 .. n : Range(lists[i]) \subseteq records
  BY <1>1, <1>2
<1> QED
  BY <1>2, <1>5, <1>6, <1>7, <1>8 DEF Range, records

LEMMA AnswersAre ==
    ASSUME FusionInv, fusedEntries # <<>>
    PROVE  /\ Len(fused[1]) \in Nat /\ DOMAIN fused[1] = 1 .. Len(fused[1])
           /\ DOMAIN fusedAnswers = 1 .. Len(fused[1]) /\ Len(fusedAnswers) = Len(fused[1])
           /\ \A i \in 1 .. Len(fused[1]) :
                /\ fused[1][i] \in Variants
                /\ fusedAnswers[i] = searchVariant(Inside(fused[1][i], fused[2]), fused[2] # NoDoc)
           /\ fusedEntries[1] = Merged([i \in DOMAIN fusedAnswers |-> fusedAnswers[i].docs], fused[2])
           /\ fused[2] \in FusedDocs \cup {NoDoc}
<1>1. fused[1] \in Seq(Variants) /\ fusedAnswers \in Seq(FusionAnswers) /\ Len(fusedAnswers) = Len(fused[1])
  BY DEF FusionInv
<1>2. Len(fused[1]) \in Nat /\ DOMAIN fused[1] = 1 .. Len(fused[1]) /\ DOMAIN fusedAnswers = 1 .. Len(fused[1])
      /\ \A i \in 1 .. Len(fused[1]) : fused[1][i] \in Variants
  BY <1>1
<1>3. fusedEntries[1] = Merged([i \in DOMAIN fusedAnswers |-> fusedAnswers[i].docs], fused[2])
  BY DEF FusionInv
<1> QED
  BY <1>1, <1>2, <1>3 DEF FusionInv

LEMMA LibraryIsHonest ==
    ASSUME FusionInv, fusedEntries # <<>>, fused[2] = NoDoc
    PROVE  LibraryCountsHonest(fusedEntries[1])
<1> DEFINE n == Len(fused[1])
           v == fused[1]
           lists == [i \in DOMAIN fusedAnswers |-> fusedAnswers[i].docs]
           records == RecordsIn(lists)
           named == [i \in DOMAIN lists |-> [k \in DOMAIN lists[i] |-> lists[i][k].doc]]
           order == interleave(named)
           listed == fusedEntries[1]
<1>1. /\ n \in Nat /\ DOMAIN v = 1 .. n /\ DOMAIN fusedAnswers = 1 .. n /\ Len(fusedAnswers) = n
      /\ \A i \in 1 .. n : v[i] \in Variants /\ fusedAnswers[i] = searchVariant(v[i], FALSE)
      /\ listed = mergeVariants(lists)
  <2>1. \A i \in 1 .. n : Inside(v[i], NoDoc) = v[i]
    BY DEF Inside
  <2> QED
    BY <2>1, AnswersAre DEF Merged
<1>2. \A i \in 1 .. n : /\ IsVariant(v[i]) /\ AnswerSays(fusedAnswers[i], v[i])
                        /\ ~fusedAnswers[i].saturated => AnswerIsWhole(fusedAnswers[i], v[i])
                        /\ \A p \in Reached(v[i]) : p[1] \in FusedDocs
  <2>1. NoDoc \in FusedDocs \cup {NoDoc}
    OBVIOUS
  <2>2. \A i \in 1 .. n : IsVariant(v[i]) /\ \A p \in Reached(v[i]) : p[1] \in FusedDocs
    BY <1>1, <2>1, InsideIs
  <2> QED
    BY <1>1, <2>2, LibraryAnswerIs
<1>3. listed = [i \in DOMAIN order |-> Entry(records, order[i])]
  BY <1>1 DEF mergeVariants, RecordsIn
<1>4. DOMAIN lists = 1 .. n /\ \A i \in 1 .. n : lists[i] = fusedAnswers[i].docs /\ lists[i] \in Seq(FusedRecords)
  BY <1>1, <1>2 DEF AnswerSays
<1>5. DOMAIN named = 1 .. n /\ \A i \in 1 .. n : named[i] = [k \in DOMAIN lists[i] |-> lists[i][k].doc]
  BY <1>4
<1> HIDE DEF n, v, lists, named, listed
<1>6. /\ IsFiniteSet(records) /\ records \in SUBSET FusedRecords
      /\ \A r \in records : \E i \in 1 .. n : \E k \in DOMAIN lists[i] : lists[i][k] = r
      /\ \A i \in 1 .. n : \A k \in DOMAIN lists[i] : lists[i][k] \in records
  <2>1. n \in Nat /\ DOMAIN lists = 1 .. n
    BY <1>1, <1>4
  <2>2. \A i \in 1 .. n : lists[i] \in Seq(FusedRecords)
    BY <1>4
  <2> QED
    BY <2>1, <2>2, RecordsAre
<1> HIDE DEF records
<1>7. ASSUME NEW i \in 1 .. n, NEW k \in DOMAIN lists[i]
      PROVE  /\ \E p \in Reached(v[i]) : p[1] = lists[i][k].doc
             /\ lists[i][k].doc \in FusedDocs
             /\ ShownBy(lists[i][k]) \subseteq OrdsWithin(WordsOf(v[i], lists[i][k].doc))
             /\ Known(lists[i][k]) <= Cardinality(WordsOf(v[i], lists[i][k].doc))
  <2>1. AnswerSays(fusedAnswers[i], v[i]) /\ lists[i] = fusedAnswers[i].docs
    BY <1>2, <1>4
  <2>2. /\ \E p \in Reached(v[i]) : p[1] = lists[i][k].doc
        /\ ShownBy(lists[i][k]) \subseteq OrdsWithin(WordsOf(v[i], lists[i][k].doc))
        /\ Known(lists[i][k]) <= Cardinality(WordsOf(v[i], lists[i][k].doc))
    BY <2>1 DEF AnswerSays
  <2>3. lists[i][k].doc \in FusedDocs
    BY <1>2, <2>2
  <2> QED
    BY <2>2, <2>3
<1>8. named \in Seq(Seq(FusedDocs)) /\ \A i \in 1 .. n : DOMAIN named[i] = DOMAIN lists[i] /\ (named[i] # <<>> <=> lists[i] # <<>>)
  <2>1. ASSUME NEW i \in 1 .. n
        PROVE  /\ named[i] \in Seq(FusedDocs) /\ DOMAIN named[i] = DOMAIN lists[i]
               /\ (named[i] # <<>> <=> lists[i] # <<>>)
    <3> DEFINE s == lists[i]
               t == named[i]
    <3>1. s \in Seq(FusedRecords) /\ t = [k \in DOMAIN s |-> s[k].doc]
      BY <1>4, <1>5
    <3>2. \A k \in DOMAIN s : s[k].doc \in FusedDocs
      BY <1>7
    <3> HIDE DEF s, t
    <3>3. Len(s) \in Nat /\ DOMAIN s = 1 .. Len(s) /\ (s # <<>> <=> Len(s) # 0)
      BY <3>1
    <3>4. t \in [1 .. Len(s) -> FusedDocs]
      BY <3>1, <3>2, <3>3
    <3>5. t \in Seq(FusedDocs) /\ DOMAIN t = DOMAIN s /\ Len(t) = Len(s)
      BY <3>3, <3>4, IsASeq
    <3>6. t # <<>> <=> Len(t) # 0
      BY <3>5
    <3> QED
      BY <3>3, <3>5, <3>6 DEF s, t
  <2>2. named \in [1 .. n -> Seq(FusedDocs)]
    BY <1>5, <2>1 DEF named
  <2>3. named \in Seq(Seq(FusedDocs))
    BY <1>1, <2>2, IsASeq
  <2> QED
    BY <2>1, <2>3
<1>9. Len(named) = n
  BY <1>1, <1>5, <1>8
<1>10. /\ Enumerates(order, KeysIn(named))
       /\ \A i \in DOMAIN named : named[i] # <<>> =>
            \E k \in DOMAIN order : k <= Len(named) /\ order[k] = named[i][1]
  BY <1>8, FusionAssumption, InterleaveIs
<1> HIDE DEF order
<1>11. \A d : d \in KeysIn(named) <=> \E i \in 1 .. n : \E k \in DOMAIN lists[i] : lists[i][k].doc = d
  <2>1. \A d : d \in KeysIn(named) <=> \E i \in 1 .. n : \E k \in DOMAIN named[i] : named[i][k] = d
    BY <1>5 DEF KeysIn, Range
  <2>2. \A i \in 1 .. n : DOMAIN named[i] = DOMAIN lists[i] /\ \A k \in DOMAIN lists[i] : named[i][k] = lists[i][k].doc
    BY <1>5, <1>8
  <2> QED
    BY <2>1, <2>2
<1>12. /\ DOMAIN listed = DOMAIN order
       /\ \A i \in DOMAIN order : /\ listed[i] = Entry(records, order[i]) /\ listed[i].doc = order[i]
                                  /\ EntrySays(listed[i], RecordsOf(records, order[i]))
  BY <1>3, <1>6, EntryIs
<1>13. \A d : d \in KeysIn(named) <=> \E i \in DOMAIN order : order[i] = d
  BY <1>10 DEF Enumerates, Range
<1>14. \A p : p \in Matches <=> \E i \in 1 .. n : p \in Reached(v[i])
  <2>1. NoDoc \in FusedDocs \cup {NoDoc}
    OBVIOUS
  <2>2. \A i \in 1 .. n : Reached(v[i]) = v[i].and \cup v[i].idn \cup v[i].meta
    BY <1>1, <2>1, InsideIs
  <2>3. Range(v) = {v[i] : i \in 1 .. n}
    BY <1>1 DEF Range
  <2>4. Matches = UNION {w.and \cup w.idn \cup w.meta : w \in Range(v)}
    BY DEF Matches, v
  <2> QED
    BY <2>2, <2>3, <2>4
<1>15. Unsaturated => \A i \in 1 .. n : AnswerIsWhole(fusedAnswers[i], v[i])
  BY <1>1, <1>2 DEF Unsaturated
<1>16. Unsaturated => {listed[i].doc : i \in DOMAIN listed} = {p[1] : p \in Matches}
  <2> SUFFICES ASSUME Unsaturated PROVE {listed[i].doc : i \in DOMAIN listed} = {p[1] : p \in Matches}
    OBVIOUS
  <2>1. ASSUME NEW i \in DOMAIN listed PROVE \E p \in Matches : p[1] = listed[i].doc
    <3>1. listed[i].doc \in KeysIn(named)
      BY <1>12, <1>13, <2>1
    <3>2. PICK j \in 1 .. n : \E k \in DOMAIN lists[j] : lists[j][k].doc = listed[i].doc
      BY <1>11, <3>1
    <3> QED
      BY <1>7, <1>14, <3>2
  <2>2. ASSUME NEW p \in Matches PROVE \E i \in DOMAIN listed : listed[i].doc = p[1]
    <3>1. PICK j \in 1 .. n : p \in Reached(v[j])
      BY <1>14
    <3>2. \E k \in DOMAIN lists[j] : lists[j][k].doc = p[1]
      BY <1>4, <1>15, <3>1 DEF AnswerIsWhole
    <3>3. p[1] \in KeysIn(named)
      BY <1>11, <3>2
    <3> QED
      BY <1>12, <1>13, <3>3
  <2> QED
    BY <2>1, <2>2
<1>17. ASSUME NEW i \in DOMAIN listed
       PROVE  /\ Len(listed[i].chunks) + listed[i].more <= Cardinality(Within(listed[i].doc))
              /\ Unsaturated /\ listed[i].more = 0
                   => Range(listed[i].chunks) = {p[2] : p \in Within(listed[i].doc)}
  <2> DEFINE e == listed[i]
             d == listed[i].doc
             all == RecordsOf(records, d)
             W == Within(d)
  <2>1. EntrySays(e, all)
    BY <1>12
  <2>2. /\ IsFiniteSet(W) /\ Cardinality(W) \in Nat
        /\ \A j \in 1 .. n : WordsOf(v[j], d) \subseteq W /\ Cardinality(WordsOf(v[j], d)) <= Cardinality(W)
        /\ \A p \in W : \E j \in 1 .. n : p \in WordsOf(v[j], d)
    <3>1. DOMAIN fused[1] = 1 .. n
      BY <1>1 DEF v
    <3> QED
      BY <3>1, WithinIs DEF v
  <2>3. ASSUME NEW r \in all
        PROVE  \E j \in 1 .. n : /\ \E k \in DOMAIN lists[j] : r = lists[j][k]
                                 /\ ShownBy(r) \subseteq OrdsWithin(WordsOf(v[j], d))
                                 /\ Known(r) <= Cardinality(WordsOf(v[j], d))
    <3>1. r \in records /\ r.doc = d
      BY DEF RecordsOf
    <3>2. PICK j \in 1 .. n : \E k \in DOMAIN lists[j] : lists[j][k] = r
      BY <1>6, <3>1
    <3> QED
      BY <1>7, <3>1, <3>2
  <2>4. \A r \in all : Known(r) \in Nat
    BY <1>6, ChunksOfAre DEF RecordsOf
  <2>5. \A j \in 1 .. n : Cardinality(WordsOf(v[j], d)) \in Nat
    BY <1>2, WordsAre
  <2> HIDE DEF e, d, all, W
  <2>6. OrdsShown(all) \subseteq OrdsWithin(W)
    <3> SUFFICES ASSUME NEW o \in OrdsShown(all) PROVE o \in OrdsWithin(W)
      OBVIOUS
    <3>1. PICK r \in all : o \in ShownBy(r)
      BY DEF OrdsShown
    <3>2. PICK j \in 1 .. n : o \in OrdsWithin(WordsOf(v[j], d))
      BY <2>3, <3>1
    <3> QED
      BY <2>2, <3>2 DEF OrdsWithin
  <2>7. Known(e) <= Cardinality(W)
    <3>1. ASSUME NEW r \in all, Known(e) = Known(r) PROVE Known(e) <= Cardinality(W)
      <4>1. PICK j \in 1 .. n : Known(r) <= Cardinality(WordsOf(v[j], d))
        BY <2>3
      <4> QED
        BY <2>2, <2>4, <2>5, <3>1, <4>1
    <3>2. ASSUME Known(e) = Cardinality(OrdsShown(all)) PROVE Known(e) <= Cardinality(W)
      <4>1. IsFiniteSet(OrdsWithin(W)) /\ Cardinality(OrdsWithin(W)) \in Nat /\ Cardinality(OrdsWithin(W)) <= Cardinality(W)
        BY OrdsInside DEF W
      <4>2. OrdsShown(all) \in SUBSET OrdsWithin(W)
        BY <2>6
      <4>3. IsFiniteSet(OrdsShown(all)) /\ Cardinality(OrdsShown(all)) <= Cardinality(OrdsWithin(W))
        BY <4>1, <4>2, FS_Subset
      <4>4. Cardinality(OrdsShown(all)) \in Nat
        BY <4>3, FS_CardinalityType
      <4> QED
        BY <2>2, <3>2, <4>1, <4>3, <4>4
    <3> QED
      BY <2>1, <3>1, <3>2 DEF EntrySays
  <2>8. Len(e.chunks) \in Nat /\ e.more \in Nat
    BY <2>1 DEF EntrySays
  <2>9. Len(e.chunks) + e.more <= Cardinality(W)
    BY <2>2, <2>7, <2>8 DEF Known
  <2>10. ASSUME Unsaturated, e.more = 0 PROVE Range(e.chunks) = OrdsWithin(W)
    <3>1. ShownPerDoc \in Nat
      BY FusionAssumption
    <3>2. Known(e) <= ShownPerDoc /\ Known(e) \in Nat
      BY <2>1, <2>8, <2>10, <3>1 DEF EntrySays, Known
    <3>3. \A r \in all : Known(r) <= ShownPerDoc
      BY <2>1, <2>4, <3>1, <3>2 DEF EntrySays
    <3>4. Range(e.chunks) = OrdsShown(all)
      BY <2>1, <2>10 DEF EntrySays
    <3>5. ASSUME NEW o \in OrdsWithin(W) PROVE o \in OrdsShown(all)
      <4>1. PICK p \in W : p[2] = o
        BY DEF OrdsWithin
      <4>2. PICK j \in 1 .. n : p \in WordsOf(v[j], d)
        BY <2>2
      <4>3. p \in Reached(v[j]) /\ p[1] = d
        BY <4>2 DEF WordsOf, Reached
      <4>4. AnswerIsWhole(fusedAnswers[j], v[j])
        BY <1>15, <2>10
      <4>5. PICK k \in DOMAIN lists[j] : lists[j][k].doc = d
        BY <1>4, <4>3, <4>4 DEF AnswerIsWhole
      <4> DEFINE r == lists[j][k]
      <4>6. r \in all
        BY <1>6, <4>5 DEF all, RecordsOf
      <4>7. Known(r) <= ShownPerDoc => ShownBy(r) = OrdsWithin(WordsOf(v[j], r.doc))
        BY <1>4, <4>4 DEF AnswerIsWhole
      <4>8. ShownBy(r) = OrdsWithin(WordsOf(v[j], d))
        BY <3>3, <4>5, <4>6, <4>7
      <4>9. o \in OrdsWithin(WordsOf(v[j], d))
        BY <4>1, <4>2 DEF OrdsWithin
      <4> QED
        BY <4>6, <4>8, <4>9 DEF OrdsShown
    <3> QED
      BY <2>6, <3>4, <3>5
  <2> QED
    BY <2>9, <2>10 DEF e, d, W, OrdsWithin
<1>18. ASSUME NEW i \in DOMAIN fusedAnswers, fusedAnswers[i].docs # <<>>
       PROVE  \E k \in DOMAIN listed : k <= Len(fusedAnswers) /\ listed[k].doc = fusedAnswers[i].docs[1].doc
  <2>1. i \in 1 .. n /\ lists[i] # <<>> /\ lists[i] \in Seq(FusedRecords) /\ lists[i] = fusedAnswers[i].docs
    BY <1>1, <1>4, <1>18
  <2>2. PICK k \in DOMAIN order : k <= Len(named) /\ order[k] = named[i][1]
    BY <1>5, <1>8, <1>10, <2>1
  <2>3. 1 \in DOMAIN lists[i]
    BY <2>1
  <2>4. named[i][1] = lists[i][1].doc
    BY <1>5, <2>1, <2>3
  <2> QED
    BY <1>1, <1>9, <1>12, <2>1, <2>2, <2>4
<1> QED
  BY <1>16, <1>17, <1>18 DEF LibraryCountsHonest, listed

LEMMA DocIsHonest ==
    ASSUME FusionInv, fusedEntries # <<>>, fused[2] # NoDoc
    PROVE  DocCountsHonest(fusedEntries[1])
<1> DEFINE n == Len(fused[1])
           v == fused[1]
           d == fused[2]
           W == Within(fused[2])
           docs(i) == fusedAnswers[i].docs
           lists == [i \in DOMAIN fusedAnswers |-> docs(i)]
           passages(list) == IF list = <<>> THEN <<>>
                             ELSE [k \in DOMAIN list[1].chunks |-> <<list[1].doc, list[1].chunks[k].ord>>]
           named == [i \in DOMAIN lists |-> passages(lists[i])]
           listed == fusedEntries[1]
<1>1. /\ n \in Nat /\ DOMAIN v = 1 .. n /\ DOMAIN fusedAnswers = 1 .. n
      /\ \A i \in 1 .. n : v[i] \in Variants /\ fusedAnswers[i] = searchVariant(Inside(v[i], d), TRUE)
      /\ listed = mergePassages(lists) /\ d \in FusedDocs \cup {NoDoc}
  BY AnswersAre DEF Merged
<1>2. \A i \in 1 .. n : /\ AnswerSays(fusedAnswers[i], Inside(v[i], d))
                        /\ ~fusedAnswers[i].saturated => AnswerShowsAll(fusedAnswers[i], Inside(v[i], d), d)
                        /\ \A p \in Reached(Inside(v[i], d)) : p[1] = d
                        /\ WordsOf(Inside(v[i], d), d) = WordsOf(v[i], d)
  <2>1. \A i \in 1 .. n : /\ IsVariant(Inside(v[i], d)) /\ WordsOf(Inside(v[i], d), d) = WordsOf(v[i], d)
                          /\ \A p \in Reached(Inside(v[i], d)) : p[1] = d
    BY <1>1, InsideIs
  <2> QED
    BY <1>1, <2>1, DocAnswerIs
<1>3. listed = interleave(named)
  BY <1>1 DEF mergePassages
<1>4. DOMAIN lists = 1 .. n /\ \A i \in 1 .. n : lists[i] = docs(i)
  BY <1>1
<1>5. DOMAIN named = 1 .. n /\ \A i \in 1 .. n : named[i] = passages(docs(i))
  BY <1>4
<1>6. \A i \in 1 .. n : docs(i) \in Seq(FusedRecords)
  BY <1>2 DEF AnswerSays
<1>7. /\ IsFiniteSet(W) /\ Cardinality(W) \in Nat
      /\ \A i \in 1 .. n : WordsOf(v[i], d) \subseteq W /\ Cardinality(WordsOf(v[i], d)) <= Cardinality(W)
      /\ \A p \in W : p = <<d, p[2]>> /\ \E i \in 1 .. n : p \in WordsOf(v[i], d)
  BY <1>1, WithinIs
<1> HIDE DEF n, v, lists, named, listed
<1>8. ASSUME NEW i \in 1 .. n, docs(i) # <<>>
      PROVE  LET r == docs(i)[1]
             IN  /\ r.doc = d /\ r \in FusedRecords
                 /\ ShownBy(r) \subseteq OrdsWithin(WordsOf(v[i], d))
                 /\ Known(r) <= Cardinality(WordsOf(v[i], d))
  <2> DEFINE s == docs(i)
  <2>1. s \in Seq(FusedRecords) /\ s # <<>>
    BY <1>6, <1>8
  <2>2. \A k \in DOMAIN s : /\ \E p \in Reached(Inside(v[i], d)) : p[1] = s[k].doc
                            /\ ShownBy(s[k]) \subseteq OrdsWithin(WordsOf(Inside(v[i], d), s[k].doc))
                            /\ Known(s[k]) <= Cardinality(WordsOf(Inside(v[i], d), s[k].doc))
    BY <1>2 DEF AnswerSays
  <2> HIDE DEF s
  <2>3. 1 \in DOMAIN s /\ s[1] \in FusedRecords
    BY <2>1
  <2>4. s[1].doc = d
    BY <1>2, <2>2, <2>3
  <2>5. /\ ShownBy(s[1]) \subseteq OrdsWithin(WordsOf(v[i], d))
        /\ Known(s[1]) <= Cardinality(WordsOf(v[i], d))
    BY <1>2, <2>2, <2>3, <2>4
  <2> QED
    BY <2>3, <2>4, <2>5 DEF s
<1>9. ASSUME NEW S \in SUBSET W, NEW o \in OrdsWithin(S) PROVE <<d, o>> \in S
  <2>1. PICK p \in S : p[2] = o
    BY DEF OrdsWithin
  <2> QED
    BY <1>7, <2>1
<1>10. ASSUME NEW i \in 1 .. n
       PROVE  named[i] \in Seq(W) /\ Range(named[i]) = {<<d, o>> : o \in IF docs(i) = <<>> THEN {} ELSE ShownBy(docs(i)[1])}
  <2>1. CASE docs(i) = <<>>
    <3>1. named[i] = <<>>
      BY <1>5, <2>1
    <3>2. named[i] \in Seq(W) /\ Range(named[i]) = {}
      BY <3>1 DEF Range
    <3> QED
      BY <2>1, <3>2
  <2>2. CASE docs(i) # <<>>
    <3> DEFINE r == docs(i)[1]
               s == r.chunks
               t == named[i]
    <3>1. r.doc = d /\ r \in FusedRecords /\ ShownBy(r) \subseteq OrdsWithin(WordsOf(v[i], d))
      BY <1>8, <2>2
    <3>2. t = [k \in DOMAIN s |-> <<d, s[k].ord>>]
      BY <1>5, <2>2, <3>1
    <3>3. s \in Seq([ord : Nat, score : Nat])
      BY <3>1 DEF FusedRecords
    <3>4. ShownBy(r) = {s[k].ord : k \in DOMAIN s}
      BY DEF ShownBy
    <3> HIDE DEF r, s, t
    <3>5. Len(s) \in Nat /\ DOMAIN s = 1 .. Len(s)
      BY <3>3
    <3>6. \A k \in DOMAIN s : <<d, s[k].ord>> \in W
      <4>1. WordsOf(v[i], d) \in SUBSET W
        BY <1>7
      <4>2. \A k \in DOMAIN s : s[k].ord \in OrdsWithin(WordsOf(v[i], d))
        BY <3>1, <3>4
      <4> QED
        BY <1>9, <4>1, <4>2
    <3>7. t \in [1 .. Len(s) -> W]
      BY <3>2, <3>5, <3>6
    <3>8. t \in Seq(W) /\ DOMAIN t = DOMAIN s
      BY <3>5, <3>7, IsASeq
    <3>9. Range(t) = {<<d, o>> : o \in ShownBy(r)}
      BY <3>2, <3>4, <3>8 DEF Range
    <3> QED
      BY <2>2, <3>8, <3>9 DEF r, t
  <2> QED
    BY <2>1, <2>2
<1>11. named \in Seq(Seq(W))
  <2>1. named \in [1 .. n -> Seq(W)]
    BY <1>5, <1>10 DEF named
  <2> QED
    BY <1>1, <2>1, IsASeq
<1> HIDE DEF W
<1>12. Enumerates(listed, KeysIn(named)) /\ KeysIn(named) \subseteq W
  BY <1>3, <1>7, <1>11, InterleaveIs
<1>13. Len(listed) = Cardinality(Range(listed)) /\ Range(listed) = KeysIn(named)
  BY <1>12 DEF Enumerates
<1>14. ASSUME NEW i \in DOMAIN fusedAnswers, docs(i) # <<>>
       PROVE  Len(docs(i)[1].chunks) + docs(i)[1].more <= Cardinality(W)
  <2> DEFINE r == docs(i)[1]
  <2>1. r \in FusedRecords /\ Known(r) <= Cardinality(WordsOf(v[i], d)) /\ i \in 1 .. n
    BY <1>1, <1>8, <1>14
  <2>2. Cardinality(WordsOf(v[i], d)) <= Cardinality(W) /\ WordsOf(v[i], d) \in SUBSET W
    BY <1>7, <2>1
  <2>3. Cardinality(WordsOf(v[i], d)) \in Nat
    BY <1>7, <2>2, FS_Subset, FS_CardinalityType
  <2> HIDE DEF r
  <2>4. Known(r) \in Nat /\ r.more \in Nat /\ r.chunks \in Seq([ord : Nat, score : Nat])
    BY <2>1, ChunksOfAre DEF FusedRecords
  <2>5. Len(r.chunks) \in Nat
    BY <2>4
  <2>6. Len(r.chunks) + r.more <= Cardinality(W)
    BY <1>7, <2>1, <2>2, <2>3, <2>4, <2>5 DEF Known
  <2> QED
    BY <2>6 DEF r
<1>15. ASSUME Unsaturated, NEW p \in W PROVE p \in KeysIn(named)
  <2>1. PICK i \in 1 .. n : p \in WordsOf(v[i], d)
    BY <1>7
  <2>2. AnswerShowsAll(fusedAnswers[i], Inside(v[i], d), d) /\ WordsOf(Inside(v[i], d), d) = WordsOf(v[i], d)
    BY <1>1, <1>2, <1>15 DEF Unsaturated
  <2>3. docs(i) # <<>> /\ ShownBy(docs(i)[1]) = OrdsWithin(WordsOf(v[i], d))
    BY <2>1, <2>2 DEF AnswerShowsAll
  <2>4. p = <<d, p[2]>> /\ p[2] \in OrdsWithin(WordsOf(v[i], d))
    BY <1>7, <2>1 DEF OrdsWithin
  <2>5. p \in Range(named[i])
    BY <1>10, <2>3, <2>4
  <2> QED
    BY <1>5, <2>5 DEF KeysIn
<1>16. Unsaturated => Range(listed) = W
  BY <1>12, <1>13, <1>15
<1> QED
  BY <1>12, <1>13, <1>14, <1>16 DEF DocCountsHonest, W, listed

LEMMA FusionIsHonest == FusionInv => CountsAreHonest
BY LibraryIsHonest, DocIsHonest DEF CountsAreHonest

(* An answer about the own documents says what is known: the counts of a   *)
(* search are never more than there is and a list without a "+" is whole   *)
(* (fuse, mergeVariants and interleave), the refusal of the guards comes   *)
(* before any hit, and the pages of the hits leave none out.               *)
THEOREM AnswersSayWhatIsKnown == Spec => []AnswersFollowTheRecord
<1> DEFINE Inv == (clientPart = "search" => SearchCallInv) /\ (clientPart = "fusion" => FusionInv)
<1>1. Init => Inv
  BY PartStarts, SearchCallStarts, FusionStarts
<1>2. Inv /\ [Next]_vars => Inv'
  BY PartSteps, SearchCallSteps, FusionSteps
<1>3. Inv => AnswersFollowTheRecord
  BY FusionIsHonest DEF AnswersFollowTheRecord, SearchCallInv, CallInv, PagesInv
<1> QED
  BY <1>1, <1>2, <1>3, PTL DEF Spec

-----------------------------------------------------------------------------
LEMMA FunctionsAreSeqs ==
    ASSUME NEW X, NEW n \in Nat, NEW f \in [1 .. n -> X]
    PROVE  f \in Seq(X)
  BY SeqDef

-----------------------------------------------------------------------------
(* Folds along a sequence, step by step.                                   *)
SweepsTo(h, n, base, F, V) ==
    h \in [0 .. n -> V] /\ h[0] = base /\ \A k \in 1 .. n : h[k] = F[<<h[k - 1], k>>]

FoldStep(w, n, base, F, V) ==
    w[{}] = base /\ \A k \in 1 .. n : w[1 .. k - 1] \in V => w[1 .. k] = F[<<w[1 .. k - 1], k>>]

SweepEnds(result, n, base, F, V) == \E h : SweepsTo(h, n, base, F, V) /\ h[n] = result

LEMMA StepsOfFold ==
    ASSUME NEW n \in Nat, NEW V, NEW base \in V, NEW F \in [V \X (1 .. n) -> V], NEW w, FoldStep(w, n, base, F, V),
           NEW result, result = w[1 .. n]
    PROVE  SweepEnds(result, n, base, F, V)
<1> DEFINE h == [k \in 0 .. n |-> w[1 .. k]]
           G == {k \in 0 .. n : w[1 .. k] \in V}
<1>0. w[{}] = base /\ \A k \in 1 .. n : w[1 .. k - 1] \in V => w[1 .. k] = F[<<w[1 .. k - 1], k>>]
  BY DEF FoldStep
<1>1. w[1 .. 0] = base
  <2>1. 1 .. 0 = {}
    OBVIOUS
  <2> QED
    BY <1>0, <2>1
<1>2. \A k \in 0 .. n : k \in G
  <2>1. 0 \in G
    BY <1>1
  <2>2. ASSUME NEW k \in 1 .. n, k - 1 \in G PROVE k \in G
    <3>1. w[1 .. k] = F[<<w[1 .. k - 1], k>>] /\ k \in 0 .. n
      BY <1>0, <2>2
    <3> QED
      BY <2>2, <3>1
  <2> HIDE DEF G
  <2> QED
    BY <2>1, <2>2, UpTo
<1>3. \A k \in 0 .. n : h[k] = w[1 .. k] /\ h[k] \in V
  BY <1>2
<1>4. \A k \in 1 .. n : k \in 0 .. n /\ k - 1 \in 0 .. n
  OBVIOUS
<1>5. h \in [0 .. n -> V]
  BY <1>3
<1>6. 0 \in 0 .. n /\ n \in 0 .. n
  OBVIOUS
<1> HIDE DEF h
<1>7. SweepsTo(h, n, base, F, V)
  BY <1>0, <1>1, <1>3, <1>4, <1>5, <1>6 DEF SweepsTo
<1> QED
  BY <1>3, <1>6, <1>7 DEF SweepEnds

-----------------------------------------------------------------------------
(* Rows: each thing of a kind, and each two that stand side by side meet.  *)
InARow(E, R, a) ==
    /\ a \in Seq(E) /\ Len(a) \in Nat /\ Len(a) > 0 /\ DOMAIN a = 1 .. Len(a)
    /\ \A i \in 1 .. Len(a) : a[i] \in E
    /\ \A i \in 1 .. Len(a) - 1 : <<a[i], a[i + 1]>> \in R

EndsOf(a) == <<a[1], a[Len(a)]>>

LEMMA RowOfOne ==
    ASSUME NEW E, NEW R, NEW x \in E, NEW a, a = <<x>>
    PROVE  InARow(E, R, a) /\ EndsOf(a) = <<x, x>>
<1>1. a \in Seq(E) /\ Len(a) = 1 /\ a[1] = x
  OBVIOUS
<1>2. DOMAIN a = 1 .. 1
  BY <1>1, LenProperties
<1>3. 1 .. 1 - 1 = {} /\ \A i \in 1 .. 1 : i = 1
  OBVIOUS
<1> QED
  BY <1>1, <1>2, <1>3 DEF InARow, EndsOf

Meet(R, a, b) == <<a[Len(a)], b[1]>> \in R
JoinedIn(E, R, a, b, c) == InARow(E, R, c) /\ EndsOf(c) = <<a[1], b[Len(b)]>>

LEMMA RowsJoin ==
    ASSUME NEW E, NEW R, NEW a, NEW b, InARow(E, R, a), InARow(E, R, b), Meet(R, a, b)
    PROVE  JoinedIn(E, R, a, b, a \o b)
<1>0. PICK c : c = a \o b
  OBVIOUS
<1>1. PICK n \in Nat : n = Len(a) /\ n > 0
  BY DEF InARow
<1>2. PICK m \in Nat : m = Len(b) /\ m > 0
  BY DEF InARow
<1>3. a \in Seq(E) /\ b \in Seq(E) /\ a[n] \in E /\ <<a[n], b[1]>> \in R
  BY <1>1 DEF InARow, Meet
<1>4. /\ c \in Seq(E) /\ Len(c) = n + m
      /\ \A i \in 1 .. n + m : c[i] = IF i <= n THEN a[i] ELSE b[i - n]
  BY <1>0, <1>1, <1>2, <1>3, ConcatProperties
<1>12. ASSUME NEW i \in 1 .. n PROVE i \in 1 .. n + m /\ c[i] = a[i]
  BY <1>2, <1>4
<1>13. ASSUME NEW j \in 1 .. m PROVE n + j \in 1 .. n + m /\ c[n + j] = b[j]
  <2>1. PICK p : p = n + j
    OBVIOUS
  <2>2. p \in 1 .. n + m /\ ~(p <= n) /\ p - n = j
    BY <1>1, <1>2, <2>1
  <2>3. c[p] = b[p - n]
    BY <1>4, <2>2
  <2> QED
    BY <2>1, <2>2, <2>3
<1>5. DOMAIN c = 1 .. n + m
  BY <1>4, LenProperties
<1>6. /\ \A i \in 1 .. n : a[i] \in E
      /\ \A i \in 1 .. m : b[i] \in E
      /\ \A i \in 1 .. n - 1 : <<a[i], a[i + 1]>> \in R
      /\ \A i \in 1 .. m - 1 : <<b[i], b[i + 1]>> \in R
  BY <1>1, <1>2 DEF InARow
<1>7. ASSUME NEW i \in 1 .. n + m PROVE c[i] \in E
  <2>1. i <= n \/ i - n \in 1 .. m
    BY <1>1, <1>2
  <2>2. i <= n => i \in 1 .. n
    OBVIOUS
  <2>3. ~(i <= n) => i - n \in 1 .. m
    BY <2>1
  <2> QED
    BY <1>4, <1>6, <2>2, <2>3
<1>8. ASSUME NEW i \in 1 .. n + m - 1 PROVE <<c[i], c[i + 1]>> \in R
  <2>1. i \in 1 .. n + m /\ i + 1 \in 1 .. n + m
    BY <1>1, <1>2
  <2>2. CASE i < n
    <3>1. i \in 1 .. n - 1 /\ i + 1 \in 1 .. n /\ i \in 1 .. n
      BY <1>1, <2>2
    <3>2. c[i] = a[i] /\ c[i + 1] = a[i + 1]
      BY <1>12, <3>1
    <3> QED
      BY <1>6, <3>1, <3>2
  <2>3. CASE i = n
    <3>1. n \in 1 .. n /\ 1 \in 1 .. m
      BY <1>1, <1>2
    <3>2. c[n] = a[n] /\ c[n + 1] = b[1]
      BY <1>12, <1>13, <3>1
    <3> QED
      BY <1>3, <2>3, <3>1, <3>2
  <2>4. CASE i > n
    <3>1. PICK j \in 1 .. m - 1 : i = n + j
      <4>1. i - n \in 1 .. m - 1 /\ i = n + (i - n)
        BY <1>1, <1>2, <2>4
      <4> QED
        BY <4>1
    <3>2. PICK k \in 1 .. m : k = j + 1 /\ i + 1 = n + k
      <4>1. j + 1 \in 1 .. m /\ i + 1 = n + (j + 1)
        BY <1>1, <1>2, <3>1
      <4> QED
        BY <4>1
    <3>3. j \in 1 .. m
      BY <1>2
    <3>4. c[i] = b[j] /\ c[i + 1] = b[k]
      BY <1>13, <3>1, <3>2, <3>3
    <3> QED
      BY <1>6, <3>2, <3>4
  <2>5. i < n \/ i = n \/ i > n
    BY <1>1, <1>2
  <2> QED
    BY <2>2, <2>3, <2>4, <2>5
<1>9. c[1] = a[1] /\ c[n + m] = b[m]
  <2>1. 1 \in 1 .. n /\ m \in 1 .. m
    BY <1>1, <1>2
  <2> QED
    BY <1>12, <1>13, <2>1
<1>10. Len(c) \in Nat /\ Len(c) > 0
  BY <1>1, <1>2, <1>4
<1>11. InARow(E, R, c)
  BY <1>4, <1>5, <1>7, <1>8, <1>10 DEF InARow
<1> QED
  BY <1>0, <1>1, <1>2, <1>4, <1>9, <1>11 DEF EndsOf, JoinedIn

\* Another in the place of the last one.
StandsFor(E, R, a, y) == \A x \in E : <<x, a[Len(a)]>> \in R => <<x, y>> \in R
ReplacedIn(E, R, a, y, c) == InARow(E, R, c) /\ EndsOf(c) = <<IF Len(a) = 1 THEN y ELSE a[1], y>>

LEMMA LastReplaced ==
    ASSUME NEW E, NEW R, NEW a, InARow(E, R, a), NEW y \in E, StandsFor(E, R, a, y)
    PROVE  ReplacedIn(E, R, a, y, Front(a) \o <<y>>)
<1>0. PICK c : c = Front(a) \o <<y>>
  OBVIOUS
<1>1. PICK n \in Nat : n = Len(a) /\ n > 0
  BY DEF InARow
<1>2. a \in Seq(E) /\ \A i \in 1 .. n : a[i] \in E
  BY <1>1 DEF InARow
<1>3. \A i \in 1 .. n - 1 : <<a[i], a[i + 1]>> \in R
  BY <1>1 DEF InARow
<1>4. PICK f : f = Front(a)
  OBVIOUS
<1>5. f = SubSeq(a, 1, n - 1)
  BY <1>1, <1>4 DEF Front
<1>6. f \in Seq(E) /\ Len(f) = n - 1 /\ \A i \in 1 .. n - 1 : f[i] = a[i]
  <2>1. 1 \in 1 .. n + 1 /\ n - 1 \in 0 .. n /\ n - 1 - 1 + 1 = n - 1 /\ \A i \in 1 .. n - 1 : 1 + i - 1 = i
    BY <1>1
  <2>2. n - 1 \in 1 - 1 .. Len(a)
    BY <1>1
  <2> QED
    BY <1>1, <1>2, <1>5, <2>1, <2>2, SubSeqProperties
<1>7. InARow(E, R, <<y>>) /\ EndsOf(<<y>>) = <<y, y>>
  BY RowOfOne
<1>8. CASE n = 1
  <2>1. f = <<>>
    BY <1>6, <1>8, EmptySeq
  <2>2. <<y>> \in Seq(E)
    OBVIOUS
  <2>3. c = <<y>>
    BY <1>0, <1>4, <2>1, <2>2, ConcatEmptySeq
  <2> QED
    BY <1>0, <1>1, <1>7, <1>8, <2>3 DEF ReplacedIn
<1>9. CASE n # 1
  <2>1. n - 1 \in 1 .. n - 1 /\ 1 \in 1 .. n - 1 /\ n - 1 \in Nat /\ n - 1 > 0 /\ n - 1 \in 1 .. n /\ n - 1 + 1 = n
    BY <1>1, <1>9
  <2>2. DOMAIN f = 1 .. n - 1
    BY <1>6, LenProperties
  <2>3. \A i \in 1 .. n - 1 : f[i] \in E
    <3>1. \A i \in 1 .. n - 1 : i \in 1 .. n
      OBVIOUS
    <3> QED
      BY <1>2, <1>6, <3>1
  <2>4. \A i \in 1 .. n - 1 - 1 : <<f[i], f[i + 1]>> \in R
    <3>1. \A i \in 1 .. n - 1 - 1 : i \in 1 .. n - 1 /\ i + 1 \in 1 .. n - 1
      OBVIOUS
    <3> QED
      BY <1>3, <1>6, <3>1
  <2>5. InARow(E, R, f)
    BY <1>6, <2>1, <2>2, <2>3, <2>4 DEF InARow
  <2>6. f[Len(f)] = a[n - 1] /\ a[n - 1] \in E /\ <<a[n - 1], y>> \in R /\ f[1] = a[1]
    <3>1. <<a[n - 1], a[n]>> \in R /\ a[n - 1] \in E
      BY <1>2, <1>3, <2>1
    <3>2. <<a[n - 1], y>> \in R
      BY <1>1, <3>1 DEF StandsFor
    <3> QED
      BY <1>6, <2>1, <3>1, <3>2
  <2>7. PICK one : one = <<y>>
    OBVIOUS
  <2>8. Len(one) = 1 /\ one[1] = y /\ InARow(E, R, one)
    BY <1>7, <2>7
  <2>10. <<f[Len(f)], one[1]>> \in R
    BY <1>1, <2>6, <2>8
  <2>11. c = f \o one
    BY <1>0, <1>4, <2>7
  <2>9. InARow(E, R, c) /\ EndsOf(c) = <<f[1], one[Len(one)]>>
    <3>1. Meet(R, f, one)
      BY <2>10 DEF Meet
    <3>2. JoinedIn(E, R, f, one, f \o one)
      BY <2>5, <2>8, <3>1, RowsJoin
    <3> QED
      BY <2>11, <3>2 DEF JoinedIn
  <2> QED
    BY <1>0, <1>1, <1>9, <2>6, <2>8, <2>9 DEF ReplacedIn
<1> QED
  BY <1>8, <1>9

-----------------------------------------------------------------------------
(* What lies in a range: its pages, and what is before and after them.     *)
Extents == [start : Nat, end : Nat]
RealSpans == {s \in Extents : s.start <= s.end}
Touching == {st \in Extents \X Extents : st[1].end = st[2].start}

\* Pages as the store has them: each begins where the one before it ends.
PagesMeet(pages, n) ==
    /\ n \in Nat /\ n = Len(pages) /\ DOMAIN pages = 1 .. n
    /\ \A k \in 1 .. n : pages[k].start \in Nat /\ pages[k].end \in Nat /\ pages[k].start <= pages[k].end
    /\ \A k \in 2 .. n : pages[k].start = pages[k - 1].end

IsRange(range) == range \in Extents /\ range.start < range.end

GreaterIs(g, a, b) == g \in Nat /\ (a >= b => g = a) /\ (b >= a => g = b)
LesserIs(l, a, b) == l \in Nat /\ (a <= b => l = a) /\ (b <= a => l = b)

LEMMA OfTwo ==
    ASSUME NEW a \in Nat, NEW b \in Nat
    PROVE  GreaterIs(Greatest({a, b}), a, b) /\ LesserIs(Least({a, b}), a, b)
<1>1. \E n \in {a, b} : \A m \in {a, b} : n >= m
  <2>1. CASE a >= b
    BY <2>1
  <2>2. CASE ~(a >= b)
    BY <2>2
  <2> QED
    BY <2>1, <2>2
<1>2. \E n \in {a, b} : \A m \in {a, b} : n <= m
  <2>1. CASE a <= b
    BY <2>1
  <2>2. CASE ~(a <= b)
    BY <2>2
  <2> QED
    BY <2>1, <2>2
<1>3. Greatest({a, b}) \in {a, b} /\ \A m \in {a, b} : Greatest({a, b}) >= m
  BY <1>1 DEF Greatest
<1>4. Least({a, b}) \in {a, b} /\ \A m \in {a, b} : Least({a, b}) <= m
  BY <1>2 DEF Least
<1> QED
  BY <1>3, <1>4 DEF GreaterIs, LesserIs

Clipped(range, pages) == FoldLeft(LAMBDA parts, p : Clip(range, parts, p), <<>>, pages)
ClippedBy(range, pages, n) == [q \in Seq(Extents) \X (1 .. n) |-> Clip(range, q[1], pages[q[2]])]
PartOf(range, p) == [start |-> Greatest({p.start, range.start}), end |-> Least({p.end, range.end})]

LEMMA PartIsReal ==
    ASSUME NEW range, IsRange(range), NEW p, p.start \in Nat, p.end \in Nat, p.start <= p.end
    PROVE  /\ PartOf(range, p) \in Extents
           /\ GreaterIs(PartOf(range, p).start, p.start, range.start)
           /\ LesserIs(PartOf(range, p).end, p.end, range.end)
           /\ p.end > range.start /\ p.start < range.end => PartOf(range, p) \in RealSpans
<1>1. range.start \in Nat /\ range.end \in Nat /\ range.start < range.end
  BY DEF IsRange, Extents
<1>2. /\ GreaterIs(PartOf(range, p).start, p.start, range.start)
      /\ LesserIs(PartOf(range, p).end, p.end, range.end)
  BY <1>1, OfTwo DEF PartOf
<1>3. PartOf(range, p) \in Extents
  BY <1>2 DEF PartOf, Extents, GreaterIs, LesserIs
<1>4. ASSUME p.end > range.start, p.start < range.end PROVE PartOf(range, p).start <= PartOf(range, p).end
  BY <1>1, <1>2, <1>4 DEF GreaterIs, LesserIs
<1> QED
  BY <1>2, <1>3, <1>4 DEF RealSpans

LEMMA ClipType ==
    ASSUME NEW range, IsRange(range), NEW pages, NEW n, PagesMeet(pages, n), NEW v \in Seq(Extents), NEW k \in 1 .. n
    PROVE  Clip(range, v, pages[k]) \in Seq(Extents)
<1>1. pages[k].start \in Nat /\ pages[k].end \in Nat /\ pages[k].start <= pages[k].end
  BY DEF PagesMeet
<1>2. PartOf(range, pages[k]) \in Extents
  BY <1>1, PartIsReal
<1>3. Append(v, PartOf(range, pages[k])) \in Seq(Extents)
  BY <1>2, AppendProperties
<1> QED
  BY <1>3 DEF Clip, PartOf

LEMMA ClipsUnfold ==
    ASSUME NEW range, IsRange(range), NEW pages, NEW n, PagesMeet(pages, n)
    PROVE  SweepEnds(Clipped(range, pages), n, <<>>, ClippedBy(range, pages, n), Seq(Extents))
<1> DEFINE V == Seq(Extents)
           F == ClippedBy(range, pages, n)
           Solves(g) == g = [s \in SUBSET DOMAIN pages |->
                                IF s = {} THEN <<>> ELSE Clip(range, g[s \ {Highest(s)}], pages[Highest(s)])]
<1>0. n \in Nat /\ DOMAIN pages = 1 .. n
  BY DEF PagesMeet
<1>1. F \in [V \X (1 .. n) -> V]
  BY ClipType DEF ClippedBy
<1>2. <<>> \in V
  OBVIOUS
<1>3. \A v \in V, k \in 1 .. n : F[<<v, k>>] = Clip(range, v, pages[k])
  BY DEF ClippedBy
<1> HIDE DEF V, F
<1>4. PICK g \in [SUBSET (1 .. n) -> V] : FoldsAlong(g, n, <<>>, F)
  BY <1>0, <1>1, <1>2, FoldExists
<1>5. ASSUME NEW s \in SUBSET (1 .. n)
      PROVE  g[s] = IF s = {} THEN <<>> ELSE Clip(range, g[s \ {Highest(s)}], pages[Highest(s)])
  <2>1. CASE s # {}
    <3>1. Highest(s) \in 1 .. n /\ g[s \ {Highest(s)}] \in V
      BY <1>0, <1>4, <2>1, HighestOf
    <3>2. g[s] = F[<<g[s \ {Highest(s)}], Highest(s)>>]
      BY <1>4, <2>1 DEF FoldsAlong
    <3> QED
      BY <1>3, <2>1, <3>1, <3>2
  <2> QED
    BY <1>4, <2>1 DEF FoldsAlong
<1>6. Solves(g)
  BY <1>0, <1>4, <1>5
<1>7. Solves(CHOOSE x : Solves(x))
  BY <1>6
<1>8. Clipped(range, pages) = (CHOOSE x : Solves(x))[1 .. n]
  BY <1>0 DEF Clipped, FoldLeft, MapThenFoldSet, Highest, Max
<1>9. ASSUME NEW x, Solves(x), NEW k \in 1 .. n, x[1 .. k - 1] \in V PROVE x[1 .. k] = F[<<x[1 .. k - 1], k>>]
  <2>1. 1 .. k \in SUBSET (1 .. n) /\ 1 .. k # {} /\ Highest(1 .. k) = k /\ (1 .. k) \ {k} = 1 .. k - 1
    BY <1>0, FoldOfInterval
  <2>0. \A s \in SUBSET (1 .. n) :
           x[s] = IF s = {} THEN <<>> ELSE Clip(range, x[s \ {Highest(s)}], pages[Highest(s)])
    BY <1>0, <1>9
  <2>2. x[1 .. k] = Clip(range, x[1 .. k - 1], pages[k])
    BY <2>0, <2>1
  <2> QED
    BY <1>3, <1>9, <2>2
<1>10. ASSUME NEW x, Solves(x) PROVE x[{}] = <<>>
  BY <1>10
<1> DEFINE w == CHOOSE x : Solves(x)
<1> HIDE DEF w
<1>11. Solves(w) /\ Clipped(range, pages) = w[1 .. n]
  BY <1>7, <1>8 DEF w
<1> HIDE DEF Solves
<1>12. SweepEnds(Clipped(range, pages), n, <<>>, F, V)
  <2>1. FoldStep(w, n, <<>>, F, V)
    BY <1>9, <1>10, <1>11 DEF FoldStep
  <2> QED
    BY <1>0, <1>1, <1>2, <1>11, <2>1, StepsOfFold
<1> QED
  BY <1>12 DEF V, F

ClipHolds(range, pages, k, parts) ==
    parts # <<>> =>
        /\ k > 0 /\ InARow(RealSpans, Touching, parts)
        /\ parts[1].start >= range.start
        /\ LesserIs(parts[Len(parts)].end, pages[k].end, range.end)
        /\ parts[Len(parts)].end > range.start

LEMMA ClipKeeps ==
    ASSUME NEW range, IsRange(range), NEW pages, NEW n, PagesMeet(pages, n), NEW v \in Seq(Extents), NEW k \in 1 .. n,
           ClipHolds(range, pages, k - 1, v)
    PROVE  ClipHolds(range, pages, k, Clip(range, v, pages[k]))
<1>0. range.start \in Nat /\ range.end \in Nat /\ range.start < range.end
  BY DEF IsRange, Extents
<1>1. pages[k].start \in Nat /\ pages[k].end \in Nat /\ pages[k].start <= pages[k].end
  BY DEF PagesMeet
<1>2. k - 1 > 0 => /\ pages[k - 1].start \in Nat /\ pages[k - 1].end \in Nat
                   /\ pages[k].start = pages[k - 1].end
  <2>1. n \in Nat
    BY DEF PagesMeet
  <2>2. k - 1 > 0 => k \in 2 .. n /\ k - 1 \in 1 .. n
    BY <2>1
  <2> QED
    BY <2>2 DEF PagesMeet
<1>3. PICK part : part = PartOf(range, pages[k])
  OBVIOUS
<1>4. /\ part \in Extents
      /\ GreaterIs(part.start, pages[k].start, range.start)
      /\ LesserIs(part.end, pages[k].end, range.end)
      /\ pages[k].end > range.start /\ pages[k].start < range.end => part \in RealSpans
  BY <1>1, <1>3, PartIsReal
<1>5. PICK w : w = Clip(range, v, pages[k])
  OBVIOUS
<1>6. CASE pages[k].end > range.start /\ pages[k].start < range.end
  <2>1. w = Append(v, part) /\ part \in RealSpans
    BY <1>3, <1>4, <1>5, <1>6 DEF Clip, PartOf
  <2>2. PICK one : one = <<part>>
    OBVIOUS
  <2>3. InARow(RealSpans, Touching, one) /\ EndsOf(one) = <<part, part>>
    BY <2>1, <2>2, RowOfOne
  <2>4. one[1] = part /\ one[Len(one)] = part
    BY <2>3 DEF EndsOf
  <2>5. w = v \o one
    BY <2>1, <2>2, AppendProperties, ConcatProperties
  <2>6. part.end > range.start /\ part.start >= range.start
    BY <1>0, <1>1, <1>4, <1>6 DEF LesserIs, GreaterIs
  <2>7. CASE v = <<>>
    <3>1. w = one
      <4>1. one \in Seq(Extents)
        BY <1>4, <2>2
      <4> QED
        BY <2>5, <2>7, <4>1, ConcatEmptySeq
    <3>2. LesserIs(one[Len(one)].end, pages[k].end, range.end) /\ one[Len(one)].end > range.start /\ one[1].start >= range.start
      BY <1>4, <2>4, <2>6
    <3> QED
      BY <1>5, <2>3, <3>1, <3>2 DEF ClipHolds
  <2>8. CASE v # <<>>
    <3>1. /\ k - 1 > 0 /\ InARow(RealSpans, Touching, v)
          /\ v[1].start >= range.start
          /\ LesserIs(v[Len(v)].end, pages[k - 1].end, range.end)
          /\ v[Len(v)].end > range.start
      BY <2>8 DEF ClipHolds
    <3>2. PICK last : last = v[Len(v)]
      OBVIOUS
    <3>3. last \in Extents
      <4>1. Len(v) \in 1 .. Len(v)
        BY <3>1 DEF InARow
      <4> QED
        BY <3>1, <3>2, <4>1 DEF InARow, RealSpans
    <3>4. last.end = part.start
      BY <1>0, <1>1, <1>2, <1>4, <1>6, <3>1, <3>2 DEF LesserIs, GreaterIs
    <3>5. Meet(Touching, v, one)
      BY <1>4, <2>4, <3>2, <3>3, <3>4 DEF Meet, Touching
    <3>6. JoinedIn(RealSpans, Touching, v, one, w)
      BY <2>3, <2>5, <3>1, <3>5, RowsJoin
    <3>7. InARow(RealSpans, Touching, w) /\ w[1] = v[1] /\ w[Len(w)] = part
      BY <2>4, <3>6 DEF JoinedIn, EndsOf
    <3> QED
      BY <1>4, <1>5, <2>6, <3>1, <3>7 DEF ClipHolds
  <2> QED
    BY <2>7, <2>8
<1>7. CASE ~(pages[k].end > range.start /\ pages[k].start < range.end)
  <2>1. w = v
    BY <1>5, <1>7 DEF Clip
  <2>2. ASSUME v # <<>> PROVE ClipHolds(range, pages, k, v)
    <3>1. /\ k - 1 > 0 /\ InARow(RealSpans, Touching, v)
          /\ v[1].start >= range.start
          /\ LesserIs(v[Len(v)].end, pages[k - 1].end, range.end)
          /\ v[Len(v)].end > range.start
      BY <2>2 DEF ClipHolds
    <3>2. LesserIs(v[Len(v)].end, pages[k].end, range.end)
      BY <1>0, <1>1, <1>2, <1>7, <3>1 DEF LesserIs
    <3> QED
      BY <3>1, <3>2 DEF ClipHolds
  <2>3. v = <<>> => ClipHolds(range, pages, k, v)
    BY DEF ClipHolds
  <2> QED
    BY <1>5, <2>1, <2>2, <2>3
<1> QED
  BY <1>6, <1>7

LEMMA PartsAreClipped ==
    ASSUME NEW range, IsRange(range), NEW pages, NEW n, PagesMeet(pages, n)
    PROVE  Clipped(range, pages) \in Seq(Extents) /\ ClipHolds(range, pages, n, Clipped(range, pages))
<1>1. PICK h : SweepsTo(h, n, <<>>, ClippedBy(range, pages, n), Seq(Extents)) /\ h[n] = Clipped(range, pages)
  BY ClipsUnfold DEF SweepEnds
<1>2. n \in Nat /\ h \in [0 .. n -> Seq(Extents)] /\ h[0] = <<>>
  BY <1>1 DEF SweepsTo, PagesMeet
<1>3. ASSUME NEW k \in 1 .. n PROVE h[k - 1] \in Seq(Extents) /\ h[k] = Clip(range, h[k - 1], pages[k])
  <2>1. k - 1 \in 0 .. n
    BY <1>2
  <2>2. h[k - 1] \in Seq(Extents)
    BY <1>2, <2>1
  <2>3. h[k] = ClippedBy(range, pages, n)[<<h[k - 1], k>>]
    BY <1>1 DEF SweepsTo
  <2> QED
    BY <2>2, <2>3 DEF ClippedBy
<1> DEFINE G == {k \in 0 .. n : ClipHolds(range, pages, k, h[k])}
<1>4. 0 \in G
  BY <1>2 DEF ClipHolds
<1>5. ASSUME NEW k \in 1 .. n, k - 1 \in G PROVE k \in G
  <2>1. ClipHolds(range, pages, k - 1, h[k - 1])
    BY <1>5
  <2>2. ClipHolds(range, pages, k, h[k])
    BY <1>3, <2>1, ClipKeeps
  <2> QED
    BY <1>2, <2>2
<1>6. n \in G
  <2> HIDE DEF G
  <2>1. \A k \in 0 .. n : k \in G
    BY <1>2, <1>4, <1>5, UpTo
  <2> QED
    BY <1>2, <2>1
<1>7. ClipHolds(range, pages, n, h[n]) /\ h[n] \in Seq(Extents)
  BY <1>2, <1>6
<1> QED
  BY <1>1, <1>7

\* Parts that follow one another from one place to another.
Tiles(segs, from, to) ==
    InARow(RealSpans, Touching, segs) /\ segs[1].start = from /\ segs[Len(segs)].end = to

LEMMA OneTile ==
    ASSUME NEW a \in Nat, NEW b \in Nat, a <= b
    PROVE  Tiles(<<[start |-> a, end |-> b]>>, a, b)
<1>1. PICK s : s = [start |-> a, end |-> b]
  OBVIOUS
<1>2. s \in RealSpans /\ s.start = a /\ s.end = b
  BY <1>1 DEF RealSpans, Extents
<1>3. PICK one : one = <<s>>
  OBVIOUS
<1>4. InARow(RealSpans, Touching, one) /\ EndsOf(one) = <<s, s>>
  BY <1>2, <1>3, RowOfOne
<1>5. one[1] = s /\ one[Len(one)] = s
  BY <1>4 DEF EndsOf
<1> QED
  BY <1>1, <1>2, <1>3, <1>4, <1>5 DEF Tiles

LEMMA TilesJoin ==
    ASSUME NEW a, NEW b, NEW c, NEW s, NEW t, Tiles(s, a, b), Tiles(t, b, c)
    PROVE  Tiles(s \o t, a, c)
<1>1. s[Len(s)] \in Extents /\ t[1] \in Extents
  <2>1. Len(s) \in 1 .. Len(s) /\ 1 \in 1 .. Len(t)
    BY DEF Tiles, InARow
  <2> QED
    BY <2>1 DEF Tiles, InARow, RealSpans
<1>2. Meet(Touching, s, t)
  BY <1>1 DEF Meet, Touching, Tiles
<1>3. JoinedIn(RealSpans, Touching, s, t, s \o t)
  BY <1>2, RowsJoin DEF Tiles
<1>4. PICK st : st = s \o t
  OBVIOUS
<1>5. st[1] = s[1] /\ st[Len(st)] = t[Len(t)] /\ InARow(RealSpans, Touching, st)
  BY <1>3, <1>4 DEF JoinedIn, EndsOf
<1> QED
  BY <1>4, <1>5 DEF Tiles

\* The parts of a range are all of it, one after the other.
LEMMA SegmentsTile ==
    ASSUME NEW range, IsRange(range), NEW pages, NEW n, PagesMeet(pages, n)
    PROVE  Tiles(PageSegments(range, pages), range.start, range.end)
<1>0. range.start \in Nat /\ range.end \in Nat /\ range.start < range.end
      /\ range = [start |-> range.start, end |-> range.end]
  BY DEF IsRange, Extents
<1>1. PICK parts \in Seq(Extents) : parts = Clipped(range, pages) /\ ClipHolds(range, pages, n, parts)
  BY PartsAreClipped
<1> DEFINE before == IF parts[1].start > range.start THEN <<[start |-> range.start, end |-> parts[1].start]>> ELSE <<>>
           after == IF Last(parts).end < range.end THEN <<[start |-> Last(parts).end, end |-> range.end]>> ELSE <<>>
<1>2. PageSegments(range, pages) = IF parts = <<>> THEN <<range>> ELSE before \o parts \o after
  BY <1>1 DEF PageSegments, Clipped
<1>3. CASE parts = <<>>
  <2>1. Tiles(<<range>>, range.start, range.end)
    BY <1>0, OneTile
  <2> QED
    BY <1>2, <1>3, <2>1
<1>4. CASE parts # <<>>
  <2>1. /\ n > 0 /\ InARow(RealSpans, Touching, parts)
        /\ parts[1].start >= range.start
        /\ LesserIs(parts[Len(parts)].end, pages[n].end, range.end)
    BY <1>1, <1>4 DEF ClipHolds
  <2>2. PICK x \in Nat : x = parts[1].start /\ range.start <= x
    <3>1. 1 \in 1 .. Len(parts)
      BY <2>1 DEF InARow
    <3> QED
      BY <2>1, <3>1 DEF InARow, RealSpans, Extents
  <2>3. PICK y \in Nat : y = Last(parts).end /\ y = parts[Len(parts)].end /\ y <= range.end
    <3>1. pages[n].end \in Nat /\ n \in Nat
      <4>1. n \in Nat
        BY DEF PagesMeet
      <4>2. n \in 1 .. n
        BY <2>1, <4>1
      <4> QED
        BY <4>1, <4>2 DEF PagesMeet
    <3>2. Last(parts) = parts[Len(parts)]
      BY DEF Last
    <3> QED
      BY <1>0, <2>1, <3>1, <3>2 DEF LesserIs
  <2>4. Tiles(parts, x, y)
    BY <2>1, <2>2, <2>3 DEF Tiles
  <2>5. Tiles(before \o parts, range.start, y)
    <3>1. CASE x > range.start
      <4>1. Tiles(before, range.start, x)
        BY <1>0, <2>2, <3>1, OneTile
      <4> HIDE DEF before
      <4> QED
        BY <2>4, <4>1, TilesJoin
    <3>2. CASE ~(x > range.start)
      <4>1. before = <<>> /\ x = range.start
        BY <1>0, <2>2, <3>2
      <4>2. before \o parts = parts
        BY <4>1, ConcatEmptySeq
      <4> HIDE DEF before
      <4> QED
        BY <2>4, <4>1, <4>2
    <3> QED
      BY <3>1, <3>2
  <2>6. PICK most : most = before \o parts
    OBVIOUS
  <2>7. Tiles(most, range.start, y)
    BY <2>5, <2>6
  <2>8. Tiles(most \o after, range.start, range.end)
    <3>1. CASE y < range.end
      <4>1. Tiles(after, y, range.end)
        BY <1>0, <2>3, <3>1, OneTile
      <4> HIDE DEF after
      <4> QED
        BY <2>7, <4>1, TilesJoin
    <3>2. CASE ~(y < range.end)
      <4>1. after = <<>> /\ y = range.end
        BY <1>0, <2>3, <3>2
      <4>2. most \in Seq(RealSpans)
        BY <2>7 DEF Tiles, InARow
      <4>3. most \o after = most
        BY <4>1, <4>2, ConcatEmptySeq
      <4> HIDE DEF after
      <4> QED
        BY <2>7, <4>1, <4>3
    <3> QED
      BY <3>1, <3>2
  <2> QED
    BY <1>2, <1>4, <2>6, <2>8
<1> QED
  BY <1>3, <1>4

-----------------------------------------------------------------------------
(* A part longer than a window, cut evenly.                                *)
CeilIs(c, a, b) == c \in Nat /\ c * b >= a /\ (c - 1) * b < a /\ (a > 0 => c > 0)

LEMMA CeilOf ==
    ASSUME NEW a \in Nat, NEW b \in Nat, b > 0
    PROVE  CeilIs(Ceil(a, b), a, b)
<1>1. PICK c : c = (a + b - 1) \div b
  OBVIOUS
<1>2. c \in Int /\ c * b <= a + b - 1 /\ a + b - 1 < c * b + b
  BY <1>1
<1>3. (c - 1) * b = c * b - b
  BY <1>2
<1>4. c >= 0
  <2>1. ASSUME c < 0 PROVE FALSE
    <3>1. c <= -1
      BY <1>2, <2>1
    <3>2. PICK d \in Nat : d = -1 - c
      BY <1>2, <3>1
    <3>3. c = -1 - d
      BY <1>2, <3>2
    <3>4. c * b = -b - d * b /\ d * b >= 0
      BY <3>2, <3>3
    <3> QED
      BY <1>2, <3>4
  <2> QED
    BY <1>2, <2>1
<1>5. a > 0 => c > 0
  <2>1. c = 0 => c * b = 0
    OBVIOUS
  <2> QED
    BY <1>2, <1>4, <2>1
<1> QED
  BY <1>1, <1>2, <1>3, <1>4, <1>5 DEF CeilIs, Ceil

CutsOf(len, n, size) ==
    /\ n \in Nat /\ size \in Nat /\ n >= 2 /\ size > 0
    /\ n * size >= len /\ size <= WindowChars - SnapSlack
    /\ (n - 1) * (WindowChars - SnapSlack) < len

LEMMA CutsAre ==
    ASSUME NEW len \in Nat, len > WindowChars
    PROVE  LET n == Ceil(len, WindowChars - SnapSlack) IN CutsOf(len, n, Ceil(len, n))
<1>1. PICK w \in Nat, slack \in Nat : w = WindowChars /\ slack = SnapSlack /\ slack > 0 /\ w > 3 * slack
  BY ReadAssumption
<1>2. PICK step \in Nat : step = w - slack /\ step > 0 /\ step < len
  <2>1. w - slack \in Nat /\ w - slack > 0 /\ w - slack < len
    BY <1>1
  <2> QED
    BY <2>1
<1>3. PICK n : n = Ceil(len, step)
  OBVIOUS
<1>4. n \in Nat /\ n * step >= len /\ (n - 1) * step < len /\ n > 0
  BY <1>2, <1>3, CeilOf DEF CeilIs
<1>5. n >= 2
  <2>1. n = 1 => n * step = step
    BY <1>2
  <2> QED
    BY <1>2, <1>4, <2>1
<1>6. PICK size : size = Ceil(len, n)
  OBVIOUS
<1>7. size \in Nat /\ size * n >= len /\ (size - 1) * n < len /\ size > 0
  BY <1>1, <1>4, <1>6, CeilOf DEF CeilIs
<1>8. size <= step
  <2>1. ASSUME size > step PROVE FALSE
    <3>1. PICK more \in Nat : more = size - 1 - step
      BY <1>2, <1>7, <2>1
    <3>2. size - 1 = step + more
      BY <1>2, <1>7, <3>1
    <3>3. (step + more) * n = step * n + more * n
      BY <1>2, <1>4, <3>1
    <3>4. more * n >= 0
      BY <1>4, <3>1
    <3>5. step * n = n * step
      BY <1>2, <1>4
    <3> QED
      BY <1>2, <1>4, <1>7, <3>2, <3>3, <3>4, <3>5
  <2> QED
    BY <1>2, <1>7, <2>1
<1>9. n * size >= len
  BY <1>4, <1>7
<1>10. CutsOf(len, n, size)
  BY <1>1, <1>2, <1>4, <1>5, <1>7, <1>8, <1>9 DEF CutsOf
<1> QED
  BY <1>1, <1>2, <1>3, <1>6, <1>10

\* Cut evenly, a text of this length is nowhere cut so short that a window's ends could pass each other.
LongCuts(len) ==
    LET n == Ceil(len, WindowChars - SnapSlack)
    IN  (n - 1) * Ceil(len, n) + SnapSlack < len

\* Every text of a length that the lengths of windows justify is cut so.
LEMMA TextsCutLong ==
    ASSUME NEW len \in Nat, len > WindowChars,
           len <= (WindowChars - SnapSlack) * (WindowChars - 3 * SnapSlack)
    PROVE  LongCuts(len)
<1>1. PICK w \in Nat, slack \in Nat : w = WindowChars /\ slack = SnapSlack /\ slack > 0 /\ w > 3 * slack
  BY ReadAssumption
<1>2. PICK step \in Nat : step = w - slack /\ step > 0
  <2>1. w - slack \in Nat /\ w - slack > 0
    BY <1>1
  <2> QED
    BY <2>1
<1>3. PICK n, size : n = Ceil(len, step) /\ size = Ceil(len, n)
  OBVIOUS
<1>4. CutsOf(len, n, size)
  BY <1>1, <1>2, <1>3, CutsAre
<1>5. /\ n \in Nat /\ size \in Nat /\ n >= 2 /\ size > 0
      /\ n * size >= len /\ (n - 1) * step < len
  BY <1>1, <1>2, <1>4 DEF CutsOf
<1>6. (size - 1) * n < len
  BY <1>1, <1>3, <1>5, CeilOf DEF CeilIs
<1>7. PICK m \in Nat : m = n - 1 /\ m >= 1 /\ n = m + 1
  <2>1. n - 1 \in Nat /\ n - 1 >= 1 /\ n = n - 1 + 1
    BY <1>5
  <2> QED
    BY <2>1
<1>8. n <= step - 2 * slack
  <2>1. PICK most \in Nat : most = step - 2 * slack
    BY <1>1, <1>2
  <2>2. len <= step * most
    BY <1>1, <1>2, <2>1
  <2>3. ASSUME m >= most PROVE FALSE
    <3>1. PICK d \in Nat : d = m - most
      BY <1>7, <2>1, <2>3
    <3>2. m = most + d
      BY <1>7, <2>1, <3>1
    <3>3. m * step = most * step + d * step /\ d * step >= 0
      BY <1>2, <2>1, <3>1, <3>2
    <3>4. most * step = step * most
      BY <1>2, <2>1
    <3>5. m * step < len
      BY <1>5, <1>7
    <3> QED
      BY <1>2, <1>7, <2>1, <2>2, <3>3, <3>4, <3>5
  <2> QED
    BY <1>7, <2>1, <2>3
<1>9. size > m + slack
  <2>1. ASSUME size <= m + slack PROVE FALSE
    <3>1. PICK e \in Nat : e = m + slack - size
      BY <1>1, <1>5, <1>7, <2>1
    <3>2. n * (m + slack) = n * size + n * e /\ n * e >= 0
      <4>1. m + slack = size + e
        BY <1>1, <1>5, <1>7, <3>1
      <4> QED
        BY <1>5, <3>1, <4>1
    <3>3. n * (m + slack) = m * n + n * slack
      BY <1>1, <1>5, <1>7
    <3>4. n * slack = m * slack + slack /\ m * slack >= slack
      <4>1. n * slack = m * slack + slack
        BY <1>1, <1>7
      <4>2. PICK l \in Nat : m = 1 + l
        <5>1. m - 1 \in Nat /\ m = 1 + (m - 1)
          BY <1>7
        <5> QED
          BY <5>1
      <4>3. m * slack = slack + l * slack /\ l * slack >= 0
        BY <1>1, <4>2
      <4> QED
        BY <1>1, <1>7, <4>1, <4>3
    <3>5. PICK r \in Nat : step = n + 2 * slack + r
      <4>1. step - n - 2 * slack \in Nat /\ step = n + 2 * slack + (step - n - 2 * slack)
        BY <1>1, <1>2, <1>5, <1>8
      <4> QED
        BY <4>1
    <3>6. m * step = m * n + 2 * (m * slack) + m * r /\ m * r >= 0
      BY <1>1, <1>5, <1>7, <3>5
    <3>7. m * step < len
      BY <1>5, <1>7
    <3>8. m * n \in Nat /\ m * slack \in Nat /\ n * size \in Nat /\ n * e \in Nat /\ m * r \in Nat /\ n * slack \in Nat /\ m * step \in Nat
      BY <1>1, <1>2, <1>5, <1>7, <3>1, <3>5
    <3> QED
      BY <1>1, <1>5, <3>2, <3>3, <3>4, <3>6, <3>7, <3>8
  <2> QED
    BY <1>1, <1>5, <1>7, <2>1
<1>10. m * size + slack < len
  <2>1. (size - 1) * n = m * size + size - n
    BY <1>5, <1>7
  <2>2. m * size \in Nat
    BY <1>5, <1>7
  <2> QED
    BY <1>1, <1>5, <1>6, <1>7, <1>9, <2>1, <2>2
<1>11. (n - 1) * size + slack < len
  BY <1>7, <1>10
<1> QED
  BY <1>1, <1>2, <1>3, <1>11 DEF LongCuts

-----------------------------------------------------------------------------
(* Windows: not empty, no longer than allowed, and longer than the way a   *)
(* soft end may move; each begins where and as the one before it ends.     *)
Windows == [start : Nat, end : Nat, softStart : BOOLEAN, softEnd : BOOLEAN]
GoodWindows ==
    {w \in Windows : /\ w.start < w.end /\ w.end <= w.start + WindowChars
                     /\ w.softEnd => w.end + SnapSlack <= w.start + WindowChars
                     /\ w.softStart => w.start + SnapSlack < w.end}
Adjoining == {wv \in Windows \X Windows : wv[1].end = wv[2].start /\ wv[1].softEnd = wv[2].softStart}

\* Windows from one place to another, both of them hard.
Planned(plan, from, to) ==
    /\ InARow(GoodWindows, Adjoining, plan)
    /\ plan[1].start = from /\ ~plan[1].softStart
    /\ plan[Len(plan)].end = to /\ ~plan[Len(plan)].softEnd

LEMMA EvenCutsAre ==
    ASSUME NEW seg \in RealSpans, seg.end - seg.start > WindowChars, LongCuts(seg.end - seg.start)
    PROVE  Planned(EvenCuts(seg), seg.start, seg.end)
<1>1. PICK w \in Nat, slack \in Nat : w = WindowChars /\ slack = SnapSlack /\ slack > 0 /\ w > 3 * slack
  BY ReadAssumption
<1>2. PICK a \in Nat, b \in Nat : a = seg.start /\ b = seg.end
  BY DEF RealSpans, Extents
<1>3. PICK len \in Nat : len = b - a /\ len > w /\ LongCuts(len)
  <2>1. b - a \in Nat
    BY <1>1, <1>2
  <2> QED
    BY <1>1, <1>2, <2>1
<1>4. PICK n, size : n = Ceil(len, WindowChars - SnapSlack) /\ size = Ceil(len, n)
  OBVIOUS
<1>5. CutsOf(len, n, size)
  BY <1>1, <1>3, <1>4, CutsAre
<1>6. /\ n \in Nat /\ size \in Nat /\ n >= 2 /\ size > 0 /\ n * size >= len /\ size + slack <= w
  BY <1>1, <1>5 DEF CutsOf
<1>7. (n - 1) * size + slack < len
  BY <1>1, <1>3, <1>4 DEF LongCuts
<1> DEFINE cutAt(i) == a + (i - 1) * size
           cut(i) == [start |-> cutAt(i), end |-> Least({b, a + i * size}), softStart |-> i > 1, softEnd |-> i < n]
           cuts == [i \in 1 .. n |-> cut(i)]
<1>8. EvenCuts(seg) = cuts
  BY <1>1, <1>2, <1>3, <1>4 DEF EvenCuts
<1>9. ASSUME NEW i \in 1 .. n
      PROVE  cutAt(i) \in Nat /\ cutAt(i) + slack < b /\ (i < n => cutAt(i) + size < b /\ cutAt(i) + size \in Nat)
  <2>1. i - 1 \in Nat
    OBVIOUS
  <2>2. PICK j \in Nat : j = i - 1
    BY <2>1
  <2>3. PICK k \in Nat : n - 1 = j + k
    <3>1. n - 1 - j \in Nat /\ n - 1 = j + (n - 1 - j)
      BY <1>6, <2>2
    <3> QED
      BY <3>1
  <2>4. (n - 1) * size = j * size + k * size /\ j * size \in Nat /\ k * size \in Nat
    BY <1>6, <2>2, <2>3
  <2>5. cutAt(i) = a + j * size
    BY <2>2
  <2>6. i < n => k * size >= size
    <3>1. ASSUME i < n PROVE k * size >= size
      <4>1. PICK l \in Nat : k = l + 1
        <5>1. k - 1 \in Nat /\ k = k - 1 + 1
          BY <1>6, <2>2, <2>3, <3>1
        <5> QED
          BY <5>1
      <4>2. k * size = l * size + size /\ l * size >= 0
        BY <1>6, <4>1
      <4> QED
        BY <1>6, <4>1, <4>2
    <3> QED
      BY <3>1
  <2> HIDE DEF cutAt
  <2> QED
    BY <1>1, <1>2, <1>3, <1>6, <1>7, <2>4, <2>5, <2>6
<1>10. \A i \in 1 .. n : a + i * size = cutAt(i) + size
  BY <1>2, <1>6
<1>11. ASSUME NEW i \in 1 .. n
       PROVE  LET c == cut(i) IN
              /\ c.start = cutAt(i) /\ c.softStart = (i > 1) /\ c.softEnd = (i < n)
              /\ c \in GoodWindows /\ c.end = IF i < n THEN cutAt(i) + size ELSE b
  <2>1. cutAt(i) \in Nat /\ cutAt(i) + slack < b /\ (i < n => cutAt(i) + size < b) /\ cutAt(i) + size \in Nat
    BY <1>6, <1>9
  <2>2. i = n => cutAt(i) + size >= b
    <3>1. i = n => (i - 1) * size + size = n * size
      BY <1>6
    <3>2. n * size \in Nat /\ (i - 1) * size \in Int
      BY <1>6
    <3> QED
      BY <1>2, <1>3, <1>6, <3>1, <3>2
  <2>3. PICK e : e = Least({b, a + i * size})
    OBVIOUS
  <2>4. PICK c : c = cut(i)
    OBVIOUS
  <2>5. LesserIs(e, b, cutAt(i) + size)
    BY <1>2, <1>10, <2>1, <2>3, OfTwo
  <2>6. e = IF i < n THEN cutAt(i) + size ELSE b
    BY <1>2, <1>6, <2>1, <2>2, <2>5 DEF LesserIs
  <2>7. c = [start |-> cutAt(i), end |-> e, softStart |-> i > 1, softEnd |-> i < n]
    BY <2>3, <2>4
  <2> HIDE DEF cutAt, cut
  <2>8. c.start = cutAt(i) /\ c.end = e /\ c.softStart = (i > 1) /\ c.softEnd = (i < n)
    BY <2>7
  <2>9. e \in Nat /\ (i > 1) \in BOOLEAN /\ (i < n) \in BOOLEAN
    BY <1>2, <2>1, <2>6
  <2>10. c \in Windows
    BY <2>1, <2>7, <2>9 DEF Windows
  <2>11. c.start < c.end /\ c.end <= c.start + w
    BY <1>1, <1>2, <1>6, <2>1, <2>2, <2>6, <2>8
  <2>12. c.softEnd => c.end + slack <= c.start + w
    <3>1. ASSUME c.softEnd PROVE c.end + slack <= c.start + w
      <4>1. i < n
        BY <2>8, <3>1
      <4>2. e = cutAt(i) + size
        BY <2>6, <4>1
      <4> QED
        BY <1>1, <1>6, <2>1, <2>8, <4>2
    <3> QED
      BY <3>1
  <2>13. c.softStart => c.start + slack < c.end
    <3>1. ASSUME c.softStart PROVE c.start + slack < c.end
      <4>1. CASE i < n
        <5>1. size > slack
          <6>1. n * size = (n - 1) * size + size
            BY <1>6
          <6>2. PICK p \in Nat : p = (n - 1) * size /\ p + size >= len
            <7>1. (n - 1) * size \in Nat
              BY <1>6
            <7> QED
              BY <1>6, <6>1, <7>1
          <6> QED
            BY <1>1, <1>3, <1>6, <1>7, <6>2
        <5> QED
          BY <1>1, <1>6, <2>1, <2>6, <2>8, <4>1, <5>1
      <4>2. CASE ~(i < n)
        BY <1>1, <1>2, <2>1, <2>6, <2>8, <4>2
      <4> QED
        BY <4>1, <4>2
    <3> QED
      BY <3>1
  <2>14. c \in GoodWindows
    BY <1>1, <2>10, <2>11, <2>12, <2>13 DEF GoodWindows
  <2> QED
    BY <2>4, <2>6, <2>8, <2>14
<1> HIDE DEF cut
<1>12. cuts \in Seq(GoodWindows) /\ Len(cuts) = n /\ DOMAIN cuts = 1 .. n
  <2>1. cuts \in [1 .. n -> GoodWindows]
    BY <1>11
  <2>2. cuts \in Seq(GoodWindows)
    BY <1>6, <2>1, FunctionsAreSeqs
  <2> QED
    BY <1>6, <2>1, <2>2, LenProperties
<1>13. \A i \in 1 .. n : cuts[i] = cut(i)
  OBVIOUS
<1>14. ASSUME NEW i \in 1 .. n - 1 PROVE <<cuts[i], cuts[i + 1]>> \in Adjoining
  <2>1. i \in 1 .. n /\ i + 1 \in 1 .. n /\ i < n /\ i + 1 > 1
    BY <1>6
  <2>2. PICK c : c = cuts[i] /\ c = cut(i)
    BY <1>13, <2>1
  <2>3. PICK d : d = cuts[i + 1] /\ d = cut(i + 1)
    BY <1>13, <2>1
  <2>4. c \in Windows /\ c.end = cutAt(i) + size /\ c.softEnd = TRUE
    BY <1>11, <2>1, <2>2 DEF GoodWindows
  <2>5. d \in Windows /\ d.start = cutAt(i + 1) /\ d.softStart = TRUE
    BY <1>11, <2>1, <2>3 DEF GoodWindows
  <2>6. cutAt(i + 1) = cutAt(i) + size
    <3>1. a + i * size = cutAt(i) + size
      BY <1>10, <2>1
    <3>2. i + 1 - 1 = i
      BY <2>1
    <3> QED
      BY <3>1, <3>2
  <2> HIDE DEF cutAt, cuts
  <2> QED
    BY <2>2, <2>3, <2>4, <2>5, <2>6 DEF Adjoining
<1>15. cuts[1].start = a /\ cuts[1].softStart = FALSE /\ cuts[n].end = b /\ cuts[n].softEnd = FALSE
  <2>1. 1 \in 1 .. n /\ n \in 1 .. n /\ ~(n < n) /\ ~(1 > 1)
    BY <1>6
  <2>2. cutAt(1) = a
    BY <1>2, <1>6
  <2>3. cuts[1] = cut(1) /\ cuts[n] = cut(n)
    BY <1>13, <2>1
  <2> HIDE DEF cutAt, cuts
  <2>4. cut(1).start = a /\ cut(1).softStart = FALSE
    <3>1. cut(1).start = cutAt(1) /\ cut(1).softStart = (1 > 1)
      BY <1>11, <2>1
    <3>2. (1 > 1) = FALSE
      OBVIOUS
    <3> QED
      BY <2>2, <3>1, <3>2, Zenon
  <2>5. cut(n).end = b /\ cut(n).softEnd = FALSE
    <3>1. cut(n).end = (IF n < n THEN cutAt(n) + size ELSE b) /\ cut(n).softEnd = (n < n)
      BY <1>11, <2>1
    <3>2. (n < n) = FALSE
      BY <1>6
    <3>3. (IF n < n THEN cutAt(n) + size ELSE b) = b
      BY <1>6
    <3> QED
      BY <3>1, <3>2, <3>3, Zenon
  <2> QED
    BY <2>3, <2>4, <2>5
<1> HIDE DEF cuts
<1>16. PICK q : q = EvenCuts(seg)
  OBVIOUS
<1>17. InARow(GoodWindows, Adjoining, q)
  <2>1. q \in Seq(GoodWindows) /\ Len(q) = n /\ DOMAIN q = 1 .. n /\ n \in Nat /\ n > 0
    BY <1>6, <1>8, <1>12, <1>16
  <2>2. \A i \in 1 .. n : q[i] \in GoodWindows
    BY <1>8, <1>11, <1>13, <1>16
  <2>3. \A i \in 1 .. n - 1 : <<q[i], q[i + 1]>> \in Adjoining
    BY <1>8, <1>14, <1>16
  <2> QED
    BY <2>1, <2>2, <2>3 DEF InARow
<1> QED
  BY <1>2, <1>8, <1>12, <1>15, <1>16, <1>17 DEF Planned

-----------------------------------------------------------------------------
(* The windows taken from the parts, one part after the other.             *)
PlansSoFar == {so \in [plan : Seq(Windows), open : BOOLEAN] : so.open => so.plan # <<>>}
TakesOf(segs, n) == [q \in PlansSoFar \X (1 .. n) |-> TakePart(q[1], segs[q[2]])]

PlanHolds(from, to, so) ==
    /\ so.plan = <<>> => from = to
    /\ so.plan # <<>> => Planned(so.plan, from, to)
    /\ so.open => so.plan # <<>> /\ ~so.plan[Len(so.plan)].softStart

CutsLong(seg) == seg.end - seg.start > WindowChars => LongCuts(seg.end - seg.start)

LEMMA PlannedJoin ==
    ASSUME NEW a, NEW b, NEW c, NEW s, NEW t, Planned(s, a, b), Planned(t, b, c)
    PROVE  Planned(s \o t, a, c)
<1>1. s[Len(s)] \in Windows /\ t[1] \in Windows
  <2>1. Len(s) \in 1 .. Len(s) /\ 1 \in 1 .. Len(t)
    BY DEF Planned, InARow
  <2> QED
    BY <2>1 DEF Planned, InARow, GoodWindows
<1>2. s[Len(s)].softEnd \in BOOLEAN /\ t[1].softStart \in BOOLEAN
  BY <1>1 DEF Windows
<1>3. s[Len(s)].softEnd = t[1].softStart /\ s[Len(s)].end = t[1].start
  BY <1>2 DEF Planned
<1>4. Meet(Adjoining, s, t)
  BY <1>1, <1>3 DEF Meet, Adjoining
<1>5. JoinedIn(GoodWindows, Adjoining, s, t, s \o t)
  BY <1>4, RowsJoin DEF Planned
<1>6. PICK st : st = s \o t
  OBVIOUS
<1>7. st[1] = s[1] /\ st[Len(st)] = t[Len(t)] /\ InARow(GoodWindows, Adjoining, st)
  BY <1>5, <1>6 DEF JoinedIn, EndsOf
<1> QED
  BY <1>6, <1>7 DEF Planned

HardWindow(seg) == [start |-> seg.start, end |-> seg.end, softStart |-> FALSE, softEnd |-> FALSE]

LEMMA HardIsPlanned ==
    ASSUME NEW seg \in RealSpans, seg.start < seg.end, seg.end - seg.start <= WindowChars
    PROVE  LET one == <<HardWindow(seg)>> IN Planned(one, seg.start, seg.end) /\ one[Len(one)] = HardWindow(seg)
<1>1. PICK a \in Nat, b \in Nat, w \in Nat : a = seg.start /\ b = seg.end /\ w = WindowChars
  BY ReadAssumption DEF RealSpans, Extents
<1>2. PICK x : x = HardWindow(seg)
  OBVIOUS
<1>3. x.start = a /\ x.end = b /\ x.softStart = FALSE /\ x.softEnd = FALSE /\ x \in Windows
  BY <1>1, <1>2 DEF HardWindow, Windows
<1>4. x \in GoodWindows
  BY <1>1, <1>3 DEF GoodWindows
<1>5. PICK one : one = <<x>>
  OBVIOUS
<1>6. InARow(GoodWindows, Adjoining, one) /\ EndsOf(one) = <<x, x>>
  BY <1>4, <1>5, RowOfOne
<1>7. one[1] = x /\ one[Len(one)] = x
  BY <1>6 DEF EndsOf
<1> QED
  BY <1>1, <1>2, <1>3, <1>5, <1>6, <1>7 DEF Planned

\* A last window that may take one more part takes it.
LEMMA LastTakes ==
    ASSUME NEW from, NEW seg \in RealSpans, seg.start < seg.end, NEW plan, Planned(plan, from, seg.start),
           ~plan[Len(plan)].softStart, seg.end - plan[Len(plan)].start <= WindowChars,
           NEW more, more = Front(plan) \o <<[plan[Len(plan)] EXCEPT !.end = seg.end]>>
    PROVE  Planned(more, from, seg.end) /\ ~more[Len(more)].softStart
<1>1. PICK a \in Nat, b \in Nat, w \in Nat : a = seg.start /\ b = seg.end /\ w = WindowChars
  BY ReadAssumption DEF RealSpans, Extents
<1>2. PICK n \in Nat : n = Len(plan) /\ n > 0
  BY DEF Planned, InARow
<1>3. PICK last \in GoodWindows : last = plan[n]
  <2>1. n \in 1 .. n
    BY <1>2
  <2> QED
    BY <1>2, <2>1 DEF Planned, InARow
<1>4. PICK y : y = [last EXCEPT !.end = seg.end]
  OBVIOUS
<1>5. /\ last.start \in Nat /\ last.end = a /\ last.start < last.end /\ b <= last.start + w
      /\ last.softEnd = FALSE /\ last.softStart = FALSE
  <2>1. last \in Windows /\ last.start < last.end
    BY DEF GoodWindows
  <2>2. last.end = a /\ ~last.softEnd /\ ~last.softStart
    BY <1>1, <1>2, <1>3 DEF Planned
  <2>3. b - last.start <= w
    BY <1>1, <1>2, <1>3
  <2> QED
    BY <1>1, <2>1, <2>2, <2>3 DEF Windows
<1>6. y \in Windows /\ y.start = last.start /\ y.end = b /\ y.softStart = FALSE /\ y.softEnd = FALSE
  <2>1. last \in Windows
    BY DEF GoodWindows
  <2> QED
    BY <1>1, <1>4, <1>5, <2>1 DEF Windows
<1>7. y \in GoodWindows
  BY <1>1, <1>5, <1>6 DEF GoodWindows
<1>8. ASSUME NEW x \in GoodWindows, <<x, last>> \in Adjoining PROVE <<x, y>> \in Adjoining
  BY <1>5, <1>6, <1>8 DEF Adjoining
<1>9. InARow(GoodWindows, Adjoining, plan) /\ plan[1].start = from /\ ~plan[1].softStart
  BY DEF Planned
<1>10. more = Front(plan) \o <<y>>
  BY <1>2, <1>3, <1>4
<1>11. InARow(GoodWindows, Adjoining, more) /\ EndsOf(more) = <<IF Len(plan) = 1 THEN y ELSE plan[1], y>>
  <2>1. StandsFor(GoodWindows, Adjoining, plan, y)
    BY <1>2, <1>3, <1>8 DEF StandsFor
  <2>2. ReplacedIn(GoodWindows, Adjoining, plan, y, Front(plan) \o <<y>>)
    BY <1>7, <1>9, <2>1, LastReplaced
  <2> QED
    BY <1>10, <2>2 DEF ReplacedIn
<1>12. more[1] = (IF n = 1 THEN y ELSE plan[1]) /\ more[Len(more)] = y
  BY <1>2, <1>11 DEF EndsOf
<1>13. more[1].start = from /\ ~more[1].softStart
  <2>1. n = 1 => y.start = from
    BY <1>3, <1>6, <1>9
  <2> QED
    BY <1>6, <1>9, <1>12, <2>1
<1> QED
  BY <1>1, <1>6, <1>11, <1>12, <1>13 DEF Planned

LEMMA TakeKeeps ==
    ASSUME NEW from \in Nat, NEW seg \in RealSpans, CutsLong(seg), NEW so \in PlansSoFar, PlanHolds(from, seg.start, so)
    PROVE  TakePart(so, seg) \in PlansSoFar /\ PlanHolds(from, seg.end, TakePart(so, seg))
<1>1. PICK a \in Nat, b \in Nat, w \in Nat : a = seg.start /\ b = seg.end /\ w = WindowChars /\ a <= b
  BY ReadAssumption DEF RealSpans, Extents
<1>2. PICK to : to = TakePart(so, seg)
  OBVIOUS
<1>3. so.plan \in Seq(Windows) /\ so.open \in BOOLEAN /\ (so.open => so.plan # <<>>)
      /\ so = [plan |-> so.plan, open |-> so.open]
  BY DEF PlansSoFar
<1>4. ASSUME NEW t, Planned(t, from, b)
      PROVE  t \in Seq(Windows) /\ t # <<>>
  <2>1. t \in Seq(GoodWindows) /\ Len(t) > 0
    BY <1>4 DEF Planned, InARow
  <2>2. GoodWindows \subseteq Windows
    BY DEF GoodWindows
  <2> QED
    BY <2>1, <2>2, EmptySeq
<1>5. CASE b <= a
  <2>1. to = so /\ a = b
    BY <1>1, <1>2, <1>5 DEF TakePart
  <2> QED
    BY <1>1, <1>2, <2>1
<1>6. CASE a < b /\ so.open /\ b - Last(so.plan).start <= w
  <2>1. so.plan # <<>> /\ Planned(so.plan, from, a) /\ ~so.plan[Len(so.plan)].softStart
    BY <1>1, <1>6 DEF PlanHolds
  <2>2. PICK more : more = Front(so.plan) \o <<[Last(so.plan) EXCEPT !.end = seg.end]>>
    OBVIOUS
  <2>3. to = [plan |-> more, open |-> so.open]
    <3>1. to = [so EXCEPT !.plan = more]
      BY <1>1, <1>2, <1>6, <2>2 DEF TakePart
    <3> QED
      BY <1>3, <3>1
  <2>4. Last(so.plan) = so.plan[Len(so.plan)]
    BY DEF Last
  <2>5. Planned(more, from, b) /\ ~more[Len(more)].softStart
    BY <1>1, <1>6, <2>1, <2>2, <2>4, LastTakes
  <2>6. more \in Seq(Windows) /\ more # <<>>
    BY <1>4, <2>5
  <2> QED
    BY <1>1, <1>2, <1>3, <2>3, <2>5, <2>6 DEF PlansSoFar, PlanHolds
<1>7. CASE a < b /\ ~(so.open /\ b - Last(so.plan).start <= w) /\ b - a <= w
  <2>1. to = [plan |-> Append(so.plan, HardWindow(seg)), open |-> TRUE]
    BY <1>1, <1>2, <1>7 DEF TakePart, HardWindow
  <2>2. PICK one : one = <<HardWindow(seg)>>
    OBVIOUS
  <2>3. Planned(one, a, b) /\ one[Len(one)] = HardWindow(seg)
    BY <1>1, <1>7, <2>2, HardIsPlanned
  <2>4. HardWindow(seg) \in Windows
    BY <1>1 DEF HardWindow, Windows
  <2>5. PICK more : more = so.plan \o one
    OBVIOUS
  <2>6. Append(so.plan, HardWindow(seg)) = more
    BY <1>3, <2>2, <2>4, <2>5, AppendProperties, ConcatProperties
  <2>7. Planned(more, from, b) /\ more[Len(more)] = HardWindow(seg)
    <3>1. CASE so.plan = <<>>
      <4>1. one \in Seq(Windows)
        BY <2>2, <2>4
      <4>2. more = one
        BY <2>5, <3>1, <4>1, ConcatEmptySeq
      <4>3. from = a
        BY <1>1, <3>1 DEF PlanHolds
      <4> QED
        BY <2>3, <4>2, <4>3
    <3>2. CASE so.plan # <<>>
      <4>1. Planned(so.plan, from, a)
        BY <1>1, <3>2 DEF PlanHolds
      <4>2. Planned(more, from, b)
        BY <2>3, <2>5, <4>1, PlannedJoin
      <4>3. Len(more) = Len(so.plan) + 1 /\ more[Len(so.plan) + 1] = HardWindow(seg)
        BY <1>3, <2>4, <2>6, AppendProperties
      <4> QED
        BY <4>2, <4>3
    <3> QED
      BY <3>1, <3>2
  <2>8. more \in Seq(Windows) /\ more # <<>>
    BY <1>4, <2>7
  <2>9. HardWindow(seg).softStart = FALSE
    BY DEF HardWindow
  <2> QED
    BY <1>1, <1>2, <2>1, <2>6, <2>7, <2>8, <2>9 DEF PlansSoFar, PlanHolds
<1>8. CASE a < b /\ ~(so.open /\ b - Last(so.plan).start <= w) /\ ~(b - a <= w)
  <2>1. PICK cuts : cuts = EvenCuts(seg)
    OBVIOUS
  <2>2. PICK more : more = so.plan \o cuts
    OBVIOUS
  <2>3. to = [plan |-> more, open |-> FALSE]
    BY <1>1, <1>2, <1>8, <2>1, <2>2 DEF TakePart
  <2>4. Planned(cuts, a, b)
    <3>1. seg.end - seg.start > WindowChars
      BY <1>1, <1>8
    <3>2. LongCuts(seg.end - seg.start)
      BY <3>1 DEF CutsLong
    <3> QED
      BY <1>1, <2>1, <3>1, <3>2, EvenCutsAre
  <2>5. Planned(more, from, b)
    <3>1. CASE so.plan = <<>>
      <4>1. cuts \in Seq(GoodWindows)
        BY <2>4 DEF Planned, InARow
      <4>2. more = cuts
        BY <2>2, <3>1, <4>1, ConcatEmptySeq
      <4>3. from = a
        BY <1>1, <3>1 DEF PlanHolds
      <4> QED
        BY <2>4, <4>2, <4>3
    <3>2. CASE so.plan # <<>>
      <4>1. Planned(so.plan, from, a)
        BY <1>1, <3>2 DEF PlanHolds
      <4> QED
        BY <2>2, <2>4, <4>1, PlannedJoin
    <3> QED
      BY <3>1, <3>2
  <2>6. more \in Seq(Windows) /\ more # <<>>
    BY <1>4, <2>5
  <2> QED
    BY <1>1, <1>2, <2>3, <2>5, <2>6 DEF PlansSoFar, PlanHolds
<1> QED
  BY <1>1, <1>5, <1>6, <1>7, <1>8

LEMMA TakesUnfold ==
    ASSUME NEW from \in Nat, NEW segs, NEW n \in Nat, DOMAIN segs = 1 .. n,
           \A k \in 1 .. n, so \in PlansSoFar : TakePart(so, segs[k]) \in PlansSoFar
    PROVE  SweepEnds(FoldLeft(TakePart, NoWindows, segs), n, NoWindows, TakesOf(segs, n), PlansSoFar)
<1> DEFINE V == PlansSoFar
           F == TakesOf(segs, n)
           Solves(g) == g = [s \in SUBSET DOMAIN segs |->
                                IF s = {} THEN NoWindows ELSE TakePart(g[s \ {Highest(s)}], segs[Highest(s)])]
<1>1. F \in [V \X (1 .. n) -> V]
  BY DEF TakesOf
<1>2. NoWindows \in V
  BY DEF NoWindows, PlansSoFar
<1>3. \A v \in V, k \in 1 .. n : F[<<v, k>>] = TakePart(v, segs[k])
  BY DEF TakesOf
<1> HIDE DEF V, F
<1>4. PICK g \in [SUBSET (1 .. n) -> V] : FoldsAlong(g, n, NoWindows, F)
  BY <1>1, <1>2, FoldExists
<1>5. ASSUME NEW s \in SUBSET (1 .. n)
      PROVE  g[s] = IF s = {} THEN NoWindows ELSE TakePart(g[s \ {Highest(s)}], segs[Highest(s)])
  <2>1. CASE s # {}
    <3>1. Highest(s) \in 1 .. n /\ g[s \ {Highest(s)}] \in V
      BY <1>4, <2>1, HighestOf
    <3>2. g[s] = F[<<g[s \ {Highest(s)}], Highest(s)>>]
      BY <1>4, <2>1 DEF FoldsAlong
    <3> QED
      BY <1>3, <2>1, <3>1, <3>2
  <2> QED
    BY <1>4, <2>1 DEF FoldsAlong
<1>6. Solves(g)
  BY <1>4, <1>5
<1>7. Solves(CHOOSE x : Solves(x))
  BY <1>6
<1>8. FoldLeft(TakePart, NoWindows, segs) = (CHOOSE x : Solves(x))[1 .. n]
  BY DEF FoldLeft, MapThenFoldSet, Highest, Max
<1>9. ASSUME NEW x, Solves(x), NEW k \in 1 .. n, x[1 .. k - 1] \in V PROVE x[1 .. k] = F[<<x[1 .. k - 1], k>>]
  <2>1. 1 .. k \in SUBSET (1 .. n) /\ 1 .. k # {} /\ Highest(1 .. k) = k /\ (1 .. k) \ {k} = 1 .. k - 1
    BY FoldOfInterval
  <2>0. \A s \in SUBSET (1 .. n) :
           x[s] = IF s = {} THEN NoWindows ELSE TakePart(x[s \ {Highest(s)}], segs[Highest(s)])
    BY <1>9
  <2>2. x[1 .. k] = TakePart(x[1 .. k - 1], segs[k])
    BY <2>0, <2>1
  <2> QED
    BY <1>3, <1>9, <2>2
<1>10. ASSUME NEW x, Solves(x) PROVE x[{}] = NoWindows
  BY <1>10
<1> DEFINE w == CHOOSE x : Solves(x)
<1> HIDE DEF w
<1>11. Solves(w) /\ FoldLeft(TakePart, NoWindows, segs) = w[1 .. n]
  BY <1>7, <1>8 DEF w
<1> HIDE DEF Solves
<1>12. SweepEnds(FoldLeft(TakePart, NoWindows, segs), n, NoWindows, F, V)
  <2>1. FoldStep(w, n, NoWindows, F, V)
    BY <1>9, <1>10, <1>11 DEF FoldStep
  <2> QED
    BY <1>1, <1>2, <1>11, <2>1, StepsOfFold
<1> QED
  BY <1>12 DEF V, F

\* No part begins before the range or ends past it.
LEMMA TilesAreWithin ==
    ASSUME NEW from \in Nat, NEW to \in Nat, NEW segs, Tiles(segs, from, to), NEW n, n = Len(segs)
    PROVE  n \in Nat /\ n > 0 /\ DOMAIN segs = 1 .. n
           /\ \A k \in 1 .. n : segs[k] \in RealSpans /\ from <= segs[k].start /\ segs[k].end <= to
<1>1. n \in Nat /\ n > 0 /\ DOMAIN segs = 1 .. n /\ (\A k \in 1 .. n : segs[k] \in RealSpans)
      /\ segs[1].start = from /\ segs[n].end = to
  BY DEF Tiles, InARow
<1>2. ASSUME NEW k \in 1 .. n
      PROVE segs[k].start \in Nat /\ segs[k].end \in Nat /\ segs[k].start <= segs[k].end
            /\ (k > 1 => segs[k - 1].end = segs[k].start)
  <2>1. segs[k].start \in Nat /\ segs[k].end \in Nat /\ segs[k].start <= segs[k].end
    BY <1>1 DEF RealSpans, Extents
  <2>2. ASSUME k > 1 PROVE segs[k - 1].end = segs[k].start
    <3>1. PICK j \in 1 .. n - 1 : j = k - 1 /\ j + 1 = k
      <4>1. k - 1 \in 1 .. n - 1 /\ k - 1 + 1 = k
        BY <1>1, <2>2
      <4> QED
        BY <4>1
    <3>2. <<segs[j], segs[j + 1]>> \in Touching
      BY <3>1 DEF Tiles, InARow
    <3> QED
      BY <3>1, <3>2 DEF Touching
  <2> QED
    BY <2>1, <2>2
<1> DEFINE G == {k \in 0 .. n : k > 0 => from <= segs[k].start}
           H == {j \in 0 .. n : j < n => segs[n - j].end <= to}
<1>3. \A k \in 0 .. n : k \in G
  <2>1. 0 \in G
    BY <1>1
  <2>2. ASSUME NEW k \in 1 .. n, k - 1 \in G PROVE k \in G
    <3>1. CASE k = 1
      BY <1>1, <3>1
    <3>2. CASE k > 1
      <4>1. k - 1 \in 1 .. n /\ k \in 0 .. n /\ k - 1 > 0
        BY <1>1, <3>2
      <4>2. from <= segs[k - 1].start
        BY <2>2, <4>1
      <4>3. segs[k - 1].start <= segs[k - 1].end /\ segs[k - 1].start \in Nat /\ segs[k - 1].end \in Nat
        BY <1>2, <4>1
      <4>4. from <= segs[k].start
        BY <1>2, <3>2, <4>2, <4>3
      <4> QED
        BY <4>1, <4>4
    <3> QED
      BY <1>1, <3>1, <3>2
  <2> HIDE DEF G
  <2> QED
    BY <1>1, <2>1, <2>2, UpTo
<1>4. \A j \in 0 .. n : j \in H
  <2>1. 0 \in H
    BY <1>1
  <2>2. ASSUME NEW j \in 1 .. n, j - 1 \in H PROVE j \in H
    <3>1. ASSUME j < n PROVE segs[n - j].end <= to
      <4>1. PICK k \in 1 .. n : k = n - j + 1 /\ k > 1 /\ k - 1 = n - j /\ n - (j - 1) = k /\ k - 1 \in 1 .. n
        <5>1. n - j + 1 \in 1 .. n /\ n - j + 1 > 1 /\ n - j + 1 - 1 = n - j /\ n - (j - 1) = n - j + 1 /\ n - j \in 1 .. n
          BY <1>1, <3>1
        <5> QED
          BY <5>1
      <4>2. segs[k].end <= to
        BY <2>2, <3>1, <4>1
      <4>3. segs[k - 1].end = segs[k].start /\ segs[k].start <= segs[k].end /\ segs[k].end \in Nat /\ segs[k].start \in Nat
        BY <1>2, <4>1
      <4> QED
        BY <4>1, <4>2, <4>3
    <3> QED
      BY <1>1, <3>1
  <2> HIDE DEF H
  <2> QED
    BY <1>1, <2>1, <2>2, UpTo
<1>5. ASSUME NEW k \in 1 .. n PROVE from <= segs[k].start /\ segs[k].end <= to
  <2>1. k \in G /\ k > 0
    BY <1>1, <1>3
  <2>2. PICK j \in 0 .. n : j = n - k /\ n - j = k /\ j < n
    <3>1. n - k \in 0 .. n /\ n - (n - k) = k /\ n - k < n
      BY <1>1
    <3> QED
      BY <3>1
  <2>3. j \in H
    BY <1>4
  <2> QED
    BY <2>1, <2>2, <2>3
<1> QED
  BY <1>1, <1>5

LEMMA TakeType ==
    ASSUME NEW seg \in RealSpans, CutsLong(seg), NEW so \in PlansSoFar
    PROVE  TakePart(so, seg) \in PlansSoFar
<1>1. PICK a \in Nat, b \in Nat, w \in Nat : a = seg.start /\ b = seg.end /\ w = WindowChars /\ a <= b
  BY ReadAssumption DEF RealSpans, Extents
<1>2. PICK to : to = TakePart(so, seg)
  OBVIOUS
<1>3. so.plan \in Seq(Windows) /\ so.open \in BOOLEAN /\ (so.open => so.plan # <<>>)
      /\ so = [plan |-> so.plan, open |-> so.open]
  BY DEF PlansSoFar
<1>4. CASE b <= a
  BY <1>1, <1>4 DEF TakePart
<1>5. CASE a < b /\ so.open /\ b - Last(so.plan).start <= w
  <2>1. PICK n \in Nat : n = Len(so.plan) /\ n > 0
    BY <1>3, <1>5, LenProperties, EmptySeq
  <2>2. PICK last \in Windows : last = Last(so.plan)
    <3>1. so.plan[n] \in Windows
      <4>1. n \in 1 .. n
        BY <2>1
      <4> QED
        BY <1>3, <2>1, <4>1, ElementOfSeq
    <3> QED
      BY <2>1, <3>1 DEF Last
  <2>3. PICK y \in Windows : y = [last EXCEPT !.end = seg.end]
    <3>1. [last EXCEPT !.end = seg.end] \in Windows
      BY <1>1 DEF Windows
    <3> QED
      BY <3>1
  <2>4. PICK front \in Seq(Windows) : front = Front(so.plan)
    <3>1. n - 1 \in 1 - 1 .. Len(so.plan) /\ 1 \in 1 .. Len(so.plan) + 1
      BY <2>1
    <3>2. SubSeq(so.plan, 1, n - 1) \in Seq(Windows)
      BY <1>3, <3>1, SubSeqProperties
    <3> QED
      BY <2>1, <3>2 DEF Front
  <2>5. PICK more : more = front \o <<y>>
    OBVIOUS
  <2>6. more \in Seq(Windows) /\ Len(more) = Len(front) + 1 /\ Len(front) \in Nat
    <3>1. <<y>> \in Seq(Windows) /\ Len(<<y>>) = 1
      OBVIOUS
    <3> QED
      BY <2>5, <3>1, ConcatProperties, LenProperties
  <2>7. more # <<>>
    BY <2>6, EmptySeq
  <2>8. to = [plan |-> more, open |-> so.open]
    <3>1. to = [so EXCEPT !.plan = more]
      BY <1>1, <1>2, <1>5, <2>2, <2>3, <2>4, <2>5 DEF TakePart
    <3> QED
      BY <1>3, <3>1
  <2> QED
    BY <1>2, <1>3, <2>6, <2>7, <2>8 DEF PlansSoFar
<1>6. CASE a < b /\ ~(so.open /\ b - Last(so.plan).start <= w) /\ b - a <= w
  <2>1. to = [plan |-> Append(so.plan, HardWindow(seg)), open |-> TRUE]
    BY <1>1, <1>2, <1>6 DEF TakePart, HardWindow
  <2>2. HardWindow(seg) \in Windows
    BY <1>1 DEF HardWindow, Windows
  <2>3. PICK more : more = Append(so.plan, HardWindow(seg))
    OBVIOUS
  <2>4. more \in Seq(Windows) /\ Len(more) = Len(so.plan) + 1 /\ Len(so.plan) \in Nat
    BY <1>3, <2>2, <2>3, AppendProperties, LenProperties
  <2>5. more # <<>>
    BY <2>4, EmptySeq
  <2> QED
    BY <1>2, <2>1, <2>3, <2>4, <2>5 DEF PlansSoFar
<1>7. CASE a < b /\ ~(so.open /\ b - Last(so.plan).start <= w) /\ ~(b - a <= w)
  <2>1. to = [plan |-> so.plan \o EvenCuts(seg), open |-> FALSE]
    BY <1>1, <1>2, <1>7 DEF TakePart
  <2>2. seg.end - seg.start > WindowChars
    BY <1>1, <1>7
  <2>3. LongCuts(seg.end - seg.start)
    BY <2>2 DEF CutsLong
  <2>4. EvenCuts(seg) \in Seq(Windows)
    <3>1. EvenCuts(seg) \in Seq(GoodWindows)
      BY <2>2, <2>3, EvenCutsAre DEF Planned, InARow
    <3>2. GoodWindows \subseteq Windows
      BY DEF GoodWindows
    <3> QED
      BY <3>1, <3>2
  <2>5. so.plan \o EvenCuts(seg) \in Seq(Windows)
    BY <1>3, <2>4, ConcatProperties
  <2> QED
    BY <1>2, <2>1, <2>5 DEF PlansSoFar
<1> QED
  BY <1>1, <1>4, <1>5, <1>6, <1>7

\* Texts of such lengths as a range has are cut long.
RangeCutsLong(range) ==
    \A len \in Nat : len <= range.end - range.start /\ len > WindowChars => LongCuts(len)

(* The windows of a range are all of it, each place in one of them. *)
LEMMA WindowsAreThePlan ==
    ASSUME NEW range, IsRange(range), NEW pages, NEW n, PagesMeet(pages, n), RangeCutsLong(range)
    PROVE  Planned(planWindows(range, pages), range.start, range.end)
<1>0. PICK from \in Nat, to \in Nat : from = range.start /\ to = range.end /\ from < to
  BY DEF IsRange, Extents
<1>1. PICK segs : segs = PageSegments(range, pages) /\ Tiles(segs, from, to)
  BY <1>0, SegmentsTile
<1>2. PICK m \in Nat : m = Len(segs) /\ m > 0 /\ DOMAIN segs = 1 .. m
                       /\ \A k \in 1 .. m : segs[k] \in RealSpans /\ from <= segs[k].start /\ segs[k].end <= to
  <2>1. PICK l : l = Len(segs)
    OBVIOUS
  <2>2. l \in Nat /\ l > 0 /\ DOMAIN segs = 1 .. l
        /\ \A k \in 1 .. l : segs[k] \in RealSpans /\ from <= segs[k].start /\ segs[k].end <= to
    BY <1>1, <2>1, TilesAreWithin
  <2> QED
    BY <2>1, <2>2
<1>3. segs[1].start = from /\ segs[m].end = to
  BY <1>1, <1>2 DEF Tiles
<1>4. ASSUME NEW k \in 2 .. m PROVE segs[k].start = segs[k - 1].end
  <2>1. PICK j \in 1 .. m - 1 : j = k - 1 /\ j + 1 = k
    <3>1. k - 1 \in 1 .. m - 1 /\ k - 1 + 1 = k
      BY <1>2
    <3> QED
      BY <3>1
  <2>2. <<segs[j], segs[j + 1]>> \in Touching
    BY <1>1, <1>2, <2>1 DEF Tiles, InARow
  <2> QED
    BY <2>1, <2>2 DEF Touching
<1>5. ASSUME NEW k \in 1 .. m PROVE CutsLong(segs[k])
  <2>1. PICK len \in Nat : len = segs[k].end - segs[k].start
    <3>1. segs[k].end - segs[k].start \in Nat
      BY <1>2 DEF RealSpans, Extents
    <3> QED
      BY <3>1
  <2>2. len <= to - from
    <3>1. segs[k].end \in Nat /\ segs[k].start \in Nat /\ from <= segs[k].start /\ segs[k].end <= to
      BY <1>2 DEF RealSpans, Extents
    <3> QED
      BY <2>1, <3>1
  <2> QED
    BY <1>0, <2>1, <2>2 DEF RangeCutsLong, CutsLong
<1>6. ASSUME NEW k \in 1 .. m, NEW so \in PlansSoFar PROVE TakePart(so, segs[k]) \in PlansSoFar
  <2>1. segs[k] \in RealSpans /\ CutsLong(segs[k])
    BY <1>2, <1>5
  <2> QED
    BY <2>1, TakeType
<1>7. SweepEnds(FoldLeft(TakePart, NoWindows, segs), m, NoWindows, TakesOf(segs, m), PlansSoFar)
  BY <1>0, <1>2, <1>6, TakesUnfold
<1>8. PICK h : SweepsTo(h, m, NoWindows, TakesOf(segs, m), PlansSoFar) /\ h[m] = FoldLeft(TakePart, NoWindows, segs)
  BY <1>7 DEF SweepEnds
<1>9. h \in [0 .. m -> PlansSoFar] /\ h[0] = NoWindows
  BY <1>8 DEF SweepsTo
<1>10. ASSUME NEW k \in 1 .. m PROVE h[k - 1] \in PlansSoFar /\ h[k] = TakePart(h[k - 1], segs[k])
  <2>1. k - 1 \in 0 .. m
    BY <1>2
  <2>2. h[k - 1] \in PlansSoFar
    BY <1>9, <2>1
  <2>3. h[k] = TakesOf(segs, m)[<<h[k - 1], k>>]
    BY <1>8 DEF SweepsTo
  <2> QED
    BY <2>2, <2>3 DEF TakesOf
<1> DEFINE reached(k) == IF k = 0 THEN from ELSE segs[k].end
           G == {k \in 0 .. m : PlanHolds(from, reached(k), h[k])}
<1>11. 0 \in G
  BY <1>9 DEF NoWindows, PlanHolds
<1>12. ASSUME NEW k \in 1 .. m, k - 1 \in G PROVE k \in G
  <2>1. reached(k - 1) = segs[k].start /\ reached(k) = segs[k].end
    <3>1. CASE k = 1
      BY <1>3, <3>1
    <3>2. CASE k # 1
      <4>1. k \in 2 .. m /\ k - 1 # 0 /\ k # 0
        BY <1>2, <3>2
      <4> QED
        BY <1>4, <4>1
    <3> QED
      BY <3>1, <3>2
  <2>2. PlanHolds(from, segs[k].start, h[k - 1])
    BY <1>12, <2>1
  <2> HIDE DEF reached
  <2>3. PlanHolds(from, segs[k].end, h[k])
    BY <1>2, <1>5, <1>10, <2>2, TakeKeeps
  <2> QED
    BY <1>2, <2>1, <2>3
<1>13. m \in G
  <2> HIDE DEF G
  <2>1. \A k \in 0 .. m : k \in G
    BY <1>2, <1>11, <1>12, UpTo
  <2> QED
    BY <1>2, <2>1
<1>14. PlanHolds(from, to, h[m])
  BY <1>2, <1>3, <1>13
<1>15. planWindows(range, pages) = h[m].plan
  BY <1>0, <1>1, <1>8 DEF planWindows
<1>16. Planned(h[m].plan, from, to)
  BY <1>0, <1>14 DEF PlanHolds
<1> QED
  BY <1>0, <1>15, <1>16

-----------------------------------------------------------------------------
(* Where a soft end moves to.                                              *)
LEMMA LeastOfSome ==
    ASSUME NEW S, S \subseteq Nat, S # {}
    PROVE  Least(S) \in S /\ \A m \in S : Least(S) <= m
<1>1. \E n \in S : \A m \in S : n <= m
  BY LeastOfNats
<1> QED
  BY <1>1 DEF Least

BoundOf(place, limit) == Least({limit, place + SnapSlack})
BreaksAhead(doc, place, limit) == {n \in doc.newlines : n >= place /\ n < BoundOf(place, limit)}
ParagraphsAhead(doc, place, limit) ==
    {n + 2 : n \in {m \in BreaksAhead(doc, place, limit) : m + 1 \in BreaksAhead(doc, place, limit)}}
FitAhead(doc, place, limit, loaded) ==
    {n \in ParagraphsAhead(doc, place, limit) : n >= limit \/ ~(n \in doc.indents /\ n < loaded)}

SnapsTo(doc, place, limit, loaded, s) ==
    LET ahead == BreaksAhead(doc, place, limit)
        fit == FitAhead(doc, place, limit, loaded)
    IN  /\ fit # {} => s = Least({limit, Least(fit)})
        /\ fit = {} /\ ahead # {} => s = Least({limit, Least(ahead) + 1})
        /\ fit = {} /\ ahead = {} => s = place

LEMMA SnapIs ==
    ASSUME NEW doc, NEW place, NEW limit, NEW loaded
    PROVE  SnapsTo(doc, place, limit, loaded, snapBoundary(doc, place, limit, loaded))
  BY DEF SnapsTo, snapBoundary, FitAhead, ParagraphsAhead, BreaksAhead, BoundOf

LEMMA AheadIs ==
    ASSUME NEW doc, doc.newlines \subseteq Nat, NEW place \in Nat, NEW limit \in Nat, place <= limit
    PROVE  /\ BoundOf(place, limit) \in Nat /\ BoundOf(place, limit) <= limit
           /\ BoundOf(place, limit) <= place + SnapSlack /\ place <= BoundOf(place, limit)
           /\ \A n \in BreaksAhead(doc, place, limit) : n \in Nat /\ place <= n /\ n + 1 <= BoundOf(place, limit)
           /\ \A n \in ParagraphsAhead(doc, place, limit) : n \in Nat /\ place <= n /\ n <= BoundOf(place, limit)
<1>1. PICK slack \in Nat : slack = SnapSlack
  BY ReadAssumption
<1>2. PICK bound : bound = BoundOf(place, limit)
  OBVIOUS
<1>3. LesserIs(bound, limit, place + slack)
  <2>1. PICK p \in Nat : p = place + slack
    BY <1>1
  <2>2. bound = Least({limit, p})
    BY <1>1, <1>2, <2>1 DEF BoundOf
  <2> QED
    BY <2>1, <2>2, OfTwo
<1>4. bound \in Nat /\ bound <= limit /\ bound <= place + slack /\ place <= bound
  BY <1>1, <1>3 DEF LesserIs
<1>5. \A n \in BreaksAhead(doc, place, limit) : n \in Nat /\ place <= n /\ n + 1 <= bound
  BY <1>2, <1>4 DEF BreaksAhead
<1>6. ASSUME NEW n \in ParagraphsAhead(doc, place, limit) PROVE n \in Nat /\ place <= n /\ n <= bound
  <2>1. PICK m : m \in BreaksAhead(doc, place, limit) /\ m + 1 \in BreaksAhead(doc, place, limit) /\ n = m + 2
    BY DEF ParagraphsAhead
  <2>2. m \in Nat /\ place <= m /\ m + 1 + 1 <= bound
    BY <1>5, <2>1
  <2> QED
    BY <2>1, <2>2, <1>4
<1> QED
  BY <1>1, <1>2, <1>4, <1>5, <1>6

\* It moves forward, at most by the slack, and never past the range.
SnappedFrom(s, place, limit) ==
    s \in Nat /\ place <= s /\ s <= limit /\ s <= place + SnapSlack

LEMMA SnapStays ==
    ASSUME NEW doc, doc.newlines \subseteq Nat, NEW place \in Nat, NEW limit \in Nat, place <= limit, NEW loaded
    PROVE  /\ SnappedFrom(snapBoundary(doc, place, limit, loaded), place, limit)
           /\ snapBoundary(doc, place, limit, loaded) <= BoundOf(place, limit)
           /\ FitAhead(doc, place, limit, loaded) # {} =>
                 snapBoundary(doc, place, limit, loaded) = Least(FitAhead(doc, place, limit, loaded))
<1>1. PICK slack \in Nat : slack = SnapSlack
  BY ReadAssumption
<1>2. PICK bound : bound = BoundOf(place, limit)
  OBVIOUS
<1>3. /\ bound \in Nat /\ bound <= limit /\ bound <= place + slack /\ place <= bound
      /\ \A n \in BreaksAhead(doc, place, limit) : n \in Nat /\ place <= n /\ n + 1 <= bound
      /\ \A n \in ParagraphsAhead(doc, place, limit) : n \in Nat /\ place <= n /\ n <= bound
  BY <1>1, <1>2, AheadIs
<1>4. PICK fit : fit = FitAhead(doc, place, limit, loaded)
  OBVIOUS
<1>5. PICK ahead : ahead = BreaksAhead(doc, place, limit)
  OBVIOUS
<1>6. PICK s : s = snapBoundary(doc, place, limit, loaded)
  OBVIOUS
<1>7. /\ fit # {} => s = Least({limit, Least(fit)})
      /\ fit = {} /\ ahead # {} => s = Least({limit, Least(ahead) + 1})
      /\ fit = {} /\ ahead = {} => s = place
  <2>1. SnapsTo(doc, place, limit, loaded, s)
    BY <1>6, SnapIs
  <2> QED
    BY <1>4, <1>5, <2>1 DEF SnapsTo
<1>8. \A n \in fit : n \in Nat /\ place <= n /\ n <= bound
  BY <1>3, <1>4 DEF FitAhead
<1>9. \A n \in ahead : n \in Nat /\ place <= n /\ n + 1 <= bound
  BY <1>3, <1>5
<1>10. ASSUME fit # {} PROVE s = Least(fit) /\ s \in Nat /\ place <= s /\ s <= bound
  <2>1. PICK l \in fit : l = Least(fit)
    BY <1>8, <1>10, LeastOfSome
  <2>2. l \in Nat /\ place <= l /\ l <= bound
    BY <1>8
  <2>3. LesserIs(Least({limit, l}), limit, l)
    BY <2>2, OfTwo
  <2>4. Least({limit, l}) = l
    BY <1>3, <2>2, <2>3 DEF LesserIs
  <2> QED
    BY <1>7, <1>10, <2>1, <2>2, <2>4
<1>11. ASSUME fit = {}, ahead # {} PROVE s \in Nat /\ place <= s /\ s <= bound
  <2>1. PICK l \in ahead : l = Least(ahead)
    BY <1>9, <1>11, LeastOfSome
  <2>2. l \in Nat /\ place <= l /\ l + 1 <= bound
    BY <1>9
  <2>3. LesserIs(Least({limit, l + 1}), limit, l + 1)
    <3>1. PICK p \in Nat : p = l + 1
      BY <2>2
    <3>2. LesserIs(Least({limit, p}), limit, p)
      BY <3>1, OfTwo
    <3> QED
      BY <3>1, <3>2
  <2>4. Least({limit, l + 1}) = l + 1
    BY <1>3, <2>2, <2>3 DEF LesserIs
  <2> QED
    BY <1>7, <1>11, <2>1, <2>2, <2>4
<1>12. s \in Nat /\ place <= s /\ s <= bound
  BY <1>3, <1>7, <1>10, <1>11
<1>13. SnappedFrom(s, place, limit)
  BY <1>1, <1>3, <1>12 DEF SnappedFrom
<1> QED
  BY <1>2, <1>4, <1>6, <1>10, <1>12, <1>13

\* The window before and the window after an end, which know more of what follows it, meet there.
LEMMA SnapsMeet ==
    ASSUME NEW doc, doc.newlines \subseteq Nat, NEW place \in Nat, NEW limit \in Nat, place <= limit,
           NEW before, before = BoundOf(place, limit), NEW after \in Nat, before <= after
    PROVE  LET to == snapBoundary(doc, place, limit, before)
               from == snapBoundary(doc, place, limit, after)
           IN  from <= to /\ (from = to \/ to \in doc.indents)
<1>1. PICK slack \in Nat : slack = SnapSlack
  BY ReadAssumption
<1>2. /\ before \in Nat /\ before <= limit
      /\ \A n \in ParagraphsAhead(doc, place, limit) : n \in Nat /\ n <= before
  BY AheadIs
<1>3. PICK to : to = snapBoundary(doc, place, limit, before)
  OBVIOUS
<1>4. PICK from : from = snapBoundary(doc, place, limit, after)
  OBVIOUS
<1>5. PICK first : first = FitAhead(doc, place, limit, before)
  OBVIOUS
<1>6. PICK then : then = FitAhead(doc, place, limit, after)
  OBVIOUS
<1>7. to \in Nat /\ to <= before /\ (first # {} => to = Least(first))
  BY <1>3, <1>5, SnapStays DEF SnappedFrom
<1>8. from \in Nat /\ from <= before /\ (then # {} => from = Least(then))
  BY <1>4, <1>6, SnapStays DEF SnappedFrom
<1>9. then \subseteq first /\ first \subseteq Nat
  BY <1>2, <1>5, <1>6 DEF FitAhead
<1>10. ASSUME NEW n \in first, n \notin then PROVE n = before /\ n \in doc.indents
  BY <1>2, <1>5, <1>6, <1>10 DEF FitAhead
<1>11. CASE then # {}
  <2>1. PICK l \in then : l = from /\ \A m \in then : l <= m
    <3>1. then \subseteq Nat
      BY <1>9
    <3> QED
      BY <1>8, <1>11, <3>1, LeastOfSome
  <2>2. PICK k \in first : k = to /\ \A m \in first : k <= m
    BY <1>7, <1>9, <2>1, LeastOfSome
  <2>3. k <= l
    BY <1>9, <2>1, <2>2
  <2>4. k \in then => l <= k
    BY <2>1
  <2>5. k \notin then => k = before
    BY <1>10
  <2>6. from = to
    BY <1>7, <1>8, <2>1, <2>2, <2>3, <2>4, <2>5
  <2> QED
    BY <1>3, <1>4, <1>7, <2>6
<1>12. CASE then = {} /\ first # {}
  <2>1. PICK k \in first : k = to
    BY <1>7, <1>9, <1>12, LeastOfSome
  <2>2. k = before /\ k \in doc.indents
    BY <1>10, <1>12
  <2> QED
    BY <1>3, <1>4, <1>8, <2>1, <2>2
<1>13. CASE then = {} /\ first = {}
  <2>1. from = to
    <3>1. SnapsTo(doc, place, limit, before, to)
      BY <1>3, SnapIs
    <3>2. SnapsTo(doc, place, limit, after, from)
      BY <1>4, SnapIs
    <3> QED
      BY <1>5, <1>6, <1>13, <3>1, <3>2 DEF SnapsTo
  <2> QED
    BY <1>3, <1>4, <1>7, <2>1
<1> QED
  BY <1>11, <1>12, <1>13

-----------------------------------------------------------------------------
(* What the windows show.                                                  *)
TextOfPages(doc) == doc.newlines \subseteq Nat /\ \E n : PagesMeet(doc.pages, n)
ShownIn(doc, range, i) == WindowShown(doc, range, planWindows(range, doc.pages)[i])

ShowsWell(w, start, end) ==
    /\ w.from \in Nat /\ w.to \in Nat /\ start <= w.from /\ w.from < end /\ end <= w.to
    /\ w.from <= start + SnapSlack
    /\ w.to <= w.from + WindowChars

LEMMA WindowShowsWell ==
    ASSUME NEW doc, TextOfPages(doc), NEW range, IsRange(range), NEW w \in GoodWindows,
           w.end <= range.end
    PROVE  LET seen == WindowShown(doc, range, w) IN
           /\ ShowsWell(seen, w.start, w.end)
           /\ ~w.softStart => seen.from = w.start
           /\ ~w.softEnd => seen.to = w.end
<1>1. PICK width \in Nat, slack \in Nat : width = WindowChars /\ slack = SnapSlack /\ slack > 0 /\ width > 3 * slack
  BY ReadAssumption
<1>2. PICK a \in Nat, b \in Nat, limit \in Nat : a = w.start /\ b = w.end /\ limit = range.end /\ a < b /\ b <= limit
  BY DEF GoodWindows, Windows, IsRange, Extents
<1>3. b <= a + width /\ (w.softEnd => b + slack <= a + width) /\ (w.softStart => a + slack < b)
  BY <1>1, <1>2 DEF GoodWindows
<1>4. PICK loaded : loaded = Least({range.end, w.end + SnapSlack})
  OBVIOUS
<1>5. PICK s : s = snapBoundary(doc, a, limit, loaded)
  OBVIOUS
<1>6. s \in Nat /\ a <= s /\ s <= a + slack
  BY <1>1, <1>2, <1>5, SnapStays DEF SnappedFrom, TextOfPages
<1>7. PICK t : t = snapBoundary(doc, b, limit, loaded)
  OBVIOUS
<1>8. t \in Nat /\ b <= t /\ t <= b + slack
  BY <1>1, <1>2, <1>7, SnapStays DEF SnappedFrom, TextOfPages
<1>9. PICK seen : seen = WindowShown(doc, range, w)
  OBVIOUS
<1>10. seen.from = (IF w.softStart THEN s ELSE a) /\ seen.to = (IF w.softEnd THEN t ELSE b)
  BY <1>2, <1>4, <1>5, <1>7, <1>9 DEF WindowShown
<1>11. seen.from \in Nat /\ a <= seen.from /\ seen.from < b /\ seen.from <= a + slack
  BY <1>1, <1>2, <1>3, <1>6, <1>10
<1>12. seen.to \in Nat /\ b <= seen.to /\ seen.to <= a + width
  BY <1>1, <1>2, <1>3, <1>8, <1>10
<1>13. ShowsWell(seen, a, b)
  <2>1. seen.to <= seen.from + width
    BY <1>1, <1>2, <1>11, <1>12
  <2> QED
    BY <1>1, <1>11, <1>12, <2>1 DEF ShowsWell
<1> QED
  BY <1>2, <1>9, <1>10, <1>13

LEMMA WindowsMeet ==
    ASSUME NEW doc, TextOfPages(doc), NEW range, IsRange(range), NEW v \in GoodWindows, NEW w \in GoodWindows,
           <<v, w>> \in Adjoining, w.end <= range.end
    PROVE  LET to == WindowShown(doc, range, v).to
               from == WindowShown(doc, range, w).from
           IN  from <= to /\ (from = to \/ to \in doc.indents)
<1>1. PICK width \in Nat, slack \in Nat : width = WindowChars /\ slack = SnapSlack /\ slack > 0
  BY ReadAssumption
<1>2. PICK b \in Nat, c \in Nat, limit \in Nat : b = w.start /\ c = w.end /\ limit = range.end /\ b < c /\ c <= limit
  BY DEF GoodWindows, Windows, IsRange, Extents
<1>3. v.end = b /\ v.softEnd = w.softStart /\ v.softEnd \in BOOLEAN
  BY <1>2 DEF Adjoining, Windows
<1>4. PICK before : before = Least({range.end, v.end + SnapSlack})
  OBVIOUS
<1>5. PICK after : after = Least({range.end, w.end + SnapSlack})
  OBVIOUS
<1>6. before = BoundOf(b, limit)
  BY <1>2, <1>3, <1>4 DEF BoundOf
<1>7. after \in Nat /\ before <= after
  <2>1. PICK p \in Nat, q \in Nat : p = b + slack /\ q = c + slack /\ p <= q
    BY <1>1, <1>2
  <2>2. before = Least({limit, p}) /\ after = Least({limit, q})
    BY <1>1, <1>2, <1>3, <1>4, <1>5, <2>1
  <2>3. LesserIs(before, limit, p) /\ LesserIs(after, limit, q)
    BY <2>2, OfTwo
  <2> QED
    BY <2>1, <2>3 DEF LesserIs
<1>8. PICK to : to = WindowShown(doc, range, v).to
  OBVIOUS
<1>9. PICK from : from = WindowShown(doc, range, w).from
  OBVIOUS
<1>10. to = (IF v.softEnd THEN snapBoundary(doc, b, limit, before) ELSE b)
  BY <1>2, <1>3, <1>4, <1>8 DEF WindowShown
<1>11. from = (IF v.softEnd THEN snapBoundary(doc, b, limit, after) ELSE b)
  BY <1>2, <1>3, <1>5, <1>9 DEF WindowShown
<1>12. CASE v.softEnd
  <2>1. LET t == snapBoundary(doc, b, limit, before)
            f == snapBoundary(doc, b, limit, after)
        IN  f <= t /\ (f = t \/ t \in doc.indents)
    BY <1>2, <1>6, <1>7, SnapsMeet DEF TextOfPages
  <2> QED
    BY <1>8, <1>9, <1>10, <1>11, <1>12, <2>1
<1>13. CASE ~v.softEnd
  BY <1>2, <1>8, <1>9, <1>10, <1>11, <1>13
<1> QED
  BY <1>12, <1>13

LEMMA PlanIsWithin ==
    ASSUME NEW from, NEW to \in Nat, NEW plan, Planned(plan, from, to), NEW n, n = Len(plan)
    PROVE  /\ n \in Nat /\ n > 0 /\ DOMAIN plan = 1 .. n
           /\ \A k \in 1 .. n : plan[k] \in GoodWindows /\ plan[k].end <= to
           /\ \A k \in 2 .. n : <<plan[k - 1], plan[k]>> \in Adjoining
<1>1. n \in Nat /\ n > 0 /\ DOMAIN plan = 1 .. n /\ (\A k \in 1 .. n : plan[k] \in GoodWindows)
      /\ plan[n].end = to
  BY DEF Planned, InARow
<1>2. ASSUME NEW k \in 2 .. n PROVE <<plan[k - 1], plan[k]>> \in Adjoining
  <2>1. PICK j \in 1 .. n - 1 : j = k - 1 /\ j + 1 = k
    <3>1. k - 1 \in 1 .. n - 1 /\ k - 1 + 1 = k
      BY <1>1
    <3> QED
      BY <3>1
  <2> QED
    BY <1>1, <2>1 DEF Planned, InARow
<1>3. ASSUME NEW k \in 1 .. n
      PROVE  plan[k].start \in Nat /\ plan[k].end \in Nat /\ plan[k].start < plan[k].end
  BY <1>1 DEF GoodWindows, Windows
<1> DEFINE H == {j \in 0 .. n : j < n => plan[n - j].end <= to}
<1>4. \A j \in 0 .. n : j \in H
  <2>1. 0 \in H
    BY <1>1
  <2>2. ASSUME NEW j \in 1 .. n, j - 1 \in H PROVE j \in H
    <3>1. ASSUME j < n PROVE plan[n - j].end <= to
      <4>1. PICK k \in 2 .. n : k - 1 = n - j /\ n - (j - 1) = k /\ k - 1 \in 1 .. n /\ k \in 1 .. n
        <5>1. PICK m : m = n - j + 1
          OBVIOUS
        <5>2. m \in 2 .. n /\ m - 1 = n - j /\ n - (j - 1) = m /\ m - 1 \in 1 .. n /\ m \in 1 .. n
          BY <1>1, <3>1, <5>1
        <5> QED
          BY <5>2, Zenon
      <4>2. plan[k].end <= to
        BY <2>2, <3>1, <4>1
      <4>3. plan[k - 1].end = plan[k].start
        BY <1>2 DEF Adjoining
      <4>4. plan[k].start < plan[k].end /\ plan[k].end \in Nat /\ plan[k].start \in Nat
        BY <1>3, <4>1
      <4> QED
        BY <4>1, <4>2, <4>3, <4>4
    <3> QED
      BY <1>1, <3>1
  <2> HIDE DEF H
  <2> QED
    BY <1>1, <2>1, <2>2, UpTo
<1>5. ASSUME NEW k \in 1 .. n PROVE plan[k].end <= to
  <2>1. PICK j \in 0 .. n : n - j = k /\ j < n
    <3>1. n - k \in 0 .. n /\ n - (n - k) = k /\ n - k < n
      BY <1>1
    <3> QED
      BY <3>1
  <2>2. j \in H
    BY <1>4
  <2> QED
    BY <2>1, <2>2
<1> QED
  BY <1>1, <1>2, <1>5

(* A range of a document is read whole by the windows that are planned for *)
(* it, however its pages are cut and wherever its paragraphs, lines and    *)
(* footnotes are: the first shows its start and the last its end; each     *)
(* shows something, and no more than a window may; each begins where the   *)
(* one before it ended, or before that place and after its start where a   *)
(* footnote continues at the edge of what the store gave.                  *)
THEOREM WindowsReadTheRange ==
    ASSUME NEW doc, TextOfPages(doc), NEW range, IsRange(range), RangeCutsLong(range)
    PROVE  LET windows == Len(planWindows(range, doc.pages))
               seen(i) == WindowShown(doc, range, planWindows(range, doc.pages)[i])
           IN  /\ windows \in Nat \ {0}
               /\ seen(1).from = range.start /\ seen(windows).to = range.end
               /\ \A i \in 1 .. windows : /\ seen(i).from \in Nat /\ seen(i).to \in Nat
                                          /\ seen(i).from < seen(i).to
                                          /\ seen(i).to <= seen(i).from + WindowChars
               /\ \A i \in 2 .. windows : /\ seen(i - 1).from < seen(i).from /\ seen(i).from <= seen(i - 1).to
                                          /\ seen(i).from = seen(i - 1).to \/ seen(i - 1).to \in doc.indents
<1>1. PICK pages : PagesMeet(doc.pages, pages)
  BY DEF TextOfPages
<1>2. PICK plan : plan = planWindows(range, doc.pages) /\ Planned(plan, range.start, range.end)
  BY <1>1, WindowsAreThePlan
<1>3. PICK n : n = Len(plan)
  OBVIOUS
<1>4. range.end \in Nat
  BY DEF IsRange, Extents
<1>5. /\ n \in Nat /\ n > 0 /\ DOMAIN plan = 1 .. n
      /\ \A k \in 1 .. n : plan[k] \in GoodWindows /\ plan[k].end <= range.end
      /\ \A k \in 2 .. n : <<plan[k - 1], plan[k]>> \in Adjoining
  BY <1>2, <1>3, <1>4, PlanIsWithin
<1>6. /\ plan[1].start = range.start /\ ~plan[1].softStart
      /\ plan[n].end = range.end /\ ~plan[n].softEnd
  BY <1>2, <1>3 DEF Planned
<1> DEFINE seen(i) == WindowShown(doc, range, plan[i])
<1>7. ASSUME NEW i \in 1 .. n
      PROVE  /\ ShowsWell(seen(i), plan[i].start, plan[i].end)
             /\ ~plan[i].softStart => seen(i).from = plan[i].start
             /\ ~plan[i].softEnd => seen(i).to = plan[i].end
             /\ plan[i].start \in Nat /\ plan[i].end \in Nat /\ plan[i].start < plan[i].end
             /\ plan[i].softStart => plan[i].start + SnapSlack < plan[i].end
  <2>1. plan[i] \in GoodWindows /\ plan[i].end <= range.end
    BY <1>5
  <2>2. plan[i].start \in Nat /\ plan[i].end \in Nat /\ plan[i].start < plan[i].end
        /\ (plan[i].softStart => plan[i].start + SnapSlack < plan[i].end)
    BY <2>1 DEF GoodWindows, Windows
  <2> QED
    BY <2>1, <2>2, WindowShowsWell
<1>8. ASSUME NEW i \in 2 .. n
      PROVE  /\ seen(i - 1).from < seen(i).from /\ seen(i).from <= seen(i - 1).to
             /\ seen(i).from = seen(i - 1).to \/ seen(i - 1).to \in doc.indents
  <2>1. PICK j \in 1 .. n : j = i - 1
    <3>1. i - 1 \in 1 .. n
      BY <1>5
    <3> QED
      BY <3>1
  <2>2. i \in 1 .. n
    BY <1>5
  <2>3. <<plan[j], plan[i]>> \in Adjoining /\ plan[j] \in GoodWindows /\ plan[i] \in GoodWindows /\ plan[i].end <= range.end
    BY <1>5, <2>1, <2>2
  <2>4. seen(i).from <= seen(j).to /\ (seen(i).from = seen(j).to \/ seen(j).to \in doc.indents)
    BY <2>3, WindowsMeet
  <2>5. plan[j].end = plan[i].start
    BY <2>3 DEF Adjoining
  <2>6. ShowsWell(seen(j), plan[j].start, plan[j].end) /\ ShowsWell(seen(i), plan[i].start, plan[i].end)
        /\ plan[i].start \in Nat
    BY <1>7, <2>1, <2>2
  <2> HIDE DEF seen
  <2>7. seen(j).from < seen(i).from
    BY <2>5, <2>6 DEF ShowsWell
  <2> QED
    BY <2>1, <2>4, <2>7
<1>9. seen(1).from = range.start /\ seen(n).to = range.end
  <2>1. 1 \in 1 .. n /\ n \in 1 .. n
    BY <1>5
  <2> HIDE DEF seen
  <2> QED
    BY <1>6, <1>7, <2>1
<1>10. ASSUME NEW i \in 1 .. n
       PROVE  /\ seen(i).from \in Nat /\ seen(i).to \in Nat
              /\ seen(i).from < seen(i).to /\ seen(i).to <= seen(i).from + WindowChars
  <2>1. ShowsWell(seen(i), plan[i].start, plan[i].end) /\ plan[i].end \in Nat
    BY <1>7
  <2> HIDE DEF seen
  <2> QED
    BY <2>1 DEF ShowsWell
<1>11. n \in Nat \ {0}
  BY <1>5
<1> QED
  BY <1>2, <1>3, <1>8, <1>9, <1>10, <1>11

-----------------------------------------------------------------------------
(* Documents as the store has them: the pages are of the text, and no two  *)
(* have one label; the sections are of the text, each with an ord of its   *)
(* own, and a designation, where it has one, of its own.                   *)
Readable(doc) ==
    /\ TextOfPages(doc)
    /\ doc.length \in Nat /\ doc.length > 0 /\ RangeCutsLong([start |-> 0, end |-> doc.length])
    /\ \A i \in DOMAIN doc.pages : doc.pages[i].start < doc.pages[i].end /\ doc.pages[i].end <= doc.length
    /\ \A i, j \in DOMAIN doc.pages : doc.pages[i].label = doc.pages[j].label => i = j
    /\ \A s \in doc.sections : s.start \in Nat /\ s.end \in Nat /\ s.start < s.end /\ s.end <= doc.length
    /\ \A s, t \in doc.sections : s.ord = t.ord => s = t
    /\ \A s, t \in doc.sections : s.key = t.key /\ s.key # 0 => s = t

Span(start, end) == [start |-> start, end |-> end]

\* Windows of a range are what a call names, whatever window it asks for.
Names(doc, made, offered, range) ==
    \A p \in Nat : filesGetDocument(doc, [made EXCEPT !.page = p])
                   = rangeAnswer(doc, range, [offered EXCEPT !.page = p], FALSE)

LEMMA RangesWithin ==
    ASSUME NEW doc, Readable(doc), NEW a \in Nat, NEW b \in Nat, a < b, b <= doc.length
    PROVE  IsRange(Span(a, b)) /\ RangeCutsLong(Span(a, b))
<1>1. Span(a, b).start = a /\ Span(a, b).end = b /\ Span(a, b) \in Extents
  BY DEF Span, Extents
<1>2. IsRange(Span(a, b))
  BY <1>1 DEF IsRange
<1>3. ASSUME NEW len \in Nat, len <= b - a, len > WindowChars PROVE LongCuts(len)
  <2>1. doc.length \in Nat /\ \A l \in Nat : l <= doc.length - 0 /\ l > WindowChars => LongCuts(l)
    BY DEF Readable, RangeCutsLong
  <2>2. len <= doc.length - 0
    BY <1>3, <2>1
  <2> QED
    BY <1>3, <2>1, <2>2
<1> QED
  BY <1>1, <1>2, <1>3 DEF RangeCutsLong

LEMMA TextIsAnswered ==
    ASSUME NEW doc, NEW made, NEW named \in BOOLEAN, NEW span,
           named \/ made.at # <<>> \/ ~(isLong(doc) /\ doc.sections # {})
    PROVE  AnswerIn(doc, made, named, <<span>>, FALSE) = rangeAnswer(doc, span, made, FALSE)
<1>1. PICK range : range = <<span>> /\ range # <<>> /\ range[1] = span
  <2>1. Len(<<span>>) = 1 /\ Len(<<>>) = 0
    OBVIOUS
  <2>2. <<span>> # <<>>
    BY <2>1
  <2>3. <<span>>[1] = span
    OBVIOUS
  <2> QED
    BY <2>2, <2>3, Zenon
<1>2. ~(~named /\ made.at = <<>> /\ made.mn = <<>> /\ isLong(doc) /\ doc.sections # {})
  OBVIOUS
<1>3. AnswerIn(doc, made, named, range, FALSE) = rangeAnswer(doc, range[1], made, FALSE)
  BY <1>1, <1>2 DEF AnswerIn
<1> QED
  BY <1>1, <1>3

LEMMA NoPages ==
    ASSUME NEW doc
    PROVE  resolvePages(doc, <<>>) = <<>>
  BY DEF resolvePages

LEMMA WholeIsNamed ==
    ASSUME NEW doc, ~(isLong(doc) /\ doc.sections # {})
    PROVE  Names(doc, WholeCall, WholeCall, Span(0, doc.length))
<1> SUFFICES ASSUME NEW p \in Nat
             PROVE  filesGetDocument(doc, [WholeCall EXCEPT !.page = p])
                    = rangeAnswer(doc, Span(0, doc.length), [WholeCall EXCEPT !.page = p], FALSE)
  BY DEF Names
<1>1. PICK made : made = [WholeCall EXCEPT !.page = p]
  OBVIOUS
<1>2. made.section.by = "none" /\ made.at = <<>> /\ made.mn = <<>>
  BY <1>1 DEF WholeCall, Call, NoSection
<1>3. PICK span : span = Span(0, doc.length)
  OBVIOUS
<1>4. filesGetDocument(doc, made) = AnswerTo(doc, made, FALSE, span, <<>>)
  BY <1>2, <1>3, NoPages DEF filesGetDocument, Span
<1>5. RangeOf(doc, made, FALSE, span, <<>>) = <<span>>
  BY <1>2 DEF RangeOf
<1>6. (~FALSE /\ made.mn = <<>> /\ Len(<<>>) = 1) = FALSE
  <2>1. Len(<<>>) = 0
    OBVIOUS
  <2>2. Len(<<>>) # 1
    BY <2>1
  <2> QED
    BY <2>2, Zenon
<1>7. AnswerTo(doc, made, FALSE, span, <<>>) = AnswerIn(doc, made, FALSE, <<span>>, FALSE)
  BY <1>5, <1>6, Zenon DEF AnswerTo
<1>8. AnswerIn(doc, made, FALSE, <<span>>, FALSE) = rangeAnswer(doc, span, made, FALSE)
  BY TextIsAnswered, Zenon
<1> QED
  BY <1>1, <1>3, <1>4, <1>7, <1>8, Zenon

LEMMA SectionIsNamed ==
    ASSUME NEW doc, NEW s, NEW loc, loc.by # "none", resolveSection(doc, loc) = {s}
    PROVE  Names(doc, Call(loc, <<>>, <<>>, 1), Call(sectionHint(s), <<>>, <<>>, 1), Span(s.start, s.end))
<1> SUFFICES ASSUME NEW p \in Nat
             PROVE  filesGetDocument(doc, [Call(loc, <<>>, <<>>, 1) EXCEPT !.page = p])
                    = rangeAnswer(doc, Span(s.start, s.end), [Call(sectionHint(s), <<>>, <<>>, 1) EXCEPT !.page = p], FALSE)
  BY DEF Names
<1>1. PICK made : made = [Call(loc, <<>>, <<>>, 1) EXCEPT !.page = p]
  OBVIOUS
<1>2. PICK hint : hint = sectionHint(s)
  OBVIOUS
<1>3. PICK offered : offered = [Call(hint, <<>>, <<>>, 1) EXCEPT !.page = p]
  OBVIOUS
<1>4. made.section = loc /\ made.at = <<>> /\ offered.at = <<>> /\ offered.mn = <<>>
  BY <1>1, <1>3 DEF Call
<1>5. [made EXCEPT !.section = hint] = offered
  <2>1. made = [section |-> loc, at |-> <<>>, mn |-> <<>>, page |-> p]
    BY <1>1 DEF Call
  <2>2. offered = [section |-> hint, at |-> <<>>, mn |-> <<>>, page |-> p]
    BY <1>3 DEF Call
  <2> QED
    BY ONLY <2>1, <2>2
<1>6. PICK span : span = Span(s.start, s.end)
  OBVIOUS
<1>7. PICK matches : matches = resolveSection(doc, made.section) /\ matches = {s}
  BY <1>4
<1>8. Cardinality(matches) = 1 /\ (CHOOSE t \in matches : TRUE) = s
  BY <1>7, FS_Singleton
<1>9. filesGetDocument(doc, made) = AnswerTo(doc, offered, TRUE, span, <<>>)
  BY <1>2, <1>4, <1>5, <1>6, <1>7, <1>8, NoPages DEF filesGetDocument, Span
<1>10. RangeOf(doc, offered, TRUE, span, <<>>) = <<span>>
  BY <1>4 DEF RangeOf
<1>11. (~TRUE /\ offered.mn = <<>> /\ Len(<<>>) = 1) = FALSE
  BY Zenon
<1>12. AnswerTo(doc, offered, TRUE, span, <<>>) = AnswerIn(doc, offered, TRUE, <<span>>, FALSE)
  BY <1>10, <1>11, Zenon DEF AnswerTo
<1>13. AnswerIn(doc, offered, TRUE, <<span>>, FALSE) = rangeAnswer(doc, span, offered, FALSE)
  BY TextIsAnswered, Zenon
<1> QED
  BY <1>1, <1>2, <1>3, <1>6, <1>9, <1>12, <1>13, Zenon

LEMMA PagesInOrder ==
    ASSUME NEW pages, NEW n, PagesMeet(pages, n), NEW i \in 1 .. n, NEW j \in 1 .. n, i <= j
    PROVE  pages[i].start <= pages[j].start /\ pages[i].start \in Nat /\ pages[j].start \in Nat
<1>1. n \in Nat /\ (\A k \in 1 .. n : pages[k].start \in Nat /\ pages[k].end \in Nat /\ pages[k].start <= pages[k].end)
      /\ \A k \in 2 .. n : pages[k].start = pages[k - 1].end
  BY DEF PagesMeet
<1> DEFINE G == {k \in 0 .. n : i <= k => pages[i].start <= pages[k].start}
<1>2. 0 \in G
  BY <1>1
<1>3. ASSUME NEW k \in 1 .. n, k - 1 \in G PROVE k \in G
  <2>1. CASE k <= i
    BY <1>1, <2>1
  <2>2. CASE ~(k <= i)
    <3>1. k \in 2 .. n /\ k - 1 \in 1 .. n /\ i <= k - 1
      BY <1>1, <2>2
    <3>2. pages[i].start <= pages[k - 1].start
      BY <1>3, <3>1
    <3>3. pages[k].start = pages[k - 1].end /\ pages[k - 1].start <= pages[k - 1].end
      BY <1>1, <3>1
    <3>4. pages[i].start \in Nat /\ pages[k - 1].start \in Nat /\ pages[k - 1].end \in Nat /\ pages[k].start \in Nat
      BY <1>1, <3>1
    <3>5. pages[i].start <= pages[k].start
      BY <3>2, <3>3, <3>4
    <3> QED
      BY <3>5
  <2> QED
    BY <2>1, <2>2
<1> HIDE DEF G
<1>4. \A k \in 0 .. n : k \in G
  BY <1>1, <1>2, <1>3, UpTo
<1>5. j \in 0 .. n
  BY <1>1
<1> QED
  BY <1>1, <1>4, <1>5 DEF G

Labelled(doc, l) == {i \in DOMAIN doc.pages : doc.pages[i].label = l}
NthOf(doc, p) == {i \in Labelled(doc, p[1]) : Cardinality({k \in Labelled(doc, p[1]) : k <= i}) = p[2]}

LEMMA LabelsAreOnes ==
    ASSUME NEW doc, Readable(doc), NEW i \in DOMAIN doc.pages
    PROVE  NthOf(doc, <<doc.pages[i].label, 1>>) = {i}
<1>1. PICK l : l = doc.pages[i].label
  OBVIOUS
<1>2. PICK p : p = <<l, 1>> /\ p[1] = l /\ p[2] = 1
  <2>1. <<l, 1>>[1] = l /\ <<l, 1>>[2] = 1
    OBVIOUS
  <2> QED
    BY <2>1, Zenon
<1>3. Labelled(doc, l) = {i}
  BY <1>1, Zenon DEF Labelled, Readable
<1>4. i \in Nat
  BY DEF Readable, TextOfPages, PagesMeet
<1>5. {k \in {i} : k <= i} = {i}
  BY <1>4
<1>6. Cardinality({i}) = 1
  BY FS_Singleton
<1>7. \A k \in {i} : Cardinality({m \in {i} : m <= k}) = 1
  BY <1>5, <1>6
<1> QED
  BY <1>1, <1>2, <1>3, <1>7, Zenon DEF NthOf

LEMMA TwoPagesAreFound ==
    ASSUME NEW doc, Readable(doc), NEW i \in DOMAIN doc.pages, NEW j \in DOMAIN doc.pages, i < j
    PROVE  resolvePages(doc, << <<doc.pages[i].label, 1>>, <<doc.pages[j].label, 1>> >>)
           = <<doc.pages[i], doc.pages[j]>>
<1>1. PICK a, b : a = <<doc.pages[i].label, 1>> /\ b = <<doc.pages[j].label, 1>>
  OBVIOUS
<1>2. PICK two : two = <<a, b>> /\ DOMAIN two = {1, 2} /\ two[1] = a /\ two[2] = b /\ two # <<>>
  <2>1. DOMAIN <<a, b>> = {1, 2} /\ <<a, b>>[1] = a /\ <<a, b>>[2] = b
    OBVIOUS
  <2>2. Len(<<a, b>>) = 2 /\ Len(<<>>) = 0
    OBVIOUS
  <2>3. <<a, b>> # <<>>
    BY <2>2
  <2> QED
    BY <2>1, <2>3, Zenon
<1> DEFINE both == [k \in DOMAIN two |-> doc.pages[CHOOSE m \in NthOf(doc, two[k]) : TRUE]]
<1>3. resolvePages(doc, two) = IF two # <<>> /\ (\A k \in DOMAIN two : NthOf(doc, two[k]) # {}) /\ both[1].start <= Last(both).start
                               THEN both ELSE <<>>
  BY Zenon DEF resolvePages, NthOf, Labelled
<1>4. NthOf(doc, a) = {i} /\ NthOf(doc, b) = {j}
  BY <1>1, LabelsAreOnes, Zenon
<1>5. \A k \in DOMAIN two : NthOf(doc, two[k]) # {}
  BY <1>2, <1>4
<1>6. (CHOOSE m \in {i} : TRUE) = i /\ (CHOOSE m \in {j} : TRUE) = j
  OBVIOUS
<1>7. both = [k \in {1, 2} |-> doc.pages[CHOOSE m \in NthOf(doc, two[k]) : TRUE]]
  BY <1>2, Zenon
<1>8. PICK pair : pair = both
  OBVIOUS
<1>9. DOMAIN pair = {1, 2} /\ pair[1] = doc.pages[i] /\ pair[2] = doc.pages[j] /\ pair = [k \in {1, 2} |-> pair[k]]
  <2>1. DOMAIN pair = {1, 2} /\ pair = [k \in {1, 2} |-> pair[k]]
    BY <1>7, <1>8
  <2>2. pair[1] = doc.pages[CHOOSE m \in NthOf(doc, two[1]) : TRUE] /\ pair[2] = doc.pages[CHOOSE m \in NthOf(doc, two[2]) : TRUE]
    BY <1>7, <1>8
  <2>3. pair[1] = doc.pages[i] /\ pair[2] = doc.pages[j]
    BY <1>2, <1>4, <1>6, <2>2, Zenon
  <2> QED
    BY <2>1, <2>3
<1> HIDE DEF both
<1>10. pair = <<doc.pages[i], doc.pages[j]>>
  <2>1. PICK x, y : x = doc.pages[i] /\ y = doc.pages[j]
    OBVIOUS
  <2>2. <<x, y>> = [k \in {1, 2} |-> <<x, y>>[k]] /\ <<x, y>>[1] = x /\ <<x, y>>[2] = y
    OBVIOUS
  <2>3. \A k \in {1, 2} : pair[k] = <<x, y>>[k]
    BY <1>9, <2>1, <2>2
  <2> QED
    BY <1>9, <2>1, <2>2, <2>3
<1>11. pair[1].start <= Last(pair).start
  <2>1. PICK n : PagesMeet(doc.pages, n)
    BY DEF Readable, TextOfPages
  <2>2. i \in 1 .. n /\ j \in 1 .. n /\ i <= j
    BY <2>1 DEF PagesMeet
  <2>3. doc.pages[i].start <= doc.pages[j].start
    BY <2>1, <2>2, PagesInOrder
  <2>4. Len(<<doc.pages[i], doc.pages[j]>>) = 2
    OBVIOUS
  <2>5. Last(pair) = pair[2]
    BY <1>10, <2>4 DEF Last
  <2> QED
    BY <1>9, <2>3, <2>5
<1>12. resolvePages(doc, two) = pair
  BY <1>2, <1>3, <1>5, <1>8, <1>11, Zenon
<1> QED
  BY <1>1, <1>2, <1>10, <1>12, Zenon

LEMMA PagesAreNamed ==
    ASSUME NEW doc, Readable(doc), NEW i \in DOMAIN doc.pages, NEW j \in DOMAIN doc.pages, i < j,
           NEW at2, at2 = << <<doc.pages[i].label, 1>>, <<doc.pages[j].label, 1>> >>
    PROVE  Names(doc, Call(NoSection, at2, <<>>, 1), Call(NoSection, at2, <<>>, 1),
                 Span(doc.pages[i].start, doc.pages[j].end))
<1> SUFFICES ASSUME NEW p \in Nat
             PROVE  filesGetDocument(doc, [Call(NoSection, at2, <<>>, 1) EXCEPT !.page = p])
                    = rangeAnswer(doc, Span(doc.pages[i].start, doc.pages[j].end),
                                  [Call(NoSection, at2, <<>>, 1) EXCEPT !.page = p], FALSE)
  BY DEF Names
<1>1. PICK made : made = [Call(NoSection, at2, <<>>, 1) EXCEPT !.page = p]
  OBVIOUS
<1>2. made.section.by = "none" /\ made.at = at2 /\ made.mn = <<>>
  BY <1>1 DEF Call, NoSection
<1>3. at2 # <<>>
  <2>1. Len(at2) = 2 /\ Len(<<>>) = 0
    OBVIOUS
  <2> QED
    BY <2>1
<1>4. PICK both : both = resolvePages(doc, at2) /\ both = <<doc.pages[i], doc.pages[j]>>
  BY TwoPagesAreFound, Zenon
<1>5. Len(both) = 2 /\ both[1] = doc.pages[i] /\ both[2] = doc.pages[j] /\ both # <<>> /\ Last(both) = doc.pages[j]
  <2>1. PICK x, y : x = doc.pages[i] /\ y = doc.pages[j]
    OBVIOUS
  <2>2. Len(<<x, y>>) = 2 /\ <<x, y>>[1] = x /\ <<x, y>>[2] = y /\ Len(<<>>) = 0
    OBVIOUS
  <2>3. Len(both) = 2 /\ both[1] = x /\ both[2] = y
    BY <1>4, <2>1, <2>2, Zenon
  <2>4. both # <<>>
    <3>1. 2 # 0
      OBVIOUS
    <3> QED
      BY <2>2, <2>3, <3>1, Zenon
  <2>5. Last(both) = y
    BY <2>3 DEF Last
  <2> QED
    BY <2>1, <2>3, <2>4, <2>5, Zenon
<1>6. PICK whole : whole = [start |-> 0, end |-> doc.length]
  OBVIOUS
<1>7. PICK span : span = Span(doc.pages[i].start, doc.pages[j].end)
  OBVIOUS
<1>8. filesGetDocument(doc, made) = AnswerTo(doc, made, FALSE, whole, both)
  BY <1>2, <1>4, <1>6, Zenon DEF filesGetDocument
<1>9. RangeOf(doc, made, FALSE, whole, both) = <<span>>
  <2>1. Len(both) # 1
    BY <1>5
  <2>2. [start |-> both[1].start, end |-> IF Len(both) = 1 THEN doc.length ELSE Last(both).end] = span
    BY <1>5, <1>7, <2>1, Zenon DEF Span
  <2>3. RangeOf(doc, made, FALSE, whole, both)
        = <<[start |-> both[1].start, end |-> IF Len(both) = 1 THEN doc.length ELSE Last(both).end]>>
    BY <1>2, <1>3, <1>5, Zenon DEF RangeOf
  <2> QED
    BY <2>2, <2>3, Zenon
<1>10. (~FALSE /\ made.mn = <<>> /\ Len(both) = 1) = FALSE
  <2>1. Len(both) # 1
    BY <1>5
  <2> QED
    BY <2>1, Zenon
<1>11. AnswerTo(doc, made, FALSE, whole, both) = AnswerIn(doc, made, FALSE, <<span>>, FALSE)
  BY <1>9, <1>10, Zenon DEF AnswerTo
<1>12. AnswerIn(doc, made, FALSE, <<span>>, FALSE) = rangeAnswer(doc, span, made, FALSE)
  BY <1>2, <1>3, TextIsAnswered, Zenon
<1> QED
  BY <1>1, <1>7, <1>8, <1>11, <1>12, Zenon

-----------------------------------------------------------------------------
(* A reader who follows the calls that answers offer.                      *)
FirstWindow(made) == \E section, where, mn : made = Call(section, where, mn, 1)

Serves(doc, goal, range, offered) ==
    /\ IsRange(range) /\ RangeCutsLong(range) /\ range.start = goal.from /\ range.end = goal.to
    /\ FirstWindow(goal.call) /\ FirstWindow(offered)
    /\ Names(doc, goal.call, offered, range) /\ Names(doc, offered, offered, range)

LEMMA GoalsAreServed ==
    ASSUME NEW doc, Readable(doc), NEW goal \in Goals(doc), ~goal.hit
    PROVE  \E range, offered : Serves(doc, goal, range, offered)
<1>1. CASE goal = [call |-> WholeCall, from |-> 0, to |-> doc.length, hit |-> FALSE] /\ ~(isLong(doc) /\ doc.sections # {})
  <2>1. PICK range : range = Span(0, doc.length)
    OBVIOUS
  <2>2. IsRange(range) /\ RangeCutsLong(range)
    <3>1. 0 \in Nat /\ doc.length \in Nat /\ 0 < doc.length /\ doc.length <= doc.length
      BY DEF Readable
    <3> QED
      BY <2>1, <3>1, RangesWithin
  <2>3. range.start = goal.from /\ range.end = goal.to /\ goal.call = WholeCall
    BY <1>1, <2>1 DEF Span
  <2>4. FirstWindow(WholeCall)
    BY DEF FirstWindow, WholeCall
  <2>5. Names(doc, WholeCall, WholeCall, range)
    BY <1>1, <2>1, WholeIsNamed
  <2>6. Serves(doc, goal, range, WholeCall)
    BY <2>2, <2>3, <2>4, <2>5, Zenon DEF Serves
  <2> QED
    BY <2>6
<1>2. ASSUME NEW s \in doc.sections,
             goal = [call |-> Call([by |-> "ord", of |-> s.ord], <<>>, <<>>, 1), from |-> s.start, to |-> s.end, hit |-> FALSE]
      PROVE  \E range, offered : Serves(doc, goal, range, offered)
  <2>1. PICK range : range = Span(s.start, s.end)
    OBVIOUS
  <2>2. IsRange(range) /\ RangeCutsLong(range)
    <3>1. s.start \in Nat /\ s.end \in Nat /\ s.start < s.end /\ s.end <= doc.length
      BY DEF Readable
    <3> QED
      BY <2>1, <3>1, RangesWithin
  <2>3. PICK loc : loc = [by |-> "ord", of |-> s.ord] /\ loc.by = "ord" /\ loc.of = s.ord
    <3>1. PICK o : o = s.ord
      OBVIOUS
    <3>2. [by |-> "ord", of |-> o].by = "ord" /\ [by |-> "ord", of |-> o].of = o
      OBVIOUS
    <3> QED
      BY <3>1, <3>2, Zenon
  <2>4. PICK hint : hint = sectionHint(s)
    OBVIOUS
  <2>5. loc.by # "none" /\ resolveSection(doc, loc) = {s}
    <3>1. {t \in doc.sections : t.ord = loc.of} = {s}
      BY <2>3, Zenon DEF Readable
    <3>2. resolveSection(doc, loc) = {t \in doc.sections : t.ord = loc.of}
      BY <2>3 DEF resolveSection
    <3> QED
      BY <2>3, <3>1, <3>2
  <2>6. hint.by # "none" /\ resolveSection(doc, hint) = {s}
    <3>1. CASE s.key # 0
      <4>1. hint = [by |-> "key", of |-> s.key]
        BY <2>4, <3>1, Zenon DEF sectionHint
      <4>2. hint.by = "key" /\ hint.of = s.key
        BY <4>1
      <4>3. {t \in doc.sections : t.key = hint.of} = {s}
        BY <3>1, <4>2, Zenon DEF Readable
      <4>4. {t \in doc.sections : t.key = hint.of} # {}
        BY <4>3
      <4>5. resolveSection(doc, hint) = {t \in doc.sections : t.key = hint.of}
        BY <4>2, <4>4 DEF resolveSection
      <4> QED
        BY <4>2, <4>3, <4>5
    <3>2. CASE s.key = 0
      <4>1. hint = loc
        BY <2>3, <2>4, <3>2, Zenon DEF sectionHint
      <4> QED
        BY <2>5, <4>1
    <3> QED
      BY <3>1, <3>2
  <2>7. PICK offered : offered = Call(hint, <<>>, <<>>, 1)
    OBVIOUS
  <2>8. goal.call = Call(loc, <<>>, <<>>, 1) /\ goal.from = s.start /\ goal.to = s.end
    BY <1>2, <2>3
  <2>9. Names(doc, goal.call, offered, range)
    BY <2>1, <2>4, <2>5, <2>7, <2>8, SectionIsNamed, Zenon
  <2>10. Names(doc, offered, offered, range)
    BY <2>1, <2>4, <2>6, <2>7, SectionIsNamed, Zenon
  <2>11. FirstWindow(goal.call) /\ FirstWindow(offered)
    BY <2>7, <2>8, Zenon DEF FirstWindow
  <2>12. range.start = goal.from /\ range.end = goal.to
    BY <2>1, <2>8 DEF Span
  <2>13. Serves(doc, goal, range, offered)
    BY <2>2, <2>9, <2>10, <2>11, <2>12, Zenon DEF Serves
  <2> QED
    BY <2>13
<1>3. ASSUME NEW i \in DOMAIN doc.pages, NEW j \in DOMAIN doc.pages, i < j,
             goal = [call |-> Call(NoSection, << <<doc.pages[i].label, 1>>, <<doc.pages[j].label, 1>> >>, <<>>, 1),
                     from |-> doc.pages[i].start, to |-> doc.pages[j].end, hit |-> FALSE]
      PROVE  \E range, offered : Serves(doc, goal, range, offered)
  <2>1. PICK range : range = Span(doc.pages[i].start, doc.pages[j].end)
    OBVIOUS
  <2>2. PICK n : PagesMeet(doc.pages, n)
    BY DEF Readable, TextOfPages
  <2>3. i \in 1 .. n /\ j \in 1 .. n /\ i <= j /\ n \in Nat
        /\ \A k \in 1 .. n : doc.pages[k].start \in Nat /\ doc.pages[k].end \in Nat
    BY <1>3, <2>2 DEF PagesMeet
  <2>4. doc.pages[i].start <= doc.pages[j].start
    BY <2>2, <2>3, PagesInOrder
  <2>5. doc.pages[j].start < doc.pages[j].end /\ doc.pages[j].end <= doc.length
    BY Zenon DEF Readable
  <2>6. doc.pages[i].start \in Nat /\ doc.pages[j].end \in Nat /\ doc.pages[i].start < doc.pages[j].end
    BY <2>3, <2>4, <2>5
  <2>7. IsRange(range) /\ RangeCutsLong(range)
    BY <2>1, <2>5, <2>6, RangesWithin
  <2>8. PICK two : two = << <<doc.pages[i].label, 1>>, <<doc.pages[j].label, 1>> >>
    OBVIOUS
  <2>9. PICK made : made = Call(NoSection, two, <<>>, 1)
    OBVIOUS
  <2>10. goal.call = made /\ goal.from = doc.pages[i].start /\ goal.to = doc.pages[j].end
    BY <1>3, <2>8, <2>9
  <2>11. Names(doc, made, made, range)
    BY <1>3, <2>1, <2>8, <2>9, PagesAreNamed, Zenon
  <2>12. FirstWindow(made)
    BY <2>9, Zenon DEF FirstWindow
  <2>13. range.start = goal.from /\ range.end = goal.to
    BY <2>1, <2>10 DEF Span
  <2>14. Serves(doc, goal, range, made)
    BY <2>7, <2>10, <2>11, <2>12, <2>13, Zenon DEF Serves
  <2> QED
    BY <2>14
<1>4. \/ goal = [call |-> WholeCall, from |-> 0, to |-> doc.length, hit |-> FALSE] /\ ~(isLong(doc) /\ doc.sections # {})
      \/ \E s \in doc.sections :
            goal = [call |-> Call([by |-> "ord", of |-> s.ord], <<>>, <<>>, 1), from |-> s.start, to |-> s.end, hit |-> FALSE]
      \/ \E i, j \in DOMAIN doc.pages : i < j /\
            goal = [call |-> Call(NoSection, << <<doc.pages[i].label, 1>>, <<doc.pages[j].label, 1>> >>, <<>>, 1),
                    from |-> doc.pages[i].start, to |-> doc.pages[j].end, hit |-> FALSE]
  <2> DEFINE whole == {[call |-> WholeCall, from |-> 0, to |-> doc.length, hit |-> FALSE]}
             section(s) == [call |-> Call([by |-> "ord", of |-> s.ord], <<>>, <<>>, 1), from |-> s.start, to |-> s.end, hit |-> FALSE]
             pages(i, j) == [call |-> Call(NoSection, << <<doc.pages[i].label, 1>>, <<doc.pages[j].label, 1>> >>, <<>>, 1),
                             from |-> doc.pages[i].start, to |-> doc.pages[j].end, hit |-> FALSE]
             hit(place) == [call |-> readCall(doc, place), from |-> place, to |-> place + 1, hit |-> TRUE]
             D == DOMAIN doc.pages
  <2>1. \/ goal \in IF isLong(doc) /\ doc.sections # {} THEN {} ELSE whole
        \/ goal \in {section(s) : s \in doc.sections}
        \/ goal \in {pages(ij[1], ij[2]) : ij \in {x \in D \X D : x[1] < x[2]}}
        \/ goal \in {hit(place) : place \in (0 .. doc.length - 1) \ doc.newlines}
    BY Zenon DEF Goals
  <2>2. goal \notin {hit(place) : place \in (0 .. doc.length - 1) \ doc.newlines}
    <3>1. ASSUME NEW place, goal = hit(place) PROVE FALSE
      <4>1. goal.hit = TRUE
        BY <3>1
      <4> QED
        BY <4>1
    <3> HIDE DEF hit
    <3> QED
      BY <3>1, Zenon
  <2>3. ASSUME goal \in {pages(ij[1], ij[2]) : ij \in {x \in D \X D : x[1] < x[2]}}
        PROVE  \E i, j \in D : i < j /\ goal = pages(i, j)
    <3>1. PICK x \in D \X D : x[1] < x[2] /\ goal = pages(x[1], x[2])
      <4> HIDE DEF pages
      <4> QED
        BY <2>3, Zenon
    <3>2. x[1] \in D /\ x[2] \in D
      OBVIOUS
    <3> HIDE DEF pages
    <3> QED
      BY <3>1, <3>2, Zenon
  <2> QED
    BY <2>1, <2>2, <2>3, Zenon
<1> QED
  BY <1>1, <1>2, <1>3, <1>4, Zenon

-----------------------------------------------------------------------------
WindowAnswer(doc, range, offered, p) == rangeAnswer(doc, range, [offered EXCEPT !.page = p], FALSE)

AnswersAs(a, doc, range, offered, p) ==
    LET plan == planWindows(range, doc.pages)
        seen == WindowShown(doc, range, plan[p])
    IN  /\ a.kind = "text" /\ a.from = seen.from /\ a.to = seen.to
        /\ a.next = IF p < Len(plan) THEN <<[offered EXCEPT !.page = p + 1]>> ELSE <<>>

LEMMA AnswersAreWindows ==
    ASSUME NEW doc, NEW range, NEW offered, FirstWindow(offered), Len(planWindows(range, doc.pages)) \in Nat,
           NEW p \in 1 .. Len(planWindows(range, doc.pages))
    PROVE  AnswersAs(WindowAnswer(doc, range, offered, p), doc, range, offered, p)
<1>0. PICK plan : plan = planWindows(range, doc.pages)
  OBVIOUS
<1>1. PICK n \in Nat : n = Len(plan) /\ plan = planWindows(range, doc.pages) /\ p \in 1 .. n
  BY <1>0
<1>2. PICK made : made = [offered EXCEPT !.page = p]
  OBVIOUS
<1>3. PICK section, where, mn : offered = Call(section, where, mn, 1)
  BY DEF FirstWindow
<1>4. made.page = p /\ [made EXCEPT !.page = @ + 1] = [offered EXCEPT !.page = p + 1]
  <2>1. made = [section |-> section, at |-> where, mn |-> mn, page |-> p]
    BY <1>2, <1>3 DEF Call
  <2>2. [offered EXCEPT !.page = p + 1] = [section |-> section, at |-> where, mn |-> mn, page |-> p + 1]
    BY <1>3 DEF Call
  <2>3. made.page = p /\ [made EXCEPT !.page = p + 1] = [section |-> section, at |-> where, mn |-> mn, page |-> p + 1]
    BY ONLY <2>1
  <2> QED
    BY <2>2, <2>3
<1>5. PICK seen : seen = WindowShown(doc, range, plan[p])
  OBVIOUS
<1>6. PICK next : next = NextCalls(doc, range, made, FALSE, seen.to, n)
  OBVIOUS
<1>7. next = IF p < n THEN <<[offered EXCEPT !.page = p + 1]>> ELSE <<>>
  BY <1>4, <1>6 DEF NextCalls
<1>8. WindowAnswer(doc, range, offered, p) = [kind |-> "text", from |-> seen.from, to |-> seen.to, next |-> next]
  <2>1. ~(made.page > n)
    BY <1>1, <1>4
  <2>2. WindowAnswer(doc, range, offered, p) = PlannedAnswer(doc, range, made, FALSE, plan)
    BY <1>1, <1>2, Zenon DEF WindowAnswer, rangeAnswer
  <2>3. PlannedAnswer(doc, range, made, FALSE, plan) = TextAnswer(doc, range, made, FALSE, seen, n)
    BY <1>1, <1>4, <1>5, <2>1, Zenon DEF PlannedAnswer
  <2> QED
    BY <1>6, <2>2, <2>3, Zenon DEF TextAnswer
<1> QED
  BY <1>1, <1>5, <1>7, <1>8 DEF AnswersAs

LEMMA RangeIsPlanned ==
    ASSUME NEW doc, Readable(doc), NEW range, IsRange(range), RangeCutsLong(range)
    PROVE  Len(planWindows(range, doc.pages)) \in Nat \ {0}
<1>1. TextOfPages(doc)
  BY DEF Readable
<1> QED
  BY <1>1, WindowsReadTheRange, Zenon

(* The answers so far are those of the first windows. *)
FollowsOn(doc, goal, range, offered, replies) ==
    LET n == Len(planWindows(range, doc.pages)) IN
    /\ Serves(doc, goal, range, offered)
    /\ replies \in Seq({WindowAnswer(doc, range, offered, p) : p \in 1 .. n}) /\ Len(replies) <= n
    /\ \A i \in 1 .. Len(replies) : replies[i] = WindowAnswer(doc, range, offered, i)

LEMMA NothingAnswered ==
    ASSUME NEW doc, Readable(doc), NEW goal, NEW range, NEW offered, Serves(doc, goal, range, offered)
    PROVE  FollowsOn(doc, goal, range, offered, <<>>)
<1>1. PICK n \in Nat : n = Len(planWindows(range, doc.pages))
  BY RangeIsPlanned DEF Serves
<1>2. Len(<<>>) = 0 /\ <<>> \in Seq({WindowAnswer(doc, range, offered, p) : p \in 1 .. n}) /\ Len(<<>>) <= n
  OBVIOUS
<1>3. \A i \in 1 .. Len(<<>>) : <<>>[i] = WindowAnswer(doc, range, offered, i)
  BY <1>2
<1> QED
  BY <1>1, <1>2, <1>3, Zenon DEF FollowsOn

LEMMA NextIsFollowed ==
    ASSUME NEW doc, Readable(doc), NEW goal, NEW range, NEW offered, NEW replies,
           FollowsOn(doc, goal, range, offered, replies),
           NEW asked, asked = (IF replies = <<>> THEN <<goal.call>> ELSE Last(replies).next), asked # <<>>
    PROVE  FollowsOn(doc, goal, range, offered, Append(replies, filesGetDocument(doc, asked[1])))
<1>0. Serves(doc, goal, range, offered)
  BY Zenon DEF FollowsOn
<1>1. PICK n \in Nat \ {0} : n = Len(planWindows(range, doc.pages))
  BY <1>0, RangeIsPlanned DEF Serves
<1>2. PICK S : S = {WindowAnswer(doc, range, offered, p) : p \in 1 .. n}
  OBVIOUS
<1>3. replies \in Seq(S) /\ Len(replies) <= n /\ \A i \in 1 .. Len(replies) : replies[i] = WindowAnswer(doc, range, offered, i)
  BY <1>1, <1>2, Zenon DEF FollowsOn
<1>4. PICK k \in Nat : k = Len(replies) /\ k <= n
  BY <1>3, LenProperties
<1>5. k < n /\ filesGetDocument(doc, asked[1]) = WindowAnswer(doc, range, offered, k + 1)
  <2>1. CASE k = 0
    <3>1. replies = <<>>
      BY <1>3, <1>4, <2>1, EmptySeq
    <3>2. PICK made : made = goal.call
      OBVIOUS
    <3>3. asked[1] = made
      <4>1. asked = <<made>>
        BY <3>1, <3>2, Zenon
      <4>2. <<made>>[1] = made
        OBVIOUS
      <4> QED
        BY <4>1, <4>2, Zenon
    <3>4. [made EXCEPT !.page = 1] = made
      BY <1>0, <3>2 DEF Serves, FirstWindow, Call
    <3>5. filesGetDocument(doc, [made EXCEPT !.page = 1]) = WindowAnswer(doc, range, offered, 1)
      <4>1. 1 \in Nat
        OBVIOUS
      <4> QED
        BY <1>0, <3>2, <4>1, Zenon DEF Serves, Names, WindowAnswer
    <3>6. k < n /\ k + 1 = 1
      BY <2>1
    <3> QED
      BY <3>3, <3>4, <3>5, <3>6
  <2>2. CASE k # 0
    <3>1. replies # <<>> /\ k \in 1 .. n /\ k \in 1 .. Len(replies)
      <4>1. Len(<<>>) = 0
        OBVIOUS
      <4>2. replies # <<>>
        BY <1>4, <2>2, <4>1
      <4> QED
        BY <1>4, <2>2, <4>2
    <3>2. Last(replies) = WindowAnswer(doc, range, offered, k)
      BY <1>3, <1>4, <3>1 DEF Last
    <3>3. AnswersAs(Last(replies), doc, range, offered, k)
      <4>1. FirstWindow(offered)
        BY <1>0, Zenon DEF Serves
      <4> QED
        BY <1>1, <3>1, <3>2, <4>1, AnswersAreWindows
    <3>4. Last(replies).next = IF k < n THEN <<[offered EXCEPT !.page = k + 1]>> ELSE <<>>
      BY <1>1, <3>3, Zenon DEF AnswersAs
    <3>5. asked = Last(replies).next
      BY <3>1, Zenon
    <3>6. k < n
      BY <3>4, <3>5, Zenon
    <3>7. PICK made : made = [offered EXCEPT !.page = k + 1]
      OBVIOUS
    <3>8. asked[1] = made
      <4>1. asked = <<made>>
        BY <3>4, <3>5, <3>6, <3>7, Zenon
      <4>2. <<made>>[1] = made
        OBVIOUS
      <4> QED
        BY <4>1, <4>2, Zenon
    <3>9. filesGetDocument(doc, made) = WindowAnswer(doc, range, offered, k + 1)
      <4>1. k + 1 \in Nat
        OBVIOUS
      <4> QED
        BY <1>0, <3>7, <4>1, Zenon DEF Serves, Names, WindowAnswer
    <3> QED
      BY <3>6, <3>8, <3>9, Zenon
  <2> QED
    BY <2>1, <2>2
<1>6. PICK a : a = filesGetDocument(doc, asked[1]) /\ a = WindowAnswer(doc, range, offered, k + 1)
  BY <1>5
<1>7. a \in S
  <2>1. k + 1 \in 1 .. n
    BY <1>5
  <2> QED
    BY <1>2, <1>6, <2>1, Zenon
<1>8. PICK new : new = Append(replies, a)
  OBVIOUS
<1>9. new \in Seq(S) /\ Len(new) = k + 1 /\ new[k + 1] = a /\ \A i \in 1 .. k : new[i] = replies[i]
  BY <1>3, <1>4, <1>7, <1>8, AppendProperties
<1>10. Len(new) <= n
  BY <1>5, <1>9
<1>11. ASSUME NEW i \in 1 .. Len(new) PROVE new[i] = WindowAnswer(doc, range, offered, i)
  <2>1. i \in 1 .. k \/ i = k + 1
    BY <1>9
  <2>2. CASE i \in 1 .. k
    BY <1>3, <1>4, <1>9, <2>2, Zenon
  <2>3. CASE i = k + 1
    BY <1>6, <1>9, <2>3, Zenon
  <2> QED
    BY <2>1, <2>2, <2>3
<1>12. FollowsOn(doc, goal, range, offered, new)
  BY <1>0, <1>1, <1>2, <1>9, <1>10, <1>11, Zenon DEF FollowsOn
<1> QED
  BY <1>6, <1>8, <1>12, Zenon

\* What the property of the runs says of the answers to a goal.
ReadsAll(doc, goal, replies) ==
    /\ \A i \in DOMAIN replies :
         /\ replies[i].kind = "text" /\ replies[i].to - replies[i].from <= WindowChars + SnapSlack
         /\ i = 1 => replies[1].from = goal.from
         /\ i > 1 => /\ replies[i].from <= replies[i - 1].to
                     /\ replies[i].from > replies[i - 1].from
                     /\ replies[i].from = replies[i - 1].to \/ replies[i - 1].to \in doc.indents
    /\ replies # <<>> /\ Last(replies).next = <<>> => Last(replies).to = goal.to

LEMMA FollowingReadsAll ==
    ASSUME NEW doc, Readable(doc), NEW goal, NEW range, NEW offered, NEW replies,
           FollowsOn(doc, goal, range, offered, replies)
    PROVE  ReadsAll(doc, goal, replies)
<1>0. Serves(doc, goal, range, offered)
  BY Zenon DEF FollowsOn
<1>1. PICK n \in Nat \ {0} : n = Len(planWindows(range, doc.pages))
  BY <1>0, RangeIsPlanned DEF Serves
<1>2. PICK plan : plan = planWindows(range, doc.pages)
  OBVIOUS
<1> DEFINE seen(i) == WindowShown(doc, range, plan[i])
<1>3. /\ seen(1).from = range.start /\ seen(n).to = range.end
      /\ \A i \in 1 .. n : /\ seen(i).from \in Nat /\ seen(i).to \in Nat
                           /\ seen(i).from < seen(i).to
                           /\ seen(i).to <= seen(i).from + WindowChars
      /\ \A i \in 2 .. n : /\ seen(i - 1).from < seen(i).from /\ seen(i).from <= seen(i - 1).to
                           /\ seen(i).from = seen(i - 1).to \/ seen(i - 1).to \in doc.indents
  <2>1. TextOfPages(doc) /\ IsRange(range) /\ RangeCutsLong(range)
    BY <1>0 DEF Serves, Readable
  <2> QED
    BY <1>1, <1>2, <2>1, WindowsReadTheRange, Zenon
<1>4. PICK S : S = {WindowAnswer(doc, range, offered, p) : p \in 1 .. n}
  OBVIOUS
<1>5. replies \in Seq(S) /\ Len(replies) <= n /\ \A i \in 1 .. Len(replies) : replies[i] = WindowAnswer(doc, range, offered, i)
  BY <1>1, <1>4, Zenon DEF FollowsOn
<1>6. PICK k \in Nat : k = Len(replies) /\ k <= n /\ DOMAIN replies = 1 .. k
  BY <1>5, LenProperties
<1>7. ASSUME NEW i \in 1 .. k
      PROVE  /\ replies[i].kind = "text" /\ replies[i].from = seen(i).from /\ replies[i].to = seen(i).to
             /\ replies[i].next = IF i < n THEN <<[offered EXCEPT !.page = i + 1]>> ELSE <<>>
  <2>1. i \in 1 .. n
    BY <1>6
  <2>2. FirstWindow(offered)
    BY <1>0, Zenon DEF Serves
  <2>3. AnswersAs(WindowAnswer(doc, range, offered, i), doc, range, offered, i)
    BY <1>1, <2>1, <2>2, AnswersAreWindows
  <2>4. replies[i] = WindowAnswer(doc, range, offered, i)
    BY <1>5, <1>6
  <2> QED
    BY <1>1, <1>2, <2>3, <2>4, Zenon DEF AnswersAs
<1> HIDE DEF seen
<1>8. range.start = goal.from /\ range.end = goal.to
  BY <1>0, Zenon DEF Serves
<1>9. WindowChars \in Nat /\ SnapSlack \in Nat
  BY ReadAssumption
<1>10. ASSUME NEW i \in DOMAIN replies
       PROVE  /\ replies[i].kind = "text" /\ replies[i].to - replies[i].from <= WindowChars + SnapSlack
              /\ i = 1 => replies[1].from = goal.from
              /\ i > 1 => /\ replies[i].from <= replies[i - 1].to
                          /\ replies[i].from > replies[i - 1].from
                          /\ replies[i].from = replies[i - 1].to \/ replies[i - 1].to \in doc.indents
  <2>1. i \in 1 .. k /\ i \in 1 .. n
    BY <1>6
  <2>2. replies[i].kind = "text"
    BY <1>7, <2>1
  <2>3. replies[i].to - replies[i].from <= WindowChars + SnapSlack
    <3>1. PICK x \in Nat, y \in Nat : x = seen(i).from /\ y = seen(i).to /\ y <= x + WindowChars
      BY <1>3, <2>1
    <3>2. y - x <= WindowChars + SnapSlack
      BY <1>9, <3>1
    <3>3. replies[i].from = x /\ replies[i].to = y
      BY <1>7, <2>1, <3>1, Zenon
    <3> QED
      BY <3>2, <3>3, Zenon
  <2>4. ASSUME i = 1 PROVE replies[1].from = goal.from
    BY <1>3, <1>7, <1>8, <2>1, <2>4, Zenon
  <2>5. ASSUME i > 1
        PROVE  /\ replies[i].from <= replies[i - 1].to
               /\ replies[i].from > replies[i - 1].from
               /\ replies[i].from = replies[i - 1].to \/ replies[i - 1].to \in doc.indents
    <3>1. PICK j \in 1 .. k : j = i - 1
      <4>1. i - 1 \in 1 .. k
        BY <2>1, <2>5
      <4> QED
        BY <4>1
    <3>2. i \in 2 .. n
      BY <2>1, <2>5
    <3>3. seen(j).from < seen(i).from /\ seen(i).from <= seen(j).to /\ (seen(i).from = seen(j).to \/ seen(j).to \in doc.indents)
      BY <1>3, <3>1, <3>2
    <3>4. replies[i].from = seen(i).from /\ replies[j].from = seen(j).from /\ replies[j].to = seen(j).to
      BY <1>7, <2>1, <3>1, Zenon
    <3>5. seen(i).from > seen(j).from
      <4>1. seen(i).from \in Nat /\ seen(j).from \in Nat
        BY <1>3, <1>6, <2>1, <3>1
      <4> QED
        BY <3>3, <4>1
    <3> QED
      BY <3>1, <3>3, <3>4, <3>5, Zenon
  <2> QED
    BY <2>2, <2>3, <2>4, <2>5, Zenon
<1>11. ASSUME replies # <<>>, Last(replies).next = <<>> PROVE Last(replies).to = goal.to
  <2>1. k # 0
    BY <1>5, <1>6, <1>11, EmptySeq
  <2>2. k \in 1 .. k /\ Last(replies) = replies[k]
    BY <1>6, <2>1 DEF Last
  <2>3. ~(k < n)
    <3>1. SUFFICES ASSUME k < n PROVE FALSE
      OBVIOUS
    <3>2. PICK made : made = [offered EXCEPT !.page = k + 1]
      OBVIOUS
    <3>3. <<made>> = <<>>
      BY <1>7, <1>11, <2>2, <3>1, <3>2, Zenon
    <3>4. Len(<<made>>) = 1 /\ Len(<<>>) = 0
      OBVIOUS
    <3> QED
      BY <3>3, <3>4
  <2>4. k = n
    BY <1>6, <2>3
  <2> QED
    BY <1>3, <1>7, <1>8, <2>2, <2>4, Zenon
<1> QED
  BY <1>10, <1>11, Zenon DEF ReadsAll

-----------------------------------------------------------------------------
(* The documents of the runs are such documents.                           *)
Ascend(starts, length, m) ==
    /\ m \in Nat /\ Len(starts) = m /\ DOMAIN starts = 1 .. m
    /\ \A i \in 1 .. m : starts[i] \in Nat /\ starts[i] < length
    /\ \A i \in 1 .. m : i < m => starts[i] < starts[i + 1]

PagesFrom(starts, length) ==
    [i \in DOMAIN starts |-> [label |-> i, start |-> starts[i],
                              end |-> IF i < Len(starts) THEN starts[i + 1] ELSE length]]

LEMMA PagesOfStarts ==
    ASSUME NEW length \in Nat, NEW starts, NEW m, Ascend(starts, length, m)
    PROVE  LET pages == PagesFrom(starts, length) IN
           /\ PagesMeet(pages, m)
           /\ \A i \in DOMAIN pages : pages[i].start < pages[i].end /\ pages[i].end <= length /\ pages[i].label = i
<1>1. /\ m \in Nat /\ Len(starts) = m /\ DOMAIN starts = 1 .. m
      /\ \A i \in 1 .. m : starts[i] \in Nat /\ starts[i] < length
      /\ \A i \in 1 .. m : i < m => starts[i] < starts[i + 1]
  BY DEF Ascend
<1>2. PICK pages : pages = PagesFrom(starts, length)
  OBVIOUS
<1>3. pages = [i \in 1 .. m |-> [label |-> i, start |-> starts[i], end |-> IF i < m THEN starts[i + 1] ELSE length]]
  BY <1>1, <1>2, Zenon DEF PagesFrom
<1>4. DOMAIN pages = 1 .. m
  BY <1>3
<1>5. Len(pages) = m
  BY <1>1, <1>3
<1>6. ASSUME NEW i \in 1 .. m
      PROVE  /\ pages[i].label = i /\ pages[i].start = starts[i] /\ pages[i].end = IF i < m THEN starts[i + 1] ELSE length
             /\ pages[i].start \in Nat /\ pages[i].end \in Nat /\ pages[i].start < pages[i].end /\ pages[i].end <= length
  <2>1. PICK e : e = IF i < m THEN starts[i + 1] ELSE length
    OBVIOUS
  <2>2. pages[i] = [label |-> i, start |-> starts[i], end |-> e]
    BY <1>3, <2>1
  <2>3. pages[i].label = i /\ pages[i].start = starts[i] /\ pages[i].end = e
    BY <2>2
  <2>4. starts[i] \in Nat /\ starts[i] < length
    BY <1>1
  <2>5. e \in Nat /\ starts[i] < e /\ e <= length
    <3>1. CASE i < m
      <4>1. i + 1 \in 1 .. m
        BY <1>1, <3>1
      <4>2. starts[i + 1] \in Nat /\ starts[i + 1] < length /\ starts[i] < starts[i + 1]
        BY <1>1, <3>1, <4>1
      <4> QED
        BY <2>1, <3>1, <4>2
    <3>2. CASE ~(i < m)
      BY <2>1, <2>4, <3>2
    <3> QED
      BY <3>1, <3>2
  <2> QED
    BY <2>1, <2>3, <2>4, <2>5
<1>7. ASSUME NEW k \in 2 .. m PROVE pages[k].start = pages[k - 1].end
  <2>1. PICK j \in 1 .. m : j = k - 1 /\ j < m /\ j + 1 = k
    <3>1. k - 1 \in 1 .. m /\ k - 1 < m /\ k - 1 + 1 = k
      BY <1>1
    <3> QED
      BY <3>1
  <2>2. k \in 1 .. m
    BY <1>1
  <2>3. pages[j].end = starts[k]
    BY <1>6, <2>1
  <2> QED
    BY <1>6, <2>1, <2>2, <2>3
<1>8. \A k \in 1 .. m : pages[k].start \in Nat /\ pages[k].end \in Nat /\ pages[k].start <= pages[k].end
  <2> SUFFICES ASSUME NEW k \in 1 .. m
               PROVE  pages[k].start \in Nat /\ pages[k].end \in Nat /\ pages[k].start <= pages[k].end
    OBVIOUS
  <2>1. PICK x \in Nat, y \in Nat : x = pages[k].start /\ y = pages[k].end /\ x < y
    BY <1>6
  <2> QED
    BY <2>1
<1>9. PagesMeet(pages, m)
  BY <1>1, <1>4, <1>5, <1>7, <1>8, Zenon DEF PagesMeet
<1> QED
  BY <1>2, <1>4, <1>6, <1>9, Zenon

LEMMA StartsAscend ==
    ASSUME NEW length \in Nat, length >= 6,
           NEW starts \in {<<>>, <<0, 2>>} \cup IF length > 9 THEN {<<0, 4, 9>>} ELSE {}
    PROVE  \E m : Ascend(starts, length, m)
<1>1. CASE starts = <<>>
  <2>1. Len(starts) = 0 /\ DOMAIN starts = 1 .. 0
    BY <1>1
  <2>2. Ascend(starts, length, 0)
    BY <2>1 DEF Ascend
  <2> QED
    BY <2>2
<1>2. CASE starts = <<0, 2>>
  <2>1. Len(starts) = 2 /\ DOMAIN starts = 1 .. 2 /\ starts[1] = 0 /\ starts[2] = 2
    BY <1>2
  <2>2. \A i \in 1 .. 2 : i = 1 \/ i = 2
    OBVIOUS
  <2>3. Ascend(starts, length, 2)
    BY <2>1, <2>2 DEF Ascend
  <2> QED
    BY <2>3
<1>3. CASE length > 9 /\ starts = <<0, 4, 9>>
  <2>1. Len(starts) = 3 /\ DOMAIN starts = 1 .. 3 /\ starts[1] = 0 /\ starts[2] = 4 /\ starts[3] = 9
    BY <1>3
  <2>2. \A i \in 1 .. 3 : i = 1 \/ i = 2 \/ i = 3
    OBVIOUS
  <2>3. Ascend(starts, length, 3)
    BY <1>3, <2>1, <2>2 DEF Ascend
  <2> QED
    BY <2>3
<1> QED
  BY <1>1, <1>2, <1>3

\* Sections of a sample: none, two §§, or a chapter with a § of two parts.
Section(ord, key, start, end) == [ord |-> ord, key |-> key, heading |-> ord, start |-> start, end |-> end]
SectionsOf(o, c, length) ==
    CASE o = 0 -> {}
      [] o = 1 -> {Section(1, 1, 0, c), Section(2, 2, c, length)}
      [] o = 2 -> {Section(1, 0, 0, length), Section(2, 1, 1, c), Section(3, 0, 3, c)}

SectionsStand(sections, length) ==
    /\ \A s \in sections : s.start \in Nat /\ s.end \in Nat /\ s.start < s.end /\ s.end <= length
    /\ \A s, t \in sections : s.ord = t.ord => s = t
    /\ \A s, t \in sections : s.key = t.key /\ s.key # 0 => s = t

LEMMA SectionIs ==
    ASSUME NEW o, NEW k, NEW a, NEW b, NEW s, s = Section(o, k, a, b)
    PROVE  s.ord = o /\ s.key = k /\ s.start = a /\ s.end = b
  BY DEF Section

LEMMA SampleSections ==
    ASSUME NEW length \in Nat, length >= 6, NEW o \in 0 .. 2, NEW c \in {4, length - 2}
    PROVE  SectionsStand(SectionsOf(o, c, length), length)
<1>1. c \in Nat /\ 3 < c /\ c < length
  OBVIOUS
<1>2. CASE o = 0
  BY <1>2 DEF SectionsOf, SectionsStand
<1>3. CASE o = 1
  <2>1. PICK x, y : x = Section(1, 1, 0, c) /\ y = Section(2, 2, c, length)
    OBVIOUS
  <2>2. /\ x.ord = 1 /\ x.key = 1 /\ x.start = 0 /\ x.end = c
        /\ y.ord = 2 /\ y.key = 2 /\ y.start = c /\ y.end = length
    BY <2>1, SectionIs
  <2>3. SectionsOf(o, c, length) = {x, y}
    BY <1>3, <2>1 DEF SectionsOf
  <2>4. SectionsStand({x, y}, length)
    BY <1>1, <2>2 DEF SectionsStand
  <2> QED
    BY <2>3, <2>4
<1>4. CASE o = 2
  <2>1. PICK x, y, z : x = Section(1, 0, 0, length) /\ y = Section(2, 1, 1, c) /\ z = Section(3, 0, 3, c)
    OBVIOUS
  <2>2. /\ x.ord = 1 /\ x.key = 0 /\ x.start = 0 /\ x.end = length
        /\ y.ord = 2 /\ y.key = 1 /\ y.start = 1 /\ y.end = c
        /\ z.ord = 3 /\ z.key = 0 /\ z.start = 3 /\ z.end = c
    BY <2>1, SectionIs
  <2>3. SectionsOf(o, c, length) = {x, y, z}
    BY <1>4, <2>1 DEF SectionsOf
  <2>4. SectionsStand({x, y, z}, length)
    BY <1>1, <2>2 DEF SectionsStand
  <2> QED
    BY <2>3, <2>4
<1> QED
  BY <1>2, <1>3, <1>4

LEMMA ShapesAre ==
    ASSUME NEW length, NEW shape \in ReadShapes(length)
    PROVE  \E starts \in {<<>>, <<0, 2>>} \cup IF length > 9 THEN {<<0, 4, 9>>} ELSE {}, o \in 0 .. 2, c \in {4, length - 2} :
              /\ shape.length = length /\ shape.pages = PagesFrom(starts, length)
              /\ shape.sections = SectionsOf(o, c, length)
<1> DEFINE mark(label, place) == [label |-> label, at |-> place]
           marks(o, c) == IF o = 0 THEN <<>>
                          ELSE <<mark(1, 2), mark(2, 3)>> \o IF o = 1 THEN <<mark(1, c), mark(2, length - 1)>> ELSE <<>>
           P == {<<>>, <<0, 2>>} \cup IF length > 9 THEN {<<0, 4, 9>>} ELSE {}
           C == {4, length - 2}
<1> DEFINE is(p, o, c) == [length |-> length, pages |-> PagesFrom(p, length), sections |-> SectionsOf(o, c, length),
                           marks |-> marks(o, c)]
<1>1. ReadShapes(length) = {is(p, o, c) : p \in P, o \in 0 .. 2, c \in C}
  BY DEF ReadShapes, PagesFrom, SectionsOf, Section
<1> HIDE DEF is, P, C
<1>2. PICK p \in P, o \in 0 .. 2, c \in C : shape = is(p, o, c)
  BY <1>1
<1> USE DEF is
<1>3. shape.length = length /\ shape.pages = PagesFrom(p, length) /\ shape.sections = SectionsOf(o, c, length)
  BY <1>2
<1> USE DEF P, C
<1> QED
  BY <1>3, Zenon

\* Lengths of the samples: room for the sections of a sample, and cut long.
SamplesCutLong == \A n \in ReadLengths : n \in Nat /\ n >= 6 /\ RangeCutsLong([start |-> 0, end |-> n])

LEMMA SamplesAreReadable ==
    ASSUME SamplesCutLong, NEW doc \in ReadSamples
    PROVE  Readable(doc)
<1> DEFINE newlines(shape) == {b \in SUBSET (1 .. shape.length - 1) : Cardinality(b) <= IF shape.sections = {} /\ shape.pages = <<>> THEN 3 ELSE 2}
           indents(b) == {{}} \cup {{n + 2} : n \in {m \in b : m + 1 \in b}}
           text(shape, b, i) == [length |-> shape.length, pages |-> shape.pages, sections |-> shape.sections,
                                 marks |-> shape.marks, newlines |-> b, indents |-> i]
           reachable(shape) == \A p \in DOMAIN shape.pages :
                                   shape.pages[p].end - shape.pages[p].start <= WindowChars \/ Cardinality(Keyed(shape.sections)) = 2
<1>1. doc \in UNION {UNION {{text(shape, b, i) : i \in indents(b)} : b \in newlines(shape)} :
                  shape \in {x \in UNION {ReadShapes(n) : n \in ReadLengths} : reachable(x)}}
  BY Zenon DEF ReadSamples
<1>2. \A shape : newlines(shape) \subseteq SUBSET (1 .. shape.length - 1)
  OBVIOUS
<1> HIDE DEF newlines, indents, text, reachable
<1>3. PICK length, shape, b, i :
         length \in ReadLengths /\ shape \in ReadShapes(length) /\ b \in newlines(shape) /\ doc = text(shape, b, i)
  <2> DEFINE texts(shape) == UNION {{text(shape, b, i) : i \in indents(b)} : b \in newlines(shape)}
             X == {x \in UNION {ReadShapes(n) : n \in ReadLengths} : reachable(x)}
  <2>0. doc \in UNION {texts(shape) : shape \in X} /\ \A x \in X : x \in UNION {ReadShapes(n) : n \in ReadLengths}
    BY <1>1
  <2>1. PICK shape : shape \in UNION {ReadShapes(n) : n \in ReadLengths} /\ doc \in texts(shape)
    <3> HIDE DEF texts, X
    <3> QED
      BY <2>0
  <2>2. PICK length : length \in ReadLengths /\ shape \in ReadShapes(length)
    BY <2>1, Zenon
  <2>3. PICK b : b \in newlines(shape) /\ doc \in {text(shape, b, i) : i \in indents(b)}
    BY <2>1, Zenon
  <2>4. PICK i : doc = text(shape, b, i)
    BY <2>3, Zenon
  <2> QED
    BY <2>2, <2>3, <2>4, Zenon
<1>4. doc.length = shape.length /\ doc.pages = shape.pages /\ doc.sections = shape.sections /\ doc.newlines = b
  BY <1>3 DEF text
<1>5. PICK starts \in {<<>>, <<0, 2>>} \cup IF length > 9 THEN {<<0, 4, 9>>} ELSE {}, o \in 0 .. 2, c \in {4, length - 2} :
         /\ shape.length = length /\ shape.pages = PagesFrom(starts, length)
         /\ shape.sections = SectionsOf(o, c, length)
  BY <1>3, ShapesAre, Zenon
<1>6. length \in Nat /\ length >= 6 /\ RangeCutsLong([start |-> 0, end |-> length])
  BY <1>3, Zenon DEF SamplesCutLong
<1>7. PICK m : Ascend(starts, length, m)
  BY <1>6, StartsAscend
<1>8. /\ PagesMeet(doc.pages, m)
      /\ \A k \in DOMAIN doc.pages : doc.pages[k].start < doc.pages[k].end /\ doc.pages[k].end <= length /\ doc.pages[k].label = k
  <2>1. PICK pages : pages = PagesFrom(starts, length)
    OBVIOUS
  <2>2. length \in Nat
    BY <1>6
  <2>3. /\ PagesMeet(pages, m)
        /\ \A k \in DOMAIN pages : pages[k].start < pages[k].end /\ pages[k].end <= length /\ pages[k].label = k
    BY <1>7, <2>1, <2>2, PagesOfStarts
  <2>4. doc.pages = pages
    BY <1>4, <1>5, <2>1, Zenon
  <2> QED
    BY <2>3, <2>4, Zenon
<1>9. SectionsStand(doc.sections, length)
  BY <1>4, <1>5, <1>6, SampleSections, Zenon
<1>10. doc.newlines \subseteq Nat
  <2>1. b \subseteq 1 .. length - 1
    BY <1>2, <1>3, <1>5, Zenon
  <2>2. 1 .. length - 1 \subseteq Nat
    BY <1>6
  <2> QED
    BY <1>4, <2>1, <2>2, Zenon
<1>11. TextOfPages(doc)
  BY <1>8, <1>10, Zenon DEF TextOfPages
<1>12. doc.length = length /\ length > 0
  BY <1>4, <1>5, <1>6
<1>13. \A k, l \in DOMAIN doc.pages : doc.pages[k].label = doc.pages[l].label => k = l
  BY <1>8, Zenon
<1> QED
  BY <1>6, <1>8, <1>9, <1>11, <1>12, <1>13, Zenon DEF Readable, SectionsStand

-----------------------------------------------------------------------------
(* The reader: who asked for a range has the answers of its first windows. *)
ReadInv ==
    /\ Readable(readDoc)
    /\ readGoal = <<>> => readAnswers = <<>>
    /\ readGoal # <<>> =>
         \E goal \in Goals(readDoc) :
            /\ readGoal = <<goal>>
            /\ ~goal.hit => \E range, offered : FollowsOn(readDoc, goal, range, offered, readAnswers)

LEMMA ReadStarts ==
    ASSUME SamplesCutLong, ReadInit
    PROVE  ReadInv
<1>1. Readable(readDoc)
  BY SamplesAreReadable DEF ReadInit
<1> QED
  BY <1>1, Zenon DEF ReadInit, ReadInv

LEMMA ReadSteps ==
    ASSUME ReadInv, [ReadNext]_readVars
    PROVE  ReadInv'
<1>1. CASE UNCHANGED readVars
  BY <1>1, Zenon DEF readVars, ReadInv
<1>2. CASE ReaderAsks
  <2>1. readGoal = <<>> /\ readDoc' = readDoc /\ readAnswers' = readAnswers
    BY <1>2 DEF ReaderAsks
  <2>2. PICK goal \in Goals(readDoc) : readGoal' = <<goal>>
    BY <1>2, Zenon DEF ReaderAsks
  <2>3. readAnswers = <<>> /\ Readable(readDoc)
    BY <2>1, Zenon DEF ReadInv
  <2>4. ASSUME ~goal.hit
        PROVE  \E range, offered : FollowsOn(readDoc, goal, range, offered, readAnswers)
    <3>1. PICK range, offered : Serves(readDoc, goal, range, offered)
      BY <2>3, <2>4, GoalsAreServed, Zenon
    <3>2. FollowsOn(readDoc, goal, range, offered, <<>>)
      BY <2>3, <3>1, NothingAnswered, Zenon
    <3> QED
      BY <2>3, <3>2, Zenon
  <2>5. readGoal' # <<>>
    <3>1. Len(<<goal>>) = 1 /\ Len(<<>>) = 0
      OBVIOUS
    <3>2. <<goal>> # <<>>
      BY <3>1
    <3> QED
      BY <2>2, <3>2, Zenon
  <2> QED
    BY <2>1, <2>2, <2>3, <2>4, <2>5, Zenon DEF ReadInv
<1>3. CASE ReaderAnswered
  <2>1. PICK asked : asked = NextAsked
    OBVIOUS
  <2>2. /\ readGoal # <<>> /\ asked # <<>> /\ readDoc' = readDoc /\ readGoal' = readGoal
        /\ readAnswers' = Append(readAnswers, filesGetDocument(readDoc, asked[1]))
    BY <1>3, <2>1, Zenon DEF ReaderAnswered
  <2>3. PICK goal \in Goals(readDoc) :
           /\ readGoal = <<goal>>
           /\ ~goal.hit => \E range, offered : FollowsOn(readDoc, goal, range, offered, readAnswers)
    BY <2>2, Zenon DEF ReadInv
  <2>4. readGoal[1] = goal
    <3>1. <<goal>>[1] = goal
      OBVIOUS
    <3> QED
      BY <2>3, <3>1, Zenon
  <2>5. asked = IF readAnswers = <<>> THEN <<goal.call>> ELSE Last(readAnswers).next
    BY <2>1, <2>4, Zenon DEF NextAsked
  <2>6. ASSUME ~goal.hit
        PROVE  \E range, offered : FollowsOn(readDoc, goal, range, offered, readAnswers')
    <3>1. PICK range, offered : FollowsOn(readDoc, goal, range, offered, readAnswers)
      BY <2>3, <2>6, Zenon
    <3>2. Readable(readDoc)
      BY Zenon DEF ReadInv
    <3>3. FollowsOn(readDoc, goal, range, offered, Append(readAnswers, filesGetDocument(readDoc, asked[1])))
      BY <2>2, <2>5, <3>1, <3>2, NextIsFollowed, Zenon
    <3> QED
      BY <2>2, <3>3, Zenon
  <2> QED
    BY <2>2, <2>3, <2>6, Zenon DEF ReadInv
<1> QED
  BY <1>1, <1>2, <1>3 DEF ReadNext

LEMMA ReadersSeeAll == ReadInv => ReadingOnReadsAll
<1> SUFFICES ASSUME ReadInv PROVE ReadingOnReadsAll
  OBVIOUS
<1>1. CASE readGoal = <<>>
  <2>1. readAnswers = <<>>
    BY <1>1, Zenon DEF ReadInv
  <2>2. DOMAIN readAnswers = {}
    BY <2>1
  <2> QED
    BY <2>1, <2>2, Zenon DEF ReadingOnReadsAll, HasRead
<1>2. CASE readGoal # <<>>
  <2>1. PICK goal \in Goals(readDoc) :
           /\ readGoal = <<goal>>
           /\ ~goal.hit => \E range, offered : FollowsOn(readDoc, goal, range, offered, readAnswers)
    BY <1>2, Zenon DEF ReadInv
  <2>2. readGoal[1] = goal
    <3>1. <<goal>>[1] = goal
      OBVIOUS
    <3> QED
      BY <2>1, <3>1, Zenon
  <2>3. ASSUME ~goal.hit PROVE ReadsAll(readDoc, goal, readAnswers)
    <3>1. PICK range, offered : FollowsOn(readDoc, goal, range, offered, readAnswers)
      BY <2>1, <2>3, Zenon
    <3>2. Readable(readDoc)
      BY Zenon DEF ReadInv
    <3> QED
      BY <3>1, <3>2, FollowingReadsAll, Zenon
  <2>4. HasRead => readAnswers # <<>> /\ Last(readAnswers).next = <<>>
    BY Zenon DEF HasRead, NextAsked
  <2> QED
    BY <2>2, <2>3, <2>4, Zenon DEF ReadsAll, ReadingOnReadsAll
<1> QED
  BY <1>1, <1>2

(* Following the calls that its answers offer, a reader of a document, a   *)
(* section or pages sees all that was asked for, and no place twice but    *)
(* for what stands before a footnote's continuation at the edge of what    *)
(* the store gave; no answer is longer than a window (planWindows,         *)
(* snapBoundary, rangeAnswer): for documents of every length that is cut   *)
(* long, as all are up to (WindowChars - SnapSlack) * (WindowChars - 3 *   *)
(* SnapSlack) (TextsCutLong).                                              *)
THEOREM ReadersReadAll ==
    ASSUME SamplesCutLong
    PROVE  Spec => [](clientPart = "reading" => ReadingOnReadsAll)
<1> DEFINE Inv == clientPart = "reading" => ReadInv
<1>1. Init => Inv
  BY PartStarts, ReadStarts
<1>2. Inv /\ [Next]_vars => Inv'
  BY PartSteps, ReadSteps
<1>3. Inv => (clientPart = "reading" => ReadingOnReadsAll)
  BY ReadersSeeAll
<1> QED
  BY <1>1, <1>2, <1>3, PTL DEF Spec
=============================================================================
