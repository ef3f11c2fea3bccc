------------------------------ MODULE RichText ------------------------------
(***************************************************************************)
(* The text editor of a document (frontend/src/editor): what is loaded     *)
(* into BlockNote, what each change makes of the blocks, what is handed to *)
(* the form, the find and replace bar and the pasting of images.           *)
(*                                                                         *)
(* A document is a sequence of blocks [kind, text, dir, ...]; a text      *)
(* is a short sequence of letters.  BlockNote and ProseMirror, which apply *)
(* transactions, are external.                                             *)
(***************************************************************************)
EXTENDS Integers, Sequences, Functions, Splices

CONSTANTS
    Documents,     \* stored documents: sequences of blocks
    Letters,       \* what is typed
    Queries,       \* what is searched for, besides nothing
    Replacements,  \* what matches are replaced by
    MaxEdits,      \* bound: changes of the text in one behaviour
    MaxChunks      \* chunks of a pasted image

\* restoreUnknownBlocks runs on every change handed over, so a document saved by
\* this editor holds no stand-in for the block of a missing plugin.  One that
\* another program writes into the file is outside the model: restoreBlock leaves
\* a stand-in whose JSON it cannot read as it is.
StoredBlocks == [kind : STRING \ {"unknown"}, text : Seq(STRING), dir : {"none", "ltr", "rtl"},
                 converted : BOOLEAN, wraps : {""}]

ASSUME DocumentsStored == Documents \subseteq Seq(StoredBlocks)

VARIABLES
    life,        \* "mounting" (no baseline yet), "live" or "gone"
    blocks,      \* the editor's document
    scanned,     \* the first full direction scan has been made
    baseline,    \* content whose hash is baselineHashRef, <<>> before
    formBlocks,  \* what the form was given last
    unreported,  \* a change the form did not hear of: it came before there was a
                 \* baseline, or the document is read-only
    editable,    \* the document is not archived
    find,        \* [open, query, caseSensitive, matches, active]
    paste,       \* the paste being handled: Idle, Reading or the chunks sent
    edits

richVars == <<life, blocks, scanned, baseline, formBlocks, unreported, editable, find, paste,
              edits>>

contentVars == <<blocks, scanned, baseline, formBlocks, unreported, edits>>

Fence == "fence"  \* a line that is three backquotes and a language, as one letter
Idle == -2
Reading == -1

Block(kind, text) == [kind |-> kind, text |-> text, dir |-> "none", converted |-> FALSE,
                       wraps |-> ""]
H1 == Block("h1", <<>>)

---------------------------------------------------------------------------
\* Loading: blocks of a plugin that is not there are wrapped, and a document
\* that does not begin with a title gets one.

KnownKinds == {"h1", "par", "file", "image", "code"}

NeedsLeadingH1(bs) == bs = <<>> \/ bs[1].kind # "h1"

SanitizeUnknown(bs) ==
    [i \in DOMAIN bs |-> IF bs[i].kind \in KnownKinds THEN bs[i]
                         ELSE [bs[i] EXCEPT !.kind = "unknown", !.wraps = bs[i].kind]]

RestoreNone(bs) == bs

RestoreUnknown(bs) ==
    [i \in DOMAIN bs |-> IF bs[i].kind # "unknown" THEN bs[i]
                         ELSE [bs[i] EXCEPT !.kind = bs[i].wraps, !.wraps = ""]]

Parsed(stored) == SanitizeUnknown(IF NeedsLeadingH1(stored) THEN <<H1>> \o stored ELSE stored)

NoFind == [open |-> FALSE, query |-> <<>>, caseSensitive |-> FALSE, matches |-> <<>>, active |-> 0]

RichInit ==
    /\ \E stored \in Documents : blocks = Parsed(stored) /\ formBlocks = stored
    /\ life = "mounting" /\ scanned = FALSE /\ baseline = <<>> /\ unreported = FALSE
    /\ editable \in BOOLEAN /\ find = NoFind /\ paste = Idle /\ edits = 0

---------------------------------------------------------------------------
\* findMatches and the find plugin.

Lower(text) == [i \in DOMAIN text |-> IF text[i] = "A" THEN "a" ELSE text[i]]

MatchesAt(text, query, i) ==
    i + Len(query) - 1 <= Len(text) /\ SubSeq(text, i, i + Len(query) - 1) = query

\* indexOf again and again, each time behind the last match.
Starts(text, query) ==
    LET next[i \in 1 .. Len(text) + 1] ==
            IF i > Len(text) THEN <<>>
            ELSE IF MatchesAt(text, query, i)
                 THEN <<i>> \o (IF i + Len(query) > Len(text) THEN <<>> ELSE next[i + Len(query)])
                 ELSE next[i + 1]
    IN  IF query = <<>> THEN <<>> ELSE next[1]

FindMatches(bs, query, caseSensitive) ==
    LET fold(text) == IF caseSensitive THEN text ELSE Lower(text)
        ofBlock(b) == LET starts == Starts(fold(bs[b].text), fold(query))
                      IN  [k \in DOMAIN starts |-> [block |-> b, from |-> starts[k]]]
    IN  FlattenSeq([b \in DOMAIN bs |-> ofBlock(b)])

\* wrapIndex, with 0 for no match; indices count from 1.
WrapIndex(i, n) == IF n = 0 THEN 0 ELSE ((i - 1) % n) + 1

ComputeState(f, bs, preferred) ==
    LET found == FindMatches(bs, f.query, f.caseSensitive)
    IN  [f EXCEPT !.matches = found, !.active = WrapIndex(preferred, Len(found))]

\* The plugin's apply for a transaction that changed the document.
FoundAgain(f, bs) == IF f.open /\ f.query # <<>> THEN ComputeState(f, bs, f.active) ELSE f

---------------------------------------------------------------------------
\* A change of the document and everything that follows from it.

Strong == {"a", "A", "r"}

\* detectTextDirection and resolveBlockDir: the first strong letter decides, an
\* empty text clears, and a text without one leaves the direction alone.
ResolveDir(text, dir) ==
    LET strong == SelectSeq(text, LAMBDA c : c \in Strong)
    IN  IF text = <<>> THEN "none"
        ELSE IF strong = <<>> THEN dir
        ELSE IF strong[1] = "r" THEN "rtl" ELSE "ltr"

\* The direction plugin visits the touched blocks, the first time all of them.
WithDirs(bs, touched) ==
    [i \in DOMAIN bs |-> IF i \in touched THEN [bs[i] EXCEPT !.dir = ResolveDir(bs[i].text, @)]
                         ELSE bs[i]]

\* The editor's onChange: a file that is a picture becomes an image, once, and
\* the title is put back.
ConvertFiles(bs) ==
    [i \in DOMAIN bs |-> IF bs[i].kind = "file" /\ ~bs[i].converted
                         THEN [bs[i] EXCEPT !.kind = "image", !.converted = TRUE] ELSE bs[i]]
Normalised(bs) ==
    LET converted == ConvertFiles(bs)
    IN  IF NeedsLeadingH1(converted) THEN <<H1>> \o converted ELSE converted

\* The form hears of a change whose hash differs from the last one it was given.
Changed(bs, touched) ==
    LET dirs == WithDirs(bs, IF scanned THEN touched ELSE DOMAIN bs)
        now == Normalised(dirs)
    IN  /\ edits < MaxEdits /\ edits' = edits + 1
        /\ blocks' = now
        /\ scanned' = TRUE
        /\ find' = FoundAgain(find, now)
        /\ UNCHANGED editable
        /\ \/ /\ life = "mounting"
              /\ unreported' = TRUE /\ UNCHANGED <<baseline, formBlocks>>
           \/ /\ life # "mounting" /\ now = baseline
              /\ UNCHANGED <<baseline, formBlocks, unreported>>
           \/ /\ life # "mounting" /\ now # baseline
              /\ baseline' = now
              /\ IF editable THEN formBlocks' = RestoreUnknown(now) /\ unreported' = FALSE
                 ELSE unreported' = TRUE /\ UNCHANGED formBlocks

\* Typing, deleting, and a fence that Enter turns into a code block.
TypeLetter(b, c) ==
    /\ life # "gone" /\ editable /\ b \in DOMAIN blocks /\ blocks[b].kind \in {"h1", "par", "code"}
    /\ Changed([blocks EXCEPT ![b].text = Append(@, c)], {b})
    /\ UNCHANGED <<life, paste>>

DeleteLetter(b) ==
    /\ life # "gone" /\ editable /\ b \in DOMAIN blocks /\ blocks[b].text # <<>>
    /\ Changed([blocks EXCEPT ![b].text = Tail(@)], {b})
    /\ UNCHANGED <<life, paste>>

FenceOnEnter(b) ==
    /\ life # "gone" /\ editable /\ b \in DOMAIN blocks
    /\ blocks[b].kind = "par" /\ blocks[b].text = <<Fence>>
    /\ Changed([blocks EXCEPT ![b] = Block("code", <<>>)], {b})
    /\ UNCHANGED <<life, paste>>

RemoveBlock(b) ==
    /\ life # "gone" /\ editable /\ b \in DOMAIN blocks /\ Len(blocks) > 1
    /\ Changed(RemoveAt(blocks, b), {1})
    /\ UNCHANGED <<life, paste>>

\* The first animation frame after the editor is ready.
EstablishBaseline ==
    /\ life = "mounting"
    /\ life' = "live" /\ baseline' = blocks
    /\ UNCHANGED <<blocks, scanned, formBlocks, unreported, editable, find, paste, edits>>

\* An archived document is restored while it is open.
Restore ==
    /\ ~editable /\ editable' = TRUE
    /\ UNCHANGED <<contentVars, life, find, paste>>

DestroyEditor ==
    /\ life # "gone"
    /\ life' = "gone" /\ find' = NoFind
    /\ UNCHANGED <<contentVars, paste, editable>>

---------------------------------------------------------------------------
\* The find bar.

OpenFind ==
    /\ life = "live" /\ ~find.open
    /\ find' = [find EXCEPT !.open = TRUE]
    /\ UNCHANGED <<contentVars, life, paste, editable>>

SetFindQuery(q) ==
    /\ find.open /\ q # find.query
    /\ find' = ComputeState([find EXCEPT !.query = q], blocks, 1)
    /\ UNCHANGED <<contentVars, life, paste, editable>>

ToggleCaseSensitive ==
    /\ find.open
    /\ find' = ComputeState([find EXCEPT !.caseSensitive = ~@], blocks, 1)
    /\ UNCHANGED <<contentVars, life, paste, editable>>

StepMatch(delta) ==
    /\ find.open
    /\ find' = [find EXCEPT !.active = WrapIndex(@ + delta, Len(find.matches))]
    /\ UNCHANGED <<contentVars, life, paste, editable>>

CloseFind ==
    /\ find.open
    /\ find' = NoFind
    /\ UNCHANGED <<contentVars, life, paste, editable>>

\* A match [block, from] in the text of its block.
ReplaceRange(text, m, new) ==
    SubSeq(text, 1, m.from - 1) \o new \o SubSeq(text, m.from + Len(find.query), Len(text))

SkipsFirst(matches) == Reverse(Tail(matches))

\* applyReplaceAll goes from the last match to the first, so that what it inserts
\* moves no match still to come; in another block it moves none anyway.
LastToFirst(matches) == Reverse(matches)

ReplaceCurrent(new) ==
    /\ find.open /\ find.active > 0
    /\ LET m == find.matches[find.active]
       IN  Changed([blocks EXCEPT ![m.block].text = ReplaceRange(@, m, new)], {m.block})
    /\ UNCHANGED <<life, paste>>

ReplaceEvery(new) ==
    /\ find.open /\ find.matches # <<>>
    /\ LET within(b) == SelectSeq(LastToFirst(find.matches), LAMBDA m : m.block = b)
           replaced(b) == FoldLeft(LAMBDA text, m : ReplaceRange(text, m, new), blocks[b].text, within(b))
       IN  Changed([b \in DOMAIN blocks |-> [blocks[b] EXCEPT !.text = replaced(b)]],
                   {m.block : m \in Range(find.matches)})
    /\ UNCHANGED <<life, paste>>

---------------------------------------------------------------------------
\* Pasting an image: one paste at a time is read from the clipboard, uploaded in
\* chunks, and inserted where the cursor is by then.

PasteImage ==
    /\ life = "live" /\ editable /\ paste = Idle
    /\ paste' = Reading
    /\ UNCHANGED <<contentVars, life, editable, find>>

StartUpload ==
    /\ paste = Reading
    /\ paste' = 0
    /\ UNCHANGED <<contentVars, life, editable, find>>

UploadChunk ==
    /\ paste \in 0 .. MaxChunks - 1
    /\ paste' = paste + 1
    /\ UNCHANGED <<contentVars, life, editable, find>>

UploadFails ==
    /\ paste # Idle
    /\ paste' = Idle
    /\ UNCHANGED <<contentVars, life, editable, find>>

FinishUpload(b) ==
    /\ paste = MaxChunks /\ life = "live" /\ b \in DOMAIN blocks
    /\ paste' = Idle
    /\ Changed(InsertAt(blocks, b + 1, Block("file", <<>>)), {b + 1})
    /\ UNCHANGED life

RichNext ==
    \/ \E b \in DOMAIN blocks, c \in Letters : TypeLetter(b, c)
    \/ \E b \in DOMAIN blocks : DeleteLetter(b) \/ FenceOnEnter(b) \/ RemoveBlock(b)
    \/ EstablishBaseline \/ Restore \/ DestroyEditor
    \/ OpenFind \/ ToggleCaseSensitive \/ CloseFind
    \/ \E q \in Queries \cup {<<>>} : SetFindQuery(q)
    \/ \E delta \in {-1, 1} : StepMatch(delta)
    \/ \E new \in Replacements : ReplaceCurrent(new) \/ ReplaceEvery(new)
    \/ PasteImage \/ StartUpload \/ UploadChunk \/ UploadFails
    \/ \E b \in DOMAIN blocks : FinishUpload(b)

RichSpec == RichInit /\ [][RichNext]_richVars

---------------------------------------------------------------------------
\* The form holds what the editor shows, with the blocks of missing plugins as
\* they were stored, or still the document that the editor shows as it was loaded,
\* unless the last change came before the first frame or while the document was
\* read-only, where the find bar replaces too (useRichEditorInner, blockSanitize,
\* DocumentEditorForm).
FormShowsEditor ==
    life = "live" /\ ~unreported =>
        formBlocks = RestoreUnknown(blocks) \/ blocks = Parsed(formBlocks)

\* That, and no stand-in for the block of a missing plugin ever reaches the form.
FormFollowsEditor ==
    /\ FormShowsEditor
    /\ \A i \in DOMAIN formBlocks : formBlocks[i].kind # "unknown"

\* What replacing every match must give: the text read from the left.
Replaced(text, query, caseSensitive, new) ==
    LET fold(t) == IF caseSensitive THEN t ELSE Lower(t)
        rest[i \in 1 .. Len(text) + Len(query)] ==
            IF i > Len(text) THEN <<>>
            ELSE IF MatchesAt(fold(text), fold(query), i) THEN new \o rest[i + Len(query)]
            ELSE <<text[i]>> \o rest[i + 1]
    IN  rest[1]

\* Replace all replaces every match in every block and nothing else, whatever
\* the lengths of the match and the replacement (applyReplaceAll).
ReplaceAllReplaces ==
    [][\A new \in Replacements : ReplaceEvery(new) =>
        \A b \in DOMAIN blocks :
            blocks'[b].text = Replaced(blocks[b].text, find.query, find.caseSensitive, new)]_richVars
=============================================================================
