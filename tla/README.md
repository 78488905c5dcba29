# dvipdfmx in TLA+

dvipdfmx reads a DVI (or XDV) file and writes a PDF file. This directory holds
TLA+ models of it, written from the C source, the TLC configurations that check
them on small instances, and proofs checked by TLAPS. File names below are those
of the source directory; line numbers are in `PROJECT.json` (`map`).

Contents: [what is here](#what-is-here), [inventory](#inventory-of-the-system),
[the models](#the-models), [the runs](#the-runs), [the proofs](#the-proofs),
[disagreements found](#disagreements-found), [other observations](#other-observations),
[plan](#plan), [not modelled](#what-is-not-modelled).

## What is here

| module | what it is | code |
|---|---|---|
| `PdfOut` | objects, links, labels, releases, object streams, cross reference | pdfobj.c (output half) |
| `PdfOutProofs` | type correctness of `PdfOut`; every label is accounted for; nothing written ever moves; references to unwritten objects do not dangle | |
| `PdfOutCountProofs` | reference counts are exact; a closed file has an entry for every label; `free_list` agrees with the table; strings are encrypted once | |
| `NameBinding` | abstract: what a table of named objects promises | |
| `PdfNames` | the table of named objects, over `PdfOut`; implements `NameBinding` | pdfnames.c, parts of spc_pdfm.c |
| `PdfNamesProofs` | the table keeps its links and the writer's invariants; every name can be reached | |
| `NameBindingProofs` | no placeholder and no label is left over; the table implements `NameBinding` | |
| `PdfDev` | page device, graphics states, colours, content streams, captured forms | pdfdev.c, pdfdraw.c, pdfcolor.c, parts of pdfdoc.c, dvi.c and the specials |
| `PdfDevProofs` | content streams are right in every document: syntax, fonts, colours, caches | |
| `Dvi` | the interpreter of pages, virtual fonts, boxes of links | dvi.c, vf.c, parts of pdfdoc.c, spc_pdfm.c, spc_html.c |
| `DviLayout` | what typesetting a page promises | |
| `DviProofs` | the stacks of registers, fonts and widths are as deep as what pages and packets have opened | |
| `DviLinkProofs` | type correctness of `Dvi`; each glyph is in the rectangle of its link and its line | |
| `DviLayoutProofs` | every glyph, the registers and the font are where one reading of the instructions puts them | |
| `PdfDoc` | pages and references to them, outlines, articles, destinations, links | pdfdoc.c, pdfnames.c, parts of the specials |
| `Main` | a run of the program: page ranges, page sizes, over `PdfDoc` | dvipdfmx.c, dvi.c |
| `Document` | what the document of a run must be | |
| `PdfImport` | pages of other PDF files included as images | pdfobj.c (input half), pdfdoc.c, epdf.c, pdfximage.c |
| `ImportRight` | what an included page must be | |
| `Type1Char`, `Type2Char` | charstrings converted and copied | t1_char.c, cs_type2.c |
| `CharDraw` | what a charstring draws | the two formats |
| `CffDict`, `Cff` | the tables of CFF fonts, their readers and writers | cff_dict.c, cff.c |
| `CffFont`, `Type1Font` | CFF and Type 1 fonts embedded as simple fonts and CIDFonts | type1c.c, cidtype0.c, type1.c, t1_load.c |
| `Agl` | glyph names | agl.c |
| `OpenType`, `Gsub` | sfnt files, character maps, glyph substitution | sfnt.c, tt_table.c, tt_post.c, tt_cmap.c, otl_opt.c, tt_gsub.c |
| `TrueType`, `OtfCmap` | TrueType fonts embedded, CMaps made from their character maps | tt_glyf.c, truetype.c, cidtype2.c, tt_cmap.c |
| `CMap` | CMaps: tables, reader, cache, writer | cmap.c, cmap_read.c, cmap_write.c |
| `Encoding` | encodings of simple fonts | pdfencoding.c |
| `FontMap` | font map and subfont definitions | fontmap.c, subfont.c |
| `FontCache` | the fonts of a document, simple, composite and CID | pdffont.c, type0.c, cid.c, cidtype0.c, cidtype2.c, pdfdev.c |
| `MC...` | the instances for TLC: `MCPdfOut`, `MCPdfNames`, `MCPdfDev`, `MCDvi`, `MCDocument`, `MCImport`, `MCChar`, `MCFonts`, `MCTrueType`, `MCCodes` | |

A configuration has the name of its module (`MCPdfOut` and `MCImport` have two).
Check a model with `tlc -config MCDvi.cfg MCDvi.tla`, a proof with
`tlapm PdfOutProofs.tla`.

## Inventory of the system

The program is a single thread with no callbacks from outside: the interleavings
that matter are those of operations a document can ask for in any order. There is
no persistent state and no recovery: an `ERROR` exits. What is hard is therefore
*protocol*: static state shared by parts that do not know of each other, objects
written when their last link goes away wherever that happens, values cached
because they are believed to be in force, and tables that must be complete when
the file ends.

### PDF object writer (pdfobj.c, pdflimits.h)
*State.* `pdf_obj` structs with a reference count and a label; the next label, the
cross reference table, the bits of freed labels, the current object stream, the
output file, whether strings are being encrypted. *Operations.* create, link,
label and refer, put into and take out of containers, release, flush.
*Interaction.* everybody creates objects and gives links away; the order of
releases decides the order of the file. *Hard.* a release is a cascade, and may
open or finish an object stream half way; a label that is handed out and never
written leaves an uninitialised table entry; a reference holds an address that is
not counted. *Correct* when every label handed out is written exactly once where
the table says, counts are exact, references do not dangle and each string is
encrypted once.

### Named objects (pdfnames.c)
*State.* a hash table from `@name` to object, reference and closed flag.
*Operations.* define, refer (before or after), look up, close, delete the table.
*Interaction.* called by the `pdf:` specials (`specials.c` resolves `@pageN`,
`@thispage` and the like itself, through the page entries) and, for the trees of
the name dictionary, by `pdfdoc.c`; sits on labels and links of the writer. *Hard.* forward references:
a placeholder carries the label until the definition takes it over; an alias (a
name defined as a reference to another); close and redefine. *Correct* when the
first number is for ever the number, and the first definition is what is there.

### PDF import and syntax (pdfobj.c, pdfparse.c)
*State.* open input files, each with its table of labels, lazily read objects and
the references already made for them. *Operations.* open (chains of tables,
object streams, hybrid files), get, dereference, import. *Hard.* input graphs
with cycles: the reference for an object is reserved before the object is
complete; files are closed before the output is finished. *Correct* when an
object is imported once and the copy has the same shape.

### Document (pdfdoc.c)
*State.* page entries, content streams, page tree, outline, articles, name trees,
annotations, links being broken over lines, pending forms. *Operations.* begin and
end page, refer to a page not yet begun, bookmarks, threads and beads, begin and
end annotation, begin and end form, close. *Hard.* references to pages that never
come, beads on such pages, one static `breaking_state` for all links, the order in
which the closing steps release things.

### Page device (pdfdev.c), drawing (pdfdraw.c), colours (pdfcolor.c)
*State.* motion state (graphics, text, string), font, slant, rotation, bold and
multibyte flags, `force_reset`, used fonts; a stack of graphics states; a stack of
colours. *Operations.* set string, rule, direction, images, page begin and end,
gsave and grestore, colour push and pop. *Interaction.* writes to the innermost
form being captured, or to the page (pdfdoc.c); driven by dvi.c and by every kind
of special. *Hard.* an operator is written only if the cached value differs: the
cache has to follow q/Q, BT/ET, pages and forms. *Correct* when the file shows what
the document asked for and is well formed.

### DVI interpreter and virtual fonts (dvi.c, vf.c)
*State.* registers and their stack, the fonts, a page buffer, link marks at a
depth, reflection and compound text segments. *Operations.* one per opcode, the
recursion of a virtual font into the interpreter. *Hard.* reflected text is
read twice; links are broken by comparing depths; the stack has a limit.

### Specials (specials.c, spc_*.c)
*State.* per handler: open annotation, open tpic path, html base and anchor,
overlays and scale factors (`spc_xtx.c`), named objects. *Operations.* one per
command. *Hard.* begin/end pairs by different handlers on one device; commands at
end of page and of document.

### MetaPost and PostScript (mpost.c, pst.c, pst_obj.c)
*State.* operand stack, current point and path, the matrix, scaled fonts.
*Hard.* gsave and grestore against the device's stack; the state at the end of a
figure that did not balance.

### Main program and page scan (dvipdfmx.c, dvi.c)
*State.* page ranges, paper, offset and landscape, the number of pages seen in a pipe, the
page buffered by the scan. *Operations.* the loop over ranges, the scan of a page for the
specials that give its size, the phases (open the document and the device, the pages,
close the device, the document, write the file). *Hard.* the first page is scanned before
the document is opened and again when it is typeset; ranges run backwards or beyond
the file. *Correct* when the pages asked for come out in the order asked for, each
with its size.

### Images, resources, fonts, encodings, CMaps, font maps
(pdfximage.c, pdfresource.c, pdffont.c and the font formats, pdfencoding.c,
cmap*.c, fontmap.c) *State.* caches indexed by small integers. *Operations.* find
or load, reference, complete at the end of the document. *Hard.* a reference is
handed out long before the object is made; one descendant serves several parent
fonts; used characters accumulate until the last page; a reserved image may never
be defined. *Correct* when every reference handed out is resolved once.

### Font programs (t1_char.c, cs_type2.c, t1_load.c, cff*.c, sfnt.c, tt_*.c, otl_opt.c)
Readers and subsetters. *Operations.* charstring interpreters with bounded stacks and
nested subroutines, renumbering of glyphs and of the parts of composites, assembly of a
font file, selection of substitutions. *Hard.* one glyph is reached under several
numbers (code, name, CID, place in the subset), and encoding, charset, widths and outlines
are made in different passes over the same codes. *Correct* when the file that is written
shows, for every code or CID that is used, the outline and width of the glyph meant.

### Encryption (pdfencrypt.c, dpxcrypt.c)
Keys per label; ciphers. What has order is *when* and *under which label*
something is encrypted, and that is with the writer.

### Files and utilities
(dpxfile.c, dpxutil.c, mem.c, error.c, mfileio.c, numbers.c) Hash table, stack, queues,
file search, messages: library code.

## The models

There are two kinds. The state machines (`PdfOut`, `PdfNames`, `PdfDev`, `Dvi`, `PdfDoc`
with `Main`, `PdfImport`) have one action per operation of the code, and TLC chooses the
operations. The parts of the program that turn one file into another (`Type1Char` to
`FontCache`) are operators, one per C function and with its name, over the static variables
the function reads and writes, which are handed in and returned; their MC modules choose
a subject, carry out what the program does with it in one step, and compare what comes out
with an independent reader of what went in. For those, the question is never whether a
function equals a copy of itself: a charstring is *drawn* before and after, a font file
that was written is *read* again by the rules of its format, a CMap is *decoded*.

### PdfOut
`heap` is the array of `pdf_obj` structs by address; `held[o]` counts the links that
code outside pdfobj.c owns, so that an operation is allowed exactly to who has a
link. A container is the sequence of what it owns. A reference is an object with
the address (`target`) and the label (`tlabel`) it was made for. `nextLabel`,
`freed`, `xref`, `stm`, `encMode` and `trailer` are the fields of `pdf_out`; `file` is
the sequence of top level objects, so that a file offset is an index.

Operations of callers are actions that begin in an idle state: `Alloc`, `Link`, `Ref`,
`AddKid` (`pdf_add_array`, or `pdf_add_dict` of a new key), `ReplaceKid`, `RemoveKid`,
`SetInfo`, `Release`. `pdf_release_obj` is recursive; `work` is the sequence of calls
still to make (depth first, left to right), and each `Release...` action is one call up
to its recursion. `RefFails`, `ReleaseFails` and `OutFlushFails` are the `ERROR`
exits. `OutOpen` is what `pdf_open_document` does to the writer, `OutFlush` is
`pdf_out_flush` in its two forms.

Assumed of callers, from how the code calls: only somebody with a link uses an
object; no container is made to own itself (the C code would leak it); a
placeholder of pdfnames.c is not stored in a container; the file is flushed
when everything held was released.

### NameBinding and PdfNames
`NameBinding` has three functions per name: its number, its meaning, what the file
holds. Each is set once. `PdfNames` has the table `names` (`struct obj_data`) and
every function of pdfnames.c that changes it, split by its early returns:
`AddObject` into `DefineFresh`, `DefineReserved` (the label moves,
`pdf_transfer_label`) and `DefineTwice`; `LookupReference` into `Reserve`,
`FirstReference`, `FirstAlias`, `NextReference` and the `ERROR`; `CloseObject`;
`BeginDelete`, `DefineNull` (`check_objects_defined`) and `FreeName` (`hval_free`).
The specials hold links of their own (`Mine`), which is what the writer's `held`
leaves after the table's. `bound` and `meaning` are history variables for the
refinement `Binding`: the number first handed out and the type of the first
definition. `out` is read from the file through the table (`Printed`).

A failed `ASSERT` is recorded in `abort` and nothing follows.

### PdfDev
One record `p` holds the static variables of the three files, so that a C function
is an operator from record to record and a handler is their composition in the order
of the code (`SetString` is `pdf_dev_set_string`, and so on). `p.out` is the content
stream of the page and those of the forms being captured in it. A content stream is
not kept as text: it is the state a viewer is in after reading what was
written so far (`Exec`, from the PDF standard: external to the source). A wrong
operator, a wrong font or matrix when text is shown, and a font missing from
the resources leave a mark in `bad`. The properties thus compare what the *viewer*
does with what the *document* asked for; neither is what the device believes.

Two choices deserve a word. A font is what `pdf_dev_set_font` reads of it
(composite, vertical, slanted, bold). The matrix depends on slant and angle only: an
upright font has the same matrix in all modes of one angle (`Matrix`), which is
why `ANGLE_CHANGES` may compare angles modulo 5.

Assumed of documents: `pdf:etrans` and `x:grestore` close only what was opened in the same
page or form; there is no `x:clipoverlay` (see [below](#disagreements-found)); the text of `pdf:content` is well formed and balanced.
Autorotate is on, as it always is outside MetaPost. Where the device makes "no
assumptions about what fonts" are in force after a text object the model does neither:
the viewer loses the font at ET.

### Dvi and DviLayout
A page is a sequence of instructions. TLC chooses the next one *while the page is read*
(`Documents` gives how a page begins, what may follow and how many), and what has been read
stays in the frame (`code`, `pc`), as the page buffer of dvi.c does: a segment of reflected
text is read twice, once to measure it (`skim`, `measured`) and once to typeset it in the
other direction, the second time from the buffer. `frames` has one frame for the page and
one for every packet of a virtual font in which the interpreter is (`dvi_set` calls
`vf_set_char`, which calls the interpreter): registers and font are saved on entry. `stack` is
the register stack, `link` the static `breaking_state` with the three depths that
decide whether a line break breaks a link (`dvi_mark_depth`), `annots` the annotations
made. A glyph is known by its place in `out`, which also records, as history, the link
and the line it was set in. What counts as the depth there is what the *page* has pushed
(`PageDepth`: a frame keeps in `below` how deep the stack was when its packet began): a comment
in dvi.c says that the "logical structure of document is oblivous to virtual fonts".

What is assumed of the input is stated as `DocumentAssumption` and `PacketAssumption`, which TLC
evaluates on every run. What is opened is closed, in order; a document has links of one kind, begun
inside a push (a line); `pdf:nolink` comes between lines only. Reflected text is that of
TeX--XeT, without the instructions whose effect while it is measured is not what they do afterwards
(`put`, `w`, `w0`, a change of direction, virtual fonts). Packets of virtual fonts are balanced, and have no
specials and no reflected text. [Other observations](#other-observations) has what the code does without
that.

`DviLayout` says what all this has to give, without any of it. `Layout` is a plain reading
of a page: nested segments are measured by looking for the instruction that closes
them, a packet is a sequence inserted, and there is no second reading, no depth and
no state that is saved. `LayoutRight` compares positions, fonts and final registers.
`LinksCover` and `LinesApart` say which glyphs are in which rectangle of which link.

### PdfDoc, Main and Document
`PdfDoc` has the page entries (`pages`, with the references handed out for them, before,
while and after a page is made), the bookmarks under construction, the articles with
their beads, and the destinations and links with the renaming of names (`-C` bit
check_gotos). `Close` writes all of it: `PageTree` (`build_page_tree`), `Outlines`
(`flush_bookmarks`), `Threads`, `NameTree` (`pdf_names_create_tree`). `Main` is the program
around it: the scan of the first page, which fixes the size of the document, the loop over
ranges, the scan of each page for its own size, and the end of the input, which a pipe
only shows when it is reached. Names of destinations are sequences of digits because
they are compared in the order of their bytes, and the new names are numbers whose
digits have to keep that order.

`Document` states, from the sequence of operations alone, what a reader must find in the
file: pages in the order asked for with their boxes; every reference to a page is that
page; the outline, flattened, is the bookmarks in order at the depths asked for, with
the counts a viewer of open and closed entries shows; each thread is a ring through
its beads in order, linked both ways, and each bead is on its page; each link that names a
destination leads through the name tree to the page where it was defined.

### PdfImport and ImportRight
A file is given by its cross reference sections (tables, streams, and tables with a
stream beside them), by what is at each offset, its object streams and its page tree; an
object is a tag and the references in it. `pdf_open` reads the sections as `parse_xref_table`
and its fellows do, newest first into one table. Copying is the recursion of
`pdf_import_object`, with its stack of objects begun and not complete as `stack`, so that a
cycle meets a label reserved for an object that does not exist yet. Page lookup
descends by counts with what a page inherits; the form has the box that
was asked for and the matrix of its rotation. `images` is the table of pdfximage.c with
reserved identifiers. `ImportRight` reads the same file by the rule that the newest section
that says something of an object wins.

### Type1Char, Type2Char and CharDraw
A charstring is a sequence of tokens. `Type1Char` is t1_char.c: the charstring run on its
two stacks to a list of path items with flex and hint replacement, the list compacted, and
written as Type 2 with sorted relative stems and masks. `Type2Char` is cs_type2.c: a
charstring copied with subroutines and arithmetic carried out. `CharDraw` interprets
both formats by their definitions into a *picture*: width, and moves, lines and
curves in absolute points, each with the set of stems in force. It has its own arithmetic, and
knows that a Type 1 stem 20 or 21 wide is a *ghost*, which stands for one edge, as a Type 2 stem of
width -20 or -21 does. Where the C code reads what nobody wrote (an index one past an array) the
model's charstring has the status `undefined`, which no property accepts.

### CffDict, Cff, CffFont and Type1Font
`CffDict` and `Cff` read and write DICTs, INDEXes, charsets, encodings and FDSelect as bytes.
`CffFont` is the subset of a CFF font as a simple font and as a CIDFont, `Type1Font` what
t1_load.c makes of a Type 1 program and the two fonts made of that. Charstrings are seen from
afar there (a width and bytes, some of which call a subroutine). The reader in `MCFonts`
parses the file that was written, follows Encoding or charset to a glyph, FDSelect to a
Private DICT, and subroutine calls by the bias in force.

### Agl, OpenType, Gsub, TrueType and OtfCmap
Fonts are built table by table in `MCTrueType` as sequences of 16-bit words, plain, in a
collection or in a resource file, with several formats of cmap, loca and post, composites
that nest, and GSUB tables. `TrueType` chooses glyphs for codes by the encoding, by names and
by the features a name's suffix selects, and for CIDs by a CMap; builds the subset with its
components; and writes widths. `OtfCmap` makes the ToUnicode CMap and the CMaps of the
`unicode` encoding. `TrueTypeShown` reads the embedded file again, expands composites to
outlines and compares outline, advance, bearings and texts with those of the glyph
meant. What `tt_build_tables` leaves unset for a glyph without an outline (the top of it, from which
the vertical position is made) is whatever the memory held: `unset`, of which the run tries two
values.

### CMap, Encoding, FontMap and FontCache
`CMap` keeps the tree of tables as a function from paths of bytes; the reader takes the
tokens of a file and the files it uses, the writer gives tokens again. `Encoding` keeps the
cache, differences and ToUnicode maps. `FontMap` has map lines in the three modes and
subfont definitions. `FontCache` is the composition of these: the caches of fonts,
composite fonts and CIDFonts, the font records of the device, and the passes over
them when the document is closed. A font program is its kind and what the caches ask
of it, since what is in one is in the modules above. In `MCCodes` requests for fonts come in
any order, are used with strings and the document is closed; `CodesShown` reads each
font of the finished document from its resources alone: from a code through the
encoding or CMap to a glyph, a width and characters.

## The runs

`CHECK_DEADLOCK FALSE` is set everywhere because the program ends: after
`pdf_out_flush`, after an `ERROR`, after a failed `ASSERT`, at the end of the input, or
when the subject of a step has been made.

| run | module, states | asks |
|---|---|---|
| `out_stm` | `MCPdfOut`, 165 000 | Do callers that create, share, refer to, nest and release in any order always leave a consistent file, with object streams and encryption? |
| `out_table` | `MCPdfOut`, 24 000 | Is the classic table complete, and does every release end? |
| `names` | `MCPdfNames`, 399 000 | Does the table of names keep its promise, and leave the writer consistent? |
| `dev` | `MCPdfDev`, 56 000 | Does what the device leaves out always hold in the viewer? |
| `dvi` | `MCDvi`, 3 184 000 | Is every glyph where a plain reading puts it, and in the rectangle of its link? |
| `document` | `MCDocument`, 55 000 | Are pages, outline, threads and destinations what was asked for, in whatever order? |
| `import` | `MCImport`, 23 000 | Is what is copied what a reader of the file sees, once? |
| `glyphs` | `MCChar`, 10 000 | Does a converted or copied charstring draw the same? |
| `fonts` | `MCFonts`, 1 900 | Does an embedded CFF file show the glyphs and widths of its source? |
| `truetype` | `MCTrueType`, 1 500 | Does an embedded TrueType file, and does every text lead back to its glyph? |
| `codes` | `MCCodes`, 32 000 | Does every code shown lead to the glyph and characters the files give it? |
| `import_freed` | `MCImport`, violation | see [below](#disagreements-found) |

**`out_stm` and `out_table`.** `LabelsAccounted` (each label has one bearer
or one place in the file, never both or neither, and the table leads there),
`FreeListExact`, `XrefComplete` (no uninitialised entry is dumped), `RefcountExact`,
`DerefSafe`, `EncryptedOnce`, `WrittenOnce` (an action property) and `ReleaseEnds`
(liveness). *Bounds:* three addresses are enough for a container, something shared
in it and a reference, and for reuse of an address; object streams of two members
are finished in mid-release and at the end of the file; six labels leave room for two
object streams, the encryption dictionary, the catalog and the cross reference stream,
and are exhausted on other paths, so that each `ERROR` is reached. In `out_table`
containers own two objects, so that a cascade branches.

**`names`.** `ImplementsBinding` (refinement), `NamesXrefComplete`,
`NamesLabelsAccounted`, `NameReachable`. *Bounds:* two names and four addresses are a
forward reference, its definition as a reference to the other name, and the catalog;
three labels are the catalog and one per name, and run out when a special refers to
something else. Object streams are off since `out_stm` has them and the table does not
see them.

**`dev`.** `SyntaxRight`, `ShowsRight`, `FontsListed`, `FillFollowsStack`,
`CachesRight`. *Bounds:* a vertical composite font and a slanted, bold simple one
differ in everything the device looks at; directions 0, 1 and 3 with the two writing
modes reach all six rotations; four graphics states are the base, the page, and
two more, be they transformations or nested forms; the colour stack has room for one
push, so that overflow and underflow are both reached. The device has no counters,
so its state space is finite without other bounds.

**`dvi`.** `LayoutRight`, `LinksCover`, `LinesApart`; `DviTypeOK` has the depths of the stacks and,
for every page that is not being measured, one width for each reflected segment that is open.
*Bounds:* eight documents, each with an
alphabet of its own and four to eight instructions after the header: links of `pdf:`
specials, html anchors, reflected text in two fonts, reflected rules and glyph runs,
virtual fonts, changes of direction with runs of glyphs. The longest are what it takes to open two nested
segments with text in and between them, or a link, two lines and a return below the
line it began in. Packets nest three deep and once too deep; the register
stack has four places, so that it overflows; two pages let a link go over a page break
and let an article of one page meet the header of the next.

**`document`.** `PagesInOrder`, `PagesReferred`, `OutlineRight`, `ThreadsRight`,
`LinksResolve`. *Bounds:* files of three pages with the sizes a page can ask for, seven lists
of ranges (forwards, backwards, to the end, beyond it, twice the same page), the paper of
the command line or none, and pipes; then, on plain pages, four or five operations of each
kind. Trees have nodes of two (`Cluster`, 4 in the code), so that eleven pages
give three levels; new names have digits of base 3 (`Radix`), so that they get
a second digit; levels 1, 2 and 4 skip one. Both tree builders are also checked on every
length up to the bound.

**`import`.** `ImportedRight`, `IncludedRight`, `IdentsResolve`. *Bounds:* two files with an
update that replaces and frees objects, object streams, a hybrid section and a page
tree of two levels with inheritance; objects in a cycle, shared, missing and in the stream;
up to four uses of images, each a request with or without an identifier or a use of an
identifier. `IncludedRight` compares the box of the form with the box that the request named, found by
the standard's rules for defaults and cut to the media of the page (uncut where none was named: the
code takes the first of CropBox, ArtBox, TrimBox and BleedBox there and does not cut it); pages have
several boxes, one of them larger than the media. That is the rule for DVI input: in XDV mode the
code cuts the box it chose by itself too (pdfdoc.c:944), which the model leaves out. In this run the
freed entry has a next free object, so that its entry does not look unset; `import_freed` has
the other case.

**`glyphs`, `fonts`, `truetype`, `codes`.** The inputs are all the combinations of
a few parts, put together in the MC module: charstrings of a beginning with or without
stems, two or three drawing parts and an end; fonts of six to eleven glyphs with up to
three requests; map files of two or three lines in two loads; CMap files of up to three records
over two files. Bytes are 0 to 3 in `codes` (`ByteMax`), so that a range of two bytes
carries into the first byte and a pair of surrogates exists; a block of the
writer has two records (`FlushAt`, 100), two common codes make encodings similar
(`SimilarAt`, 64). Stack limits are those of the code or just above what the
parts need.

Some things are not said because the program does otherwise. `OutlineKept` compares pictures without
the hints of single edges, and `CMapsRight` takes no code for which a CMap file has a second record that
gives it another CID (both in [Disagreements found](#disagreements-found)). `TrueTypeShown` does not ask for a
vertical position of a glyph without an outline (see [Other observations](#other-observations)), only for its
advance. `GlyphsShown` leaves out the second code of a glyph: its width in a Type 1C font
(type1c.c:491 takes it out of the used ones) and its place in the encoding of a Type 1 font
(type1.c:651 writes the code of the first as the supplement; the encoding of the PDF file, when there is one, hides
that).

In `MCFonts`, `MCTrueType` and `MCCodes` what the program makes of a subject is a constant
operator (`Made`), which the configuration names: TLC's coverage builds a tree with a
branch for every call below an action, and these conversions are too deep for it; a
constant with a `LET` for its value is where the tree ends. The statistics of coverage
thus stop at `Made`; what is checked is the same.

**Fairness.** Only `out_table` uses it: `WF_vars(ReleaseStep)`. A release that has begun is
a C call in a single thread and runs on; nothing is assumed of callers. There is no other
waiting in the program.

**Symmetry.** Addresses and names are interchangeable in the safety runs of `PdfOut` and
`PdfNames`; no liveness property is checked with symmetry.

Every property has a mutant of a mapped definition (listed in `PROJECT.json`, defined
just before the original) under which TLC finds it violated.

## The proofs

The theorems are about `PdfOut!Spec`, `PdfNames!NamesSpec`, `PdfDev!Spec` and `Dvi!DviSpec`. Those of the
first two hold for every finite set of addresses, every label limit above 2, every size of object streams, with and without object
streams and encryption (`OutAssumption`), and every finite set of names (`NamesAssumption`:
the table is an array of slots in a hash table, and its links are counted). They also hold
for all values of the two bounds, `MaxLinks` and `MaxKids`. Those of the device hold for
every set of fonts, with any of them composite, vertical, slanted or bold, every set of colours
with black, every height of the colour stack, and every depth of graphics states and of forms
that lets a page begin (`DevAssumption`). Those of the interpreter hold for every set of fonts and
characters, every width, packet and assignment of fonts to kinds, every limit of the two stacks and all
documents and packets that `DocumentAssumption` and `PacketAssumption` admit, of any length. Of the
properties that the runs check of these four modules one is not proved, the liveness property
`ReleaseEnds`.

### The writer
- **`TypeCorrect`** (`TypeOK`). Inductive as it stands. Its content is the label limit:
  no label, not even that of an object stream opened half way through a
  release or that of the cross reference stream, reaches `PDF_NUM_INDIRECT_MAX`.
- **`AccountedCorrect`** (`LabelsAccounted`). The property speaks of pending and located
  labels; what makes it inductive is `LabelInv`: `Unwritten` (labels in use are
  below the next one, borne once, and not that of the open stream; an entry is unset
  exactly when its label is unissued or borne), `Written` (entries lead to objects),
  `Listed` (objects have entries, which is what keeps a later write from making an
  earlier entry stale), that a freed struct bears no label, and that nothing is
  written before the file is opened. The invariant is stated about *values* (`Accounted(L,
  n, x, s, f)`), so that adding to an object stream that becomes full is the composition
  of two lemmas, `Store` and `WriteStm`, and `Issue`, `Write`, `WriteFresh` serve all actions.
- **`OnceCorrect`** (`WrittenOnce`). From `LabelInv`: an action writes only under a label that
  is borne or new, and such a label has no entry to lose.
- **`DerefCorrect`** (`DerefSafe`). `DerefInv` adds that a reference carries a number (an object
  without label can then go without leaving a reference behind) and that
  there are no references before the file is open.
- **`RefcountCorrect`** (`RefcountExact`). `CountInv`: the count of every object is the number
  of slots that hold it, plus the links of callers, plus the releases still to do (`Balance`);
  no objects own each other in a circle (`NoCircle`); a struct is free
  exactly when its count is 0. The slots are summed over all owners, one owner at a time
  (`SlotsSplit`), so that each action changes one term of the sum. `NoCircle` says that every
  non-empty set of objects has a member that nobody in the set owns; an action that adds a
  kid keeps it because the code's callers add only what is not above the parent
  (`MayStore`).
- **`XrefCompleteCorrect`** (`XrefComplete`). When the file is closed the work list is empty and
  nobody holds a link; with exact counts the live objects would all be owned by live objects,
  which `NoCircle` excludes unless there are none (`ClosedInv`). No label is borne then, and
  `LabelInv` says that every label issued has an entry.
- **`FreeListCorrect`** (`FreeListExact`). Inductive beside `LabelInv`: the bit of a label and its
  entry are set in the same step, wherever a label is written.
- **`EncryptedCorrect`** (`EncryptedOnce`). `EncInv` adds that members of object streams are kept in clear and
  their stream is encrypted, that neither the encryption dictionary, which bears
  label 2, nor the catalog can end up in a stream, and that the mode is off once closed.

### The names
- **`NamesTypeCorrect`**, **`NamesAccountedCorrect`**, **`NameReachableCorrect`** (`NamesTypeOK`,
  `NamesLabelsAccounted`, `NameReachable`). The table acts on the writer's variables in ways
  the writer's own `Next` does not: above all `pdf_transfer_label`, which moves a label from
  a placeholder to the object that is to be written under it. `WriterInv`, the
  conjunction of the writer's invariants, is proved to be kept by these steps as well, once
  for each pattern in which the table takes links and gives them up. `TableInv` says that
  the links the table has on an object are among the links that are held (`Links(names, x) <= held[x]`), so
  that no object of the table is freed under it.
- **`NamesXrefCorrect`** (`NamesXrefComplete`), from `WriterInv` and `FiledInv`: no entry of the
  file is a placeholder.
- **`BindingCorrect`** (`ImplementsBinding`), the refinement of `NameBinding`. `BindInv`: an object
  that is no reference has one link at most (`Single`), so it is in the table or a special's, and
  moving its label is seen by nobody else; `reference` of a name is a reference
  (`Referring`); and, for each name: before it is used it has no number and no meaning (`Fresh`);
  no two names have a number in common, and none that of the open stream (`Numbered`);
  the object it stands for bears its number and is what it means, or its placeholder (`Named`);
  what bears its number, or is in the file under it, is what it means (`Meant`).
  Of the steps, `DefineFresh` and `DefineReserved` are `Define`, `Reserve` and
  `FirstReference` are `Refer`, `DefineNull` is `GiveUp`; a step of the writer is `Write` if it
  writes what a name is bound to, and there is at most one such name because a label
  is borne once; everything else is a stutter.

### The device
The six properties of the run `dev` (`DevTypeCorrect`, `SyntaxCorrect`, `ShowsCorrect`,
`FontsListedCorrect`, `FillCorrect`, `CachesCorrect`) follow from one invariant, `DevInv`. They
cannot be had one by one: that a string opens in a text object needs the motion state to be the
viewer's, the font in force needs the caches, and what Q brings back needs the colours.
- `Sound` is what every function of pdfdev.c keeps. `TextRight`: the innermost stream has
  no fault, and its text state is what motion, font, matrix and rendering mode say; fonts
  marked as used are in its resources. `FontRight`: what is remembered of the font
  is right *for that font*, since slant and rotation may agree with the viewer without being
  those of the font. Its last part is what makes `ANGLE_CHANGES` enough: the macro compares
  modulo 5 and takes rotations 0 and 5 for the same, between which a slanted font has
  different matrices; but a rotation remembered with a slant is the current direction or 4
  more, and so is the one asked for (`MatrixServes`).
- `Settled`: text that is being shown has a font. `pdf_dev_set_dirmode` relies on it: without
  a font it takes the new rotation and does not ask for a new matrix.
- `Shaped` ties the streams to the stack of graphics states (`Framed`). Each stream owns a
  section of the stack, from `Bottom` to `Upper`; the viewer's saved states are those of the
  section but the last, in order (`Nested`), with their colours; a stream suspended by a form is
  outside of text, not bold, and has the colour of the top of its section (`Suspended`).
  Sections do not overlap because `pdf_doc_begin_grabbing` records the depth: this is what makes
  `grestore_to` stop where the form began.
- `Tinted`: the viewer's colour is that of the graphics state and that of the colour stack. It
  does not hold *inside* the C functions; a grestore gives `Filled` (the first half) only,
  and `pdf_dev_reset_color` the second.
- `Resting` is the invariant between pages: the stack is back at its base and no font counts
  as used.

There is one lemma per C function (`TextModeIs`, `SelectFontIs`, `SetStringIs`, `GsaveIs`,
`GrestoreToIs`, `ColorPushIs`, ...), each saying what it makes of a device that is `Sound`, or
`Ready` (sound, shaped, outside of text). Functions that write text leave everything but the
state of the text alone (`Draws`), so that `Shaped` is carried over at once
(`ShapedDraws`). An action then is the composition of these lemmas in the order of the code
(`BeginPageIs` to `EndFormIs`). The loop in `grestore_to` is a function over its rounds; that it
exists and what it does is shown by the least round at which it would fail
(`NatLeast`, from the well-foundedness of the natural numbers).

### The interpreter
- **`DviTypeCorrect`** (`DviTypeOK`). The stacks of registers, of fonts and of widths are static variables
  that instructions of pages and of packets share, so their lengths can only be known from all
  the frames at once. `ControlInv` says of each frame what its instructions so far have opened
  (`Open`, from `Pending`): `FrameOK`, the register stack is as deep as the frame began plus the pushes
  that are open there, and one more for a packet (`Base`), and suspended frames stand just behind
  the character that was set; `TurnsOK`, each reflected segment that is open in the page has its width on
  the stack of widths and reverses the direction; `Measuring`, while a segment is measured, the
  place to go back to is the instruction after its `breflect`, everything opened since is still open,
  and the pushes in it have their widths. Going back takes the page to an earlier instruction
  with everything as it was there: `RereadKeeps` shows that what is open at the end of the segment,
  less the segment, is what was open at its beginning.
- **`LinksCoverCorrect`** and **`LinesApartCorrect`** (`LinksCover`, `LinesApart`). `LinksInv` adds what ties the
  depths of the link (`mark`, `tag`) to the page: `mark` is `PageDepth` between instructions (`Marked`), also
  while packets push and pop; a box that holds something is on the line that is being set, and the page no
  shallower than the link began, with annotations on (`BoxInv`), so that whatever ends the line
  breaks the box; the two ideas of a pending link, that of the `pdf:` specials and that of
  html, agree with what pdfdoc.c has, every glyph of a link is in one box or rectangle (`Covered`), and no
  rectangle has two lines (`OneLine`; together `LinkCore`). A glyph set at a depth below the tag has no link: the
  program compares `mark`, the history variable `PageDepth`, and the proof is that they agree. (As
  first written the history variable counted the stack of packets as well. The run did not see the
  difference, the proof did.)
- **`LayoutRightCorrect`** (`LayoutRight`). The property speaks of the end of a page or packet; in between
  the interpreter is at some place in that reading, which `LaidOut` states. `Laid(code, start, k)` is
  the reading after k instructions, and there are three ways to stand to it. The frame at the top
  normally shows it (`Running`): the registers, the font, the direction and the glyphs are its own, and
  its stack is the part of the register stack above the frame's base (`Here`). The frames below are
  suspended in it (`Awaits`): what they will be when the packet ends is in the registers that
  `dvi_vf_init` pushed, moved on by the width of the character, and in the font that was saved. And while
  a segment is measured (`Gauged`) everything is as it was before its `breflect`, every register pushed since
  is a copy of the current ones, and the widths collected are those of `Measured`, the width of the
  segment as far as it was read. When the program goes back, that width is
  `SegmentWidth` (`SegmentCloses`), so the second reading begins where the layout does (`RereadRuns`).
  What is read later must not change what was laid out: `ClosedUpTo`, a segment that has been laid
  out has its end in the buffer (`LaidKeeps`). That measuring adds up what typesetting moves by is
  where `DocumentAssumption` is used: no `put`, `w` or change of direction where text is
  reflected. Moves are tied to the layout by `RunsSet` and the other lemmas up to `ExecuteRuns`, measured moves by
  `ExecuteGauges`, packets by `EntersLayout` and `LeavesLayout`, and `ExecuteLaid` puts them together. (As first
  written the layout placed the glyphs of a run along the direction of the text; `do_glyphs` adds
  their offsets to h and v whatever the direction. No document of the run had both, and the proof
  found it; `Japanese` has both now.)

For the first three there is one lemma per operation (`SetCharGood`, `EnterGood`, `PageStackGood`, `ReflectGood`, `SpecialGood`, ...)
from a state that is `Ready` for an instruction to one that is `Good` behind it, and `ExecuteGood`
puts them together. `Pending`, `TypesetAll`, `Layout`, `SegmentWidth` and `PlaceAll` are recursive functions
over a sequence; that they exist, and how they go on when an instruction is appended, is shown by
the least number at which it would fail.

### What stays with TLC
Liveness (`ReleaseEnds`) is out of the prover's reach. The other modules are only model-checked. Those that transform fonts and CMaps use recursion over data
(`RECURSIVE` operators, folds over charstrings); what they compute for every input is an
induction that the installed provers cannot do, and they stay with TLC.

## Disagreements found

1. **Freed objects of imported files** (run `import_freed`). `parse_xref_table` says
   "Don't overwrite positions that have already been set by a modified xref table." An entry
   counts as set when its position is not 0 (pdfobj.c:3940); a free entry whose next
   free object is 0 has position 0. The entry of the older section overwrites it, and an
   object that was deleted by an update is imported if something still refers to it.

The following were met while modelling. The models leave the operation out or
make it end the run, or the property leaves the case out, and say so where they do; no run is
kept for them.

2. **Ghost hints.** A comment in t1_char.c (251-259) says that the edge of a
   *ghost* stem, 20 or 21 wide in Type 1, is a stem of width -20 or -21 in Type 2, and lists
   "Convert ghost hint to edge hint" as to do. `add_stem` (t1_char.c:320) keeps 20 or 21: the Type 2
   glyph has a stem with two edges where the font has one edge. `Type1Char` does what the code does,
   and glyphs with ghost stems are in the run `glyphs`: `CharDraw` reads them by the rule of the comment,
   so that `OutlineKept` fails on the first of them (`hstem 0 20`) if it compares all hints. It compares
   all but the edges; outline, width and every other stem are kept beside a ghost.
3. **CID ranges that overlap.** A comment in cmap.c (621-623) quotes the CIDFont specification: "Code
   mappings (unlike codespace ranges) may overlap, but succeeding maps superceded preceding
   maps." For texts the code does that; `CMap_add_cidrange` skips a code that has a mapping
   (cmap.c:681), so the preceding CID stays, and so does a notdef that was read before it. `MeantCid`
   is the rule of the comment. With all codes compared `CMapsRight` fails on a file with
   `<0> <1> 5` in its CID ranges and `<1> 9` after it, where code 1 gives CID 6; it
   leaves out the codes that a later record gives another CID (`Redefined`).

4. **A reference made before its name is defined.** A comment in pdfobj.c says that
   `pdf_deref_obj` always returns a link instead of the original. Such a reference keeps the
   address of the placeholder; the definition takes the label over and the placeholder is
   freed, without the free bit. Dereferencing the older reference follows that
   address. Written to the file the reference is right: only the number is printed.
5. **Closing a name twice.** `pdf_names_close_object` has a warning for a second close, but the
   first close of a referred object stores NULL and an `ASSERT` above the
   warning fails.
6. **Taking over a label.** `pdf_transfer_label` asserts that its destination has no label; a
   reference that was already given to a reserved name has one.
7. **`x:clipoverlay`.** The colour stack exists to reinstall colours after a grestore
   (comment in spc_color.c); `x:clipoverlay` does a grestore and a gsave without.
8. **A broken link with a destination of its own.** With check_gotos destinations are renamed
   when an annotation is added; of a link over several lines the copy for the next line is
   made before that (pdfdoc.c:2806-2818). A link that names its target in a shared action
   dictionary is renamed on all lines, one with a `/Dest` of its own only on the last.

## Other observations

What the models do as the code does, and a reader of the properties might
stumble over:

- *DVI.* `w`, `x`, `y` and `z` set their registers while reflected text is only being measured; a
  change of direction in a reflected segment is not undone at its end. A packet that leaves
something on the stack, or takes too much off it, shifts the stack of its page. A page that is
  asked for twice has lost its `pagesize` special the second time if it was the
  first page: the same page asked for twice in a row is not scanned again (`dvi_scan_specials` returns
  at once for the page it has in its buffer), and `PagesInOrder` expects the size accordingly. A range `5-` of a file with three pages runs backwards from its end. An article
  that never gets a bead leaves the label of its information dictionary unwritten. The links
  of the three kinds of specials share one state: one begun inside another loses the outer. A
`pdf:nolink` that lasts over the end of a line hides the end: the rectangle goes on over both lines.
- *Images.* An image that was loaded before, by file, page and box, is returned without
  registering the identifier that is asked for now (pdfximage.c:411-424). The instance of
  `IdentsResolve` gives each identifier an image of its own.
- *CMaps.* A text mapping that takes the place of a notdef mapping of the same length stays a
  notdef mapping and is not written; the writer writes no notdef ranges at all; a new
  code space range is tested for overlap by its ends only, so one that contains an old
  one is accepted. A CMap file that uses
  itself does not end.
- *Fonts.* A second code of a glyph is dropped from the used ones of a Type 1C font
  (type1c.c:491) and so has width 0 and no ToUnicode entry. A changed map line does not
  reach a TeX font that is already loaded. Options for style and embedding make a font open a
  second time. Character collections are matched by prefix. Base encodings are pointers
  into an array that moves when it grows; the model stands below that length. Glyph
  names of an embedded CFF font need not be distinct.
- *Charstrings.* `put`, `get` and `get_subr` let an index through that is equal to the size of
  the array, or negative; `roll` of no operands divides by 0, and of a negative number of them moves what lies
  above the stack. The model calls that `undefined`; the parts of the run stay inside. The transient array is static and keeps what the
  glyph before put there, so a `get` without a `put` reads that: the run starts from
  arrays with zeros and with something else, and no glyph of it reads before it writes.
- *TrueType.* The top of a glyph without an outline is never set (tt_glyf.c:322 goes on before it,
  `tt_add_glyph` does not clear it), and the vertical metrics of a CIDFont read it (cidtype2.c:314): the
  vertical position written for an empty glyph is an accident. A font without OS/2 has the ascent and
  descent that `tt_read_os2__table` puts there (880 and -120), from which its vertical
  metrics are made. The width of a glyph above 127 of a simple font is looked up by a signed
  character (truetype.c:280); `create_GIDToCIDMap` counts from one in one format. The models
  keep to glyph numbers below, where it does not matter.
- *Font maps.* Appending keeps an entry of a subfont that an earlier line made; removing
  a family removes a line that has the spelled name of a subfont; a line with an error ends
  the reading of its file. On a line of a subfont definition file that holds nothing but an id the program steps past the
  end of the string (subfont.c:403) and reads what an earlier, longer line left in the buffer;
  `Leftover` stands for that, and no file of the run has such a line.

## Plan

Done: the writer, the named objects, the device, the interpreter, the document, the main
loop, import, charstrings, font files, CMaps, font maps and the caches of fonts. What is
left, in order:

1. **Proofs about `PdfImport`**: that a label is given to one object of one file.
2. **MetaPost** (mpost.c, pst_obj.c): the operand stack, path state and the device's
   graphics states together, without the assumption of balanced figures.
3. **tpic paths, `x:scale` and `x:clipoverlay`**, over the device.

The modules to prove about keep to one action per operation, constants with named
assumptions, and no RECURSIVE operator.

## What is not modelled

- The syntax of PDF objects, stream filters, predictors, widths of the fields of the cross
  reference stream: what they do has no order and no state beyond a position.
- Rounding and units: distances are small integers, a kern is only what it does to the
  string. Autorotate off, paths and line parameters belong to MetaPost and PostScript,
  which are not modelled.
- The readers of bitmap image formats, TFM and PK files and virtual font files, which give
  read-only tables; decoding of eexec, checksums of sfnt tables; ciphers and digests.
- The cache of resources (pdfresource.c) and those of colour spaces and patterns, each a
  linear search; document information, viewer preferences, thumbnails.
- `pdf_copy_clip`, encrypted input files, the inversion of CMaps
  (`CMap_ToCode_stream`), reading the glyph list.
- File search, memory, messages, option and configuration parsing: library code.

`components` in `PROJECT.json` says for each part what of it is modelled, and `hazards`
which lines are not covered and why.
