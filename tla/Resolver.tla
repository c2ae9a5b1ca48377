------------------------------ MODULE Resolver ------------------------------
(***************************************************************************)
(* StackResolver (src/src/cxx/StackTrace.h) finds the source locations of  *)
(* the frames of a stack trace.  For each frame it opens the file the      *)
(* frame's code is in and the debugging data beside it, and then searches  *)
(* all the files opened so far.  One map, out, takes the rows of them all  *)
(* and is never emptied; each lookup evaluates the line programs anew.     *)
(*                                                                         *)
(* LineTable does the evaluating and the looking up, MachO finds the       *)
(* sections.                                                               *)
(***************************************************************************)
EXTENDS LineTable, MachO

CONSTANTS
    Image,      \* the program and the shared libraries
    Main,       \* the program
    NoImage,    \* what a frame is in that dladdr() finds nothing for
    Slashed,    \* the images whose names have a '/' in them
    Setups,     \* what there may be: the load commands of each file, the slide
                \* of each image, the trace, of [image |-> i, at |-> address];
                \* a layout goes with each of its slides and traces
    AddressMod  \* addresses count modulo this: 2^64 in the code

ASSUME ImageAssumption ==
    /\ Main \in Image /\ NoImage \notin Image /\ Slashed \subseteq Image
    /\ AddressMod \in Nat \ {0}

\* The line programs are those that LineTable is about.
ASSUME LayoutAssumption ==
    \A s \in Setups : \A n \in DOMAIN s.layout :
        /\ n \in Image \X {"itself", "dSYM"}
        /\ WellFormed(s.layout[n])
        /\ \A k \in DOMAIN s.layout[n] : \A x \in ToSet(SectionsOf(s.layout[n][k])) :
              x.name = "debug_line" => x.contents \in Programs

\* The addresses of frames are those of the machine.
ASSUME TraceAssumption ==
    \A s \in Setups :
        /\ s.slides \subseteq [Image -> Int]
        /\ \A t \in s.traces :
              /\ t \in Seq(ToSet(t))
              /\ \A x \in ToSet(t) :
                    x.image # NoImage => x.image \in Image /\ x.at \in 0 .. AddressMod - 1

VARIABLES
    disk,       \* the files: what is kept at each position, by name
    layout,     \* history: the load commands each was made from
    slide,      \* how far each image is from the addresses it was built for
    trace,      \* the trace that is resolved
    doing,      \* "frame", "binary", "program" or "lookup"
    binaries,   \* the names of the files opened
    bin,        \* the index in it of the file looked in
    located,    \* the locations of the frames so far
    defined     \* history: no address was looked up below every row

resolverVars == <<disk, layout, slide, trace, doing, binaries, bin, located, defined>>

ResolverInit ==
    /\ \E s \in Setups :
          /\ layout = s.layout
          /\ disk = [n \in DOMAIN layout |-> FileBytes(layout[n])]
          /\ slide \in s.slides /\ trace \in s.traces
    /\ doing = "frame" /\ binaries = <<>> /\ bin = 0 /\ located = <<>> /\ defined = TRUE
    /\ prog = <<>> /\ next = 1 /\ reg = Reset /\ out = NoRows /\ status = "done"

-----------------------------------------------------------------------------

Frame == trace[Len(located) + 1]

ImageFile(i) == <<i, "itself">>

\* The file in i's .dSYM.  The last part of the name is looked for from its
\* second character on: without a '/', what is left lacks the first.
DsymFile(i) == IF i \in Slashed THEN <<i, "dSYM">> ELSE <<i, "dSYM less a letter">>

\* Binary::open() wants the magic number.
Opens(name) == name \in DOMAIN disk /\ Peek(disk[name], FileStart) = kMagic

Opened(name) == IF Opens(name) THEN <<name>> ELSE <<>>

Chosen == UNCHANGED <<disk, layout, slide, trace>>

\* dladdr() failed: the frame stays as it is.
Unresolved ==
    /\ doing = "frame" /\ Len(located) < Len(trace) /\ Frame.image = NoImage
    /\ located' = Append(located, Nothing)
    /\ Chosen /\ UNCHANGED <<vars, doing, binaries, bin, defined>>

\* Wrong: what does not open is kept all the same.
FindBinariesAll ==
    /\ doing = "frame" /\ Len(located) < Len(trace) /\ Frame.image # NoImage
    /\ binaries' = binaries \o <<ImageFile(Frame.image), DsymFile(Frame.image)>>
    /\ bin' = 1
    /\ doing' = "binary"
    /\ Chosen /\ UNCHANGED <<vars, located, defined>>

\* What is open already is opened again.
FindBinaries ==
    /\ doing = "frame" /\ Len(located) < Len(trace) /\ Frame.image # NoImage
    /\ binaries' = binaries \o Opened(ImageFile(Frame.image)) \o Opened(DsymFile(Frame.image))
    /\ bin' = 1
    /\ doing' = "binary"
    /\ Chosen /\ UNCHANGED <<vars, located, defined>>

\* The line program to evaluate, or none.  The last section of each name
\* counts.
DebugLine(f) ==
    LET all      == Sections(f)
        Named(n) == {k \in DOMAIN all : Name(f, all[k]) = n}
    IN IF Named("debug_line") # {} /\ Named("debug_line_str") # {}
       THEN <<Contents(f, all[Max(Named("debug_line"))])>> ELSE <<>>

\* Wrong: a file that was evaluated for an earlier frame is not evaluated again.
GetLocationsOnce ==
    /\ doing = "binary" /\ bin <= Len(binaries)
    /\ LET line == DebugLine(disk[binaries[bin]])
           again == \E k \in DOMAIN located : trace[k].image = binaries[bin][1]
       IN IF line # <<>> /\ ~again
          THEN /\ prog' = line[1]
               /\ next' = 1 /\ reg' = Reset /\ status' = "running"
               /\ doing' = "program"
               /\ UNCHANGED out
          ELSE doing' = "lookup" /\ UNCHANGED vars
    /\ Chosen /\ UNCHANGED <<binaries, bin, located, defined>>

\* getLocations() looks for the debugging sections, and evaluates their line
\* program into the map there is.
GetLocations ==
    /\ doing = "binary" /\ bin <= Len(binaries)
    /\ LET line == DebugLine(disk[binaries[bin]])
       IN IF line # <<>>
          THEN /\ prog' = line[1]
               /\ next' = 1 /\ reg' = Reset /\ status' = "running"
               /\ doing' = "program"
               /\ UNCHANGED out
          ELSE doing' = "lookup" /\ UNCHANGED vars
    /\ Chosen /\ UNCHANGED <<binaries, bin, located, defined>>

EvalLineProg == doing = "program" /\ Next /\ UNCHANGED resolverVars

\* It is done, or it threw.
Evaluated ==
    /\ doing = "program" /\ status # "running"
    /\ doing' = "lookup"
    /\ Chosen /\ UNCHANGED <<vars, binaries, bin, located, defined>>

\* The address of the frame's code less the slide of the program, which every
\* binary was opened with.
SlidBack(frame) == (frame.at + slide[frame.image] - slide[Main]) % AddressMod

Locate(loc) ==
    /\ located' = Append(located, loc)
    /\ doing' = "frame"
    /\ UNCHANGED bin

NextBinary == bin' = bin + 1 /\ doing' = "binary" /\ UNCHANGED located

\* Below every row, what is found is undefined.
Lookup ==
    /\ doing = "lookup"
    /\ LET a    == SlidBack(Frame)
           known == out = NoRows \/ Known(a)
           loc   == IF Known(a) THEN FindLocation(a) ELSE Nothing
       IN /\ \/ known /\ (IF loc = Nothing THEN NextBinary ELSE Locate(loc))
             \/ ~known /\ (NextBinary \/ \E b \in DOMAIN out : Locate(out[b]))
          /\ defined' = (defined /\ known)
    /\ Chosen /\ UNCHANGED <<vars, binaries>>

NotFound ==
    /\ doing = "binary" /\ bin > Len(binaries)
    /\ Locate(Nothing)
    /\ Chosen /\ UNCHANGED <<vars, binaries, defined>>

\* All frames are done; it may stop here and nowhere else.
Resolved ==
    /\ doing = "frame" /\ Len(located) = Len(trace)
    /\ UNCHANGED <<vars, resolverVars>>

ResolverNext ==
    \/ Unresolved \/ FindBinaries \/ GetLocations \/ EvalLineProg \/ Evaluated
    \/ Lookup \/ NotFound \/ Resolved

ResolverSpec == ResolverInit /\ [][ResolverNext]_<<vars, resolverVars>>

-----------------------------------------------------------------------------
(* What should be true.                                                    *)

\* The line program among the sections of a file, or none.
ProgramIn(all) ==
    LET Named(s) == {k \in DOMAIN all : all[k].name = s}
    IN IF Named("debug_line") # {} /\ Named("debug_line_str") # {}
       THEN all[Max(Named("debug_line"))].contents ELSE <<>>

ProgramOf(n) == IF n \in DOMAIN disk THEN ProgramIn(AllSections(layout[n])) ELSE <<>>

\* The rows that the debugging data of image i means, which is in one file.
DebugFiles(i) == {n \in {ImageFile(i), <<i, "dSYM">>} : ProgramOf(n) # <<>>}
RowsOf(i) == LET n == CHOOSE n \in DebugFiles(i) : TRUE IN Rows(ProgramOf(n))

Debugged == {i \in Image : DebugFiles(i) # {}}
Found(i) == i \in Slashed \/ DebugFiles(i) = {ImageFile(i)}

\* A line program that is read to its end, and for what it is.
ReadWhole(p) ==
    /\ TailRead(p) /\ Followed(p, Len(p))
    /\ \A k \in DOMAIN p : p[k].op \notin {"unknown", "set_discriminator"}

\* Every line program is read to its end.  No frame, slid back, is in code of
\* another image, or beyond any that begins within the code it is in: images
\* do not overlap.
WellPlaced ==
    /\ \A i \in Debugged :
          /\ \A n, m \in DebugFiles(i) : n = m
          /\ \A n \in DebugFiles(i) : ReadWhole(ProgramOf(n))
          /\ Ascending(RowsOf(i))
    /\ \A k \in DOMAIN trace : trace[k].image # NoImage =>
          LET a == SlidBack(trace[k]) IN
          \A i \in Debugged : \A m \in Covering(RowsOf(i), a) :
             /\ i = trace[k].image /\ slide[i] = slide[Main]
             /\ \A j \in Debugged \ {i} : \A n \in DOMAIN RowsOf(j) :
                   ~(RowsOf(i)[m].row.addr < RowsOf(j)[n].row.addr /\ RowsOf(j)[n].row.addr <= a)

ResolverTypeOK ==
    /\ doing \in {"frame", "binary", "program", "lookup"}
    /\ \A k \in DOMAIN binaries : binaries[k] \in DOMAIN disk
    /\ bin \in 0 .. Len(binaries) + 1 /\ Len(located) <= Len(trace)
    /\ \A a \in DOMAIN out : out[a].addr = a

\* The sections of every file are found, in order, with their contents,
\* whatever segments and commands they come between (MachO64.h:70-97).
SectionsFound ==
    doing = "frame" /\ located = <<>> =>
        \A n \in DOMAIN disk :
            LET f   == disk[n]
                all == Sections(f)
            IN AllSections(layout[n]) =
                   [k \in DOMAIN all |-> [name |-> Name(f, all[k]), contents |-> Contents(f, all[k])]]

\* Whatever was looked up before, and whatever rows of other files the map has
\* gathered, a frame in an image that is slid as the program is gets the row
\* of that image its code belongs to; every other frame gets none.  That is so
\* if no address is looked up below every row there is (StackTrace.h:77-94).
LocatesOwn ==
    doing = "frame" /\ defined /\ WellPlaced =>
        \A k \in DOMAIN located :
            LET i == trace[k].image IN
            located[k] =
                IF i \in Debugged /\ Found(i) /\ slide[i] = slide[Main]
                THEN Located(RowsOf(i), trace[k].at) ELSE Nothing

=============================================================================
