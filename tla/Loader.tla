------------------------------- MODULE Loader -------------------------------
(***************************************************************************)
(* beam_load.c and beam_code_server.c: BEAM files are parsed in one pass   *)
(* over their chunks and handed to the code server, which owns what it     *)
(* registers.  A file that is not registered is the host's to destroy.     *)
(*                                                                         *)
(* An image is a file as it lies in the host's buffer: whether its header  *)
(* is right, and its chunks.  A chunk has an id, the names the parser      *)
(* reads if it is an atom table, and whether it ends inside the buffer.    *)
(* Count and names are read without regard to the chunk's length: of these *)
(* reads (the count, then length and bytes of each name) the first `held'  *)
(* are inside the buffer, and a name beyond is whatever lies there.        *)
(***************************************************************************)
EXTENDS Memory, Sequences

CONSTANTS
    AtomNames,      \* what an atom may be called
    Stored,         \* a name as 63 characters of it are kept
    Images,         \* the files there are to load
    MaxFiles,       \* bound: files in memory at a time
    MaxParses,      \* bound: calls of the parser
    MAX_ATOMS,      \* 100000 in beam_file_parse
    MAX_LOADED_MODULES

Chunks == [id : STRING, at : Nat, names : Seq(AtomNames), inside : BOOLEAN,
           held : Nat]

Unnamed == ""                   \* a module_name nobody has written
NULL == "NULL"                  \* a name that could not be had

ASSUME LoaderAssumption ==
    /\ {MaxFiles, MaxParses, MAX_ATOMS, MAX_LOADED_MODULES} \subseteq Nat \ {0}
    /\ Images \subseteq [magic : BOOLEAN, chunks : Seq(Chunks)]
    /\ Unnamed \in AtomNames /\ NULL \notin AtomNames
    /\ Stored \in [AtomNames -> AtomNames]

VARIABLES
    files,          \* what was parsed, by file number, or NoFile
    hand,           \* the files the host holds
    boxed,          \* those it holds through a beam_module_t
    modules,        \* the code server's entries
    parses,
    odd             \* what was wrong with the atom tables of parsed images

loaderVars == <<files, hand, boxed, modules, parses, odd>>

File == 1 .. MaxFiles

NoFile == [module_name |-> "none"]

Section == {"Code", "LitT", "ExpT", "ImpT", "StrT"}

NewFile == [module_name |-> Unnamed, atom_count |-> 0, has_table |-> FALSE,
            atom_table |-> <<>>, section |-> [s \in Section |-> 0]]

IsAtomChunk(chunk) == chunk.id \in {"Atom", "AtU8"}

\* `ok' tells which allocations succeed: 0 is the table, i the name i.
ReadAtoms(file, names, ok) ==
    LET table == IF 0 \in ok
                 THEN [i \in DOMAIN names |-> IF i \in ok THEN names[i] ELSE NULL]
                 ELSE <<>>
    IN  [file EXCEPT !.atom_count = Len(names),
                     !.has_table = 0 \in ok,
                     !.atom_table = table,
                     !.module_name = IF table # <<>> /\ 1 \in ok
                                     THEN Stored[names[1]] ELSE @]

\* Reading the table leaves the buffer: with the count, with the length of a
\* name, or with its bytes if there is memory to copy them to.
ReadsPast(chunk, ok) ==
    \/ chunk.held < 1
    \/ /\ Len(chunk.names) <= MAX_ATOMS /\ 0 \in ok
       /\ \E i \in DOMAIN chunk.names :
             chunk.held < (IF i \in ok THEN 2 * i + 1 ELSE 2 * i)

\* The blocks file f owns: what beam_file_destroy returns.
FileBlocks(f, file) ==
    One("file", f)
        (+) Several("atom_table", f, IF file.has_table THEN 1 ELSE 0)
        (+) Several("name", f, Len(SelectSeq(file.atom_table, LAMBDA n : n # NULL)))

\* One turn of the parser's loop.  An atom table replaces the one before it.
ParseChunk(f, ok, s, chunk) ==
    CASE s.ended -> s
      [] ~s.ended /\ ~chunk.inside -> [s EXCEPT !.ended = TRUE]
      [] ~s.ended /\ chunk.inside /\ IsAtomChunk(chunk) ->
            LET past == s.undefined \/ ReadsPast(chunk, ok)
            IN  IF Len(chunk.names) > MAX_ATOMS
                THEN [s EXCEPT !.ended = TRUE, !.refused = TRUE, !.undefined = past]
                ELSE LET read == ReadAtoms(s.file, chunk.names, ok)
                     IN  [s EXCEPT !.file = read, !.undefined = past,
                                   !.got = @ (+) (FileBlocks(f, read) (-) One("file", f))]
      [] OTHER ->
            IF chunk.id \in Section
            THEN [s EXCEPT !.file.section[chunk.id] = chunk.at] ELSE s

\* The allocations that reading an image may ask for, of chunk c its i-th.
Requests(image) ==
    LET read == {c \in DOMAIN image.chunks : /\ IsAtomChunk(image.chunks[c])
                                            /\ Len(image.chunks[c].names) <= MAX_ATOMS}
    IN  UNION {{c} \X (0 .. Len(image.chunks[c].names)) : c \in read}

\* Those of chunk c among the ones that succeed.
Granted(ok, c) == {i \in 0 .. MAX_ATOMS : <<c, i>> \in ok}

beam_file_parse(f, image, ok) ==
    LET after[i \in 0 .. Len(image.chunks)] ==
            IF i = 0 THEN [file |-> NewFile, got |-> One("file", f),
                           ended |-> FALSE, refused |-> FALSE, undefined |-> FALSE]
            ELSE ParseChunk(f, Granted(ok, i), after[i - 1], image.chunks[i])
    IN  after[Len(image.chunks)]

LoaderInit ==
    /\ files = [f \in File |-> NoFile]
    /\ hand = {}
    /\ boxed = {}
    /\ modules = <<>>
    /\ parses = 0
    /\ odd = {}

\* "lost": too many names, or two tables, of which one is lost; "past": a
\* table that is not in the buffer to its end.
Odd(image) ==
    LET tables == SelectSeq(image.chunks, IsAtomChunk)
        lost == Len(tables) > 1 \/ \E i \in DOMAIN tables : Len(tables[i].names) > MAX_ATOMS
        past == \E i \in DOMAIN tables : tables[i].held < 2 * Len(tables[i].names) + 1
    IN  (IF lost THEN {"lost"} ELSE {}) \cup (IF past THEN {"past"} ELSE {})

\* The parser, called by itself or by beam_module_load_from_memory, which
\* wraps the file.  The file itself, or the wrapper, may not be had (`none');
\* a refused table returns NULL and returns no block but the wrapper.
LoadFile(image, ok, wrapped, none) ==
    /\ parses < MaxParses
    /\ parses' = parses + 1
    /\ \E f \in File :
        /\ files[f] = NoFile /\ \A g \in File : files[g] = NoFile => f <= g
        /\ LET s == beam_file_parse(f, image, ok)
               wrapper == Several("module", f, IF wrapped THEN 1 ELSE 0)
           IN  IF none \/ ~image.magic
               THEN UNCHANGED <<files, hand, boxed, odd, mem>>
               ELSE IF s.refused
               THEN /\ mem' = Touch(sys_free(sys_alloc(mem, s.got (+) wrapper), wrapper),
                                    s.undefined)
                    /\ odd' = odd \cup Odd(image)
                    /\ UNCHANGED <<files, hand, boxed>>
               ELSE /\ mem' = Touch(sys_alloc(mem, s.got (+) wrapper), s.undefined)
                    /\ files' = [files EXCEPT ![f] = s.file]
                    /\ hand' = hand \cup {f}
                    /\ boxed' = IF wrapped THEN boxed \cup {f} ELSE boxed
                    /\ odd' = odd \cup Odd(image)
    /\ UNCHANGED modules

\* The host destroys what it holds, the wrapper with its file.
DestroyFile(f) ==
    /\ f \in hand
    /\ mem' = sys_free(mem, FileBlocks(f, files[f]) (+)
                            Several("module", f, IF f \in boxed THEN 1 ELSE 0))
    /\ files' = [files EXCEPT ![f] = NoFile]
    /\ hand' = hand \ {f}
    /\ boxed' = boxed \ {f}
    /\ UNCHANGED <<modules, parses, odd>>

beam_code_server_lookup_module(name) ==
    LET at == {i \in DOMAIN modules : modules[i].name = name}
    IN  IF at = {} THEN 0
        ELSE modules[CHOOSE i \in at : \A j \in at : i <= j].file

\* Mutant of the next definition: registered without looking for the name.
RegisterUnlooked(mod_name, f) ==
    /\ f \in hand \ boxed
    /\ Len(modules) < MAX_LOADED_MODULES
    /\ modules' = Append(modules, [name |-> Stored[mod_name], file |-> f])
    /\ hand' = hand \ {f}
    /\ UNCHANGED <<files, boxed, parses, odd, mem>>

\* The limit is tested before the name.  A known name is BEAM_OK too, and the
\* new file stays out: the host that looks the name up finds another file and
\* still holds its own.
beam_code_server_register_module(mod_name, f) ==
    LET full == Len(modules) >= MAX_LOADED_MODULES
        known == beam_code_server_lookup_module(mod_name) # 0
    IN  /\ f \in hand \ boxed
        /\ IF full \/ known
           THEN UNCHANGED <<hand, modules>>
           ELSE /\ modules' = Append(modules, [name |-> Stored[mod_name], file |-> f])
                /\ hand' = hand \ {f}
        /\ UNCHANGED <<files, boxed, parses, odd, mem>>

\* What beam_code_server_destroy returns besides the server itself.
ModuleBlocks ==
    BagUnion({FileBlocks(modules[i].file, files[modules[i].file]) :
                  i \in DOMAIN modules})

-----------------------------------------------------------------------------
FileRecord ==
    [module_name : AtomNames, atom_count : 0 .. MAX_ATOMS, has_table : BOOLEAN,
     atom_table : Seq(AtomNames \cup {NULL}), section : [Section -> Nat]]

\* beam_file_get_atom and beam_file_destroy go through atom_count names of the
\* table, if there is one: it has as many.
ParsedFile ==
    {file \in FileRecord :
        Len(file.atom_table) = IF file.has_table THEN file.atom_count ELSE 0}

LoaderTypeOK ==
    /\ hand \subseteq File /\ boxed \subseteq hand
    /\ files \in [File -> ParsedFile \cup {NoFile}]
    /\ modules \in Seq([name : AtomNames, file : File])
    /\ Len(modules) <= MAX_LOADED_MODULES
    /\ parses \in 0 .. MaxParses /\ odd \subseteq {"lost", "past"}

\* Every file in memory is in one pair of hands, the host's or the code
\* server's under one name, and a registered module is found under its name
\* for as long as the server lives: whatever is loaded later with that name
\* does not replace it (beam_code_server_register_module).
ModulesHaveOneOwner ==
    LET owners(f) == {i \in DOMAIN modules : modules[i].file = f}
    IN  /\ \A f \in File :
             /\ files[f] # NoFile
                    => Cardinality(owners(f)) + (IF f \in hand THEN 1 ELSE 0) = 1
             /\ files[f] = NoFile => owners(f) = {} /\ f \notin hand
        /\ \A i \in DOMAIN modules :
             beam_code_server_lookup_module(modules[i].name) = modules[i].file
=============================================================================
