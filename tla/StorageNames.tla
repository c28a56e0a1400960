----------------------------- MODULE StorageNames -----------------------------
(***************************************************************************)
(* The names of a picture on its way from the configuration to the store:  *)
(* the volumes of storage.conf, a directory as a text of G_Volumns_Mq, the *)
(* global id of a file, the path that the consumer derives from it and the *)
(* box message it packs that into (box/StorageConfig.cc, box/StorageConfig *)
(* .h, box/box_object.cc, common/tools.cc, and their uses in jobschedule). *)
(*                                                                         *)
(* The configuration is whatever IniReader has read.  A text is a sequence *)
(* of words and separators; no word holds a separator.                     *)
(***************************************************************************)
EXTENDS IniReader, TLC

CONSTANTS Hex,          \* the names of the 256 directories of each level
          Files         \* the files of a directory, [name, ext]

TAB  == "tab"
RECORD_SEPERATOR == "01"
FIELD_SEPERATOR  == "02"
MSG_SEPERATOR    == "03"

PIC_EXT_LIST == <<"jpg", "jpeg", "bmp", "png", "gif">>

-----------------------------------------------------------------------------
(* The texts between the separators, empty ones included. *)
Pieces(text, sep) ==
    LET upto[i \in 0..Len(text)] ==
          IF i = 0 THEN << <<>> >>
          ELSE LET ps == upto[i - 1]
               IN  IF text[i] = sep THEN Append(ps, <<>>)
                   ELSE [ps EXCEPT ![Len(ps)] = Append(@, text[i])]
    IN  upto[Len(text)]

\* Mutant: empty fields are kept.
split_all(text, sep) == Pieces(text, sep)

(* tools.cc: the pieces that are not empty. *)
split(text, sep) == SelectSeq(Pieces(text, sep), LAMBDA p : p # <<>>)

(* std::getline until it fails: no piece for what follows the last          *)
(* separator when that is nothing.                                          *)
getlines(text, sep) == LET ps == Pieces(text, sep)
                       IN  IF Last(ps) = <<>> THEN Front(ps) ELSE ps

implode(delim, strings) ==
    FlattenSeq([i \in DOMAIN strings |->
                  IF i = Len(strings) THEN strings[i] ELSE Append(strings[i], delim)])

-----------------------------------------------------------------------------
(* The configured volumes: store_path0, store_path1, ... up to the first    *)
(* that is missing or empty.                                                *)
StorePath(n) == Get("", "store_path" \o ToString(n), <<>>)

GetVolumnsCount == CHOOSE n \in 0..Len(lines) :
                      StorePath(n) = <<>> /\ \A m \in 0..(n - 1) : StorePath(m) # <<>>

VolumnId(n) == (IF n <= 9 THEN "M0" ELSE "M") \o ToString(n)

GetVolumnsDict ==
    [v \in {VolumnId(n) : n \in 0..(GetVolumnsCount - 1)} |->
       StorePath(CHOOSE n \in 0..(GetVolumnsCount - 1) : VolumnId(n) = v)
         \o <<"/", "data">>]

GET_GROUP_ID == Get("", "group_name", <<>>)

(* The directories of a volume. *)
getStoreFolderByOrder(volumnsid) ==
    {[isvalid |-> TRUE, grpid |-> GET_GROUP_ID, volumnid |-> <<volumnsid>>,
      volumnstr |-> GetVolumnsDict[volumnsid], subdir |-> <<d1, "/", d2>>] :
        d1 \in Hex, d2 \in Hex}

(* What ReadyProducer puts into the queue, and what a producer makes of it. *)
to_string(obj) == implode(TAB, <<obj.grpid, obj.volumnid, obj.volumnstr, obj.subdir>>)

StringToStorageVolumnObject(msgstr) ==
    LET vec1 == split(msgstr, TAB)
    IN  IF Len(vec1) = 4
        THEN [isvalid |-> TRUE, grpid |-> vec1[1], volumnid |-> vec1[2],
              volumnstr |-> vec1[3], subdir |-> vec1[4]]
        ELSE [isvalid |-> FALSE, grpid |-> <<>>, volumnid |-> <<>>,
              volumnstr |-> <<>>, subdir |-> <<>>]

(* The pictures of a directory, by the list of the extensions. *)
GetfileListOfStoragepath ==
    FlattenSeq([e \in DOMAIN PIC_EXT_LIST |->
                  SetToSeq({<<f.name, ".", f.ext>> :
                              f \in {f \in Files : f.ext = PIC_EXT_LIST[e]}})])

GlobalId(obj, filename) == implode("/", <<obj.grpid, obj.volumnid, obj.subdir, filename>>)

GetGlobalIdByFilelist(filelist, obj) ==
    [i \in DOMAIN filelist |-> GlobalId(obj, filelist[i])]

(* The id as it goes to the tracker, which sends it back with volumnstr:    *)
(* both are shorter than the 128 bytes that RESPONSE_HEADER has for each.   *)
Registered(id) == SelectSeq(id, LAMBDA w : w # NewLine)

(* StorageFileObject of the response: ids of five parts only. *)
ResponseObject2StorageFileObject(fileid, volumns) ==
    LET vec1 == split(fileid, "/")
    IN  IF Len(vec1) # 5 THEN [global_fileid |-> <<>>, physical_store_path |-> <<>>]
        ELSE [global_fileid |-> fileid,
              physical_store_path |->
                IF volumns = <<>> THEN <<>>
                ELSE implode("/", <<volumns, vec1[3], vec1[4], vec1[5]>>)]

(* The front of the id, as long as "group/volume", is replaced. *)
physical_path(fileid, grpid, volumnid, volumnstr) ==
    volumnstr \o SubSeq(fileid, Len(grpid) + 1 + Len(volumnid) + 1, Len(fileid))

(* The path of an id in the consumer; none for an id of less than 4 parts. *)
Strfileid2StorageFileObject(fileid) ==
    LET vec1 == split(fileid, "/")
        volumnstr == IF vec1[2] \in {<<v>> : v \in DOMAIN GetVolumnsDict}
                     THEN GetVolumnsDict[vec1[2][1]] ELSE <<>>
    IN  IF Len(vec1) < 4 THEN <<>>
        ELSE physical_path(fileid, vec1[1], vec1[2], volumnstr)

-----------------------------------------------------------------------------
(* The message _ConsumerMsg makes for a file. *)
BoxMessage(fileid, path) ==
    implode(RECORD_SEPERATOR,
            << <<"overwrite_flag", TAB, "1">>, <<"c1", TAB, "v1">>, <<"d2", TAB, "v2">>,
               <<"fileid", TAB>> \o fileid, <<"filehandle", TAB>> \o path,
               <<"file_meta", TAB>> \o path \o <<"-m", "-m">> >>)
    \o <<FIELD_SEPERATOR, MSG_SEPERATOR>>

(* The records with one key and one value. *)
splitMetalist(text) ==
    LET kvs == [i \in DOMAIN getlines(text, RECORD_SEPERATOR) |->
                  getlines(getlines(text, RECORD_SEPERATOR)[i], TAB)]
    IN  SelectSeq(kvs, LAMBDA kv : Len(kv) = 2)

(* Headers, and as the body the file the last filehandle names, or the data *)
(* behind the last field separator.                                         *)
_splitMsg(text) ==
    LET headers == splitMetalist(Head(Pieces(text, FIELD_SEPERATOR)))
        handles == SelectSeq(headers, LAMBDA kv : kv[1] = <<"filehandle">>)
    IN  [headers |-> headers, isFilehandle |-> handles # <<>>,
         body |-> IF handles # <<>> THEN Last(handles)[2]
                  ELSE Last(Pieces(text, FIELD_SEPERATOR))]

(* The messages of a text: its first one, for the search for the second    *)
(* starts at the separator.                                                *)
SplitMsg(text) == LET first == Head(Pieces(text, MSG_SEPERATOR))
                  IN  IF first = <<>> THEN <<>> ELSE <<_splitMsg(first)>>

(* The first value of a key. *)
MappingHeaders(headers, key) ==
    LET of == SelectSeq(headers, LAMBDA kv : kv[1] = <<key>>)
    IN  IF of = <<>> THEN <<>> ELSE Head(of)[2]

-----------------------------------------------------------------------------
(* Under every configuration with a group, whose name has no slash, each    *)
(* picture of each directory of each volume is found again: the text in the *)
(* queue gives the directory back, and the id that the tracker has          *)
(* registered leads the consumer to the path the producer listed it under,  *)
(* in the box message too; the path the producer computes from the response *)
(* is the same.  Without a group no directory is taken from the queue.      *)
PathRestored ==
    \A v \in DOMAIN GetVolumnsDict : \A obj \in getStoreFolderByOrder(v) :
       LET dir == StringToStorageVolumnObject(to_string(obj))
           filelist == GetfileListOfStoragepath
       IN  IF GET_GROUP_ID = <<>> THEN ~dir.isvalid
           ELSE /\ dir = obj
                /\ ~Contains(GET_GROUP_ID, "/") => \A i \in DOMAIN filelist :
                     LET id   == Registered(GetGlobalIdByFilelist(filelist, dir)[i])
                         path == implode("/", <<obj.volumnstr, obj.subdir, filelist[i]>>)
                         rsp  == ResponseObject2StorageFileObject(id, dir.volumnstr)
                         msg  == SplitMsg(BoxMessage(id, Strfileid2StorageFileObject(id)))
                     IN  /\ rsp = [global_fileid |-> id, physical_store_path |-> path]
                         /\ Len(msg) = 1 /\ msg[1].isFilehandle /\ msg[1].body = path
                         /\ MappingHeaders(msg[1].headers, "fileid") = id
=============================================================================
