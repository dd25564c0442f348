----------------------------- MODULE PppoeTags -----------------------------
(***************************************************************************)
(* How the node reads the tags of a PADI and writes those of its PADO:     *)
(* get_tag, scan_tags, init_tags, insert_tag and make_packet of            *)
(* ng_pppoe_after.c, called as at lines 1225-1251.  The two loops take a    *)
(* step per tag.  Nothing the peer says of lengths is trusted: ph.length    *)
(* and every tag_len are arbitrary.  Nothing on this path compares         *)
(* ph.length with the bytes that came, so the loops run over the memory    *)
(* from tag[0] on, as far as ph.length reaches, past the frame too; the    *)
(* comment at 293-296 assumes the comparison was made before.              *)
(***************************************************************************)
EXTENDS Integers, Sequences

CONSTANTS
    Types,      \* tag types that may arrive
    MaxTags,    \* bound on the tags of the frame
    Lens,       \* values of tag_len that may arrive
    Came,       \* numbers of bytes that may arrive
    Header,     \* sizeof(struct pppoe_tag)
    NUMTAGS,    \* tags a session can put in a packet
    Room,       \* ETHER_MAX_LEN - 4 - sizeof(*wh)
    AcName, Service   \* lengths of the names the daemon gave; Service 0: none

ASSUME TagsAssumption ==
    /\ MaxTags \in Nat /\ Lens \subseteq Nat /\ Came \subseteq Nat
    /\ Header \in Nat /\ NUMTAGS \in Nat /\ Room \in Nat
    /\ AcName \in Nat /\ Service \in Nat

Tag == [type : Types \cup {"AC_NAME", "SRV_NAME", "HOST_UNIQ", "AC_COOKIE"}, len : Nat]

VARIABLES
    ph,      \* the tags in memory from ph->tag[0] on, as their lengths separate them
    got,     \* how many bytes from there on the frame brought; nothing reads it
    end,     \* ph.length: where the loops take the tags to end
    tagPc,   \* "wait", "tags", "scan", "make" or "done"
    i,       \* tags passed by the loop in work
    pos,     \* bytes passed
    tags,    \* neg->tags up to numtags
    length   \* bytes make_packet has copied

tagsVars == <<ph, got, end, tagPc, i, pos, tags, length>>

Size(t) == Header + t.len

(* The bytes of the first n of them, and of all                            *)
Upto(ts, n) ==
    LET sum[k \in 0..n] == IF k = 0 THEN 0 ELSE sum[k - 1] + Size(ts[k])
    IN  sum[n]
Sum(ts) == Upto(ts, Len(ts))

Cookie == [type |-> "AC_COOKIE", len |-> 4]

(* The tags a loop over the frame gets to: it stops at the first whose     *)
(* header or data would be past the end.                                   *)
Seen == {n \in 1..Len(ph) : Upto(ph, n) <= end}

(* get_tag: the first tag of a type, if any                                *)
get_tag(type) ==
    LET hits == {n \in Seen : ph[n].type = type}
    IN  {ph[n] : n \in {m \in hits : \A k \in hits : m <= k}}

insert_tag(ts, t) == IF Len(ts) < NUMTAGS THEN Append(ts, t) ELSE ts

(* Of the tag of a type, if there is one.                                  *)
InsertAny(ts, set) == IF set = {} THEN ts ELSE insert_tag(ts, CHOOSE t \in set : TRUE)

TagsInit ==
    /\ ph = <<>> /\ got = 0 /\ end = 0
    /\ tagPc = "wait" /\ i = 0 /\ pos = 0 /\ tags = <<>> /\ length = 0

(* Any frame the peer may send: what came and what its length says are two *)
(* things, each less or more than the other.                               *)
FrameArrives ==
    /\ tagPc = "wait" /\ tagPc' = "tags"
    /\ ph' \in UNION {[1..n -> [type : Types, len : Lens]] : n \in 0..MaxTags}
    /\ got' \in Came /\ end' \in 0..Sum(ph')
    /\ UNCHANGED <<i, pos, tags, length>>

(* 1225-1249: AC-Name, the service asked for, the extra service of a       *)
(* request for any, the client's Host-Uniq, the cookie                     *)
Reply ==
    LET asked == get_tag("SRV_NAME")
        extra == IF (\A t \in asked : t.len = 0) /\ Service # 0
                 THEN {[type |-> "SRV_NAME", len |-> Service]} ELSE {}
        name == insert_tag(<<>>, [type |-> "AC_NAME", len |-> AcName])
        services == InsertAny(InsertAny(name, asked), extra)
    IN  insert_tag(InsertAny(services, get_tag("HOST_UNIQ")), Cookie)

FillTags ==
    /\ tagPc = "tags" /\ tagPc' = "scan"
    /\ tags' = Reply
    /\ UNCHANGED <<ph, got, end, i, pos, length>>

(* Mutant: the list is not ended by an End-Of-List tag.                    *)
ScanGoes_PastEol == i < Len(ph) /\ pos + Size(ph[i + 1]) <= end

(* The next tag is all there and does not end the list.                    *)
ScanGoes ==
    i < Len(ph) /\ pos + Size(ph[i + 1]) <= end /\ ph[i + 1].type # "EOL"

(* Mutant: the pointer moves on only past tags that are inserted.          *)
scan_tags_Stuck ==
    /\ tagPc = "scan" /\ ScanGoes
    /\ ph[i + 1].type = "RELAY_SID" /\ tags' = insert_tag(tags, ph[i + 1])
    /\ i' = i + 1 /\ pos' = pos + Size(ph[i + 1])
    /\ UNCHANGED <<ph, got, end, tagPc, length>>

(* scan_tags: only a relay's session id is passed on.                      *)
scan_tags ==
    /\ tagPc = "scan" /\ ScanGoes
    /\ tags' = IF ph[i + 1].type = "RELAY_SID" THEN insert_tag(tags, ph[i + 1]) ELSE tags
    /\ i' = i + 1 /\ pos' = pos + Size(ph[i + 1])
    /\ UNCHANGED <<ph, got, end, tagPc, length>>

ScanDone ==
    /\ tagPc = "scan" /\ ~ScanGoes
    /\ tagPc' = "make" /\ i' = 0 /\ pos' = 0
    /\ UNCHANGED <<ph, got, end, tags, length>>

MakeGoes == i < Len(tags) /\ length + Size(tags[i + 1]) <= Room

make_packet ==
    /\ tagPc = "make" /\ MakeGoes
    /\ length' = length + Size(tags[i + 1]) /\ i' = i + 1
    /\ UNCHANGED <<ph, got, end, tagPc, pos, tags>>

(* "XXX chop off what's too long": the first tag too long and all after it *)
MakeDone ==
    /\ tagPc = "make" /\ ~MakeGoes
    /\ tagPc' = "done" /\ tags' = SubSeq(tags, 1, i)
    /\ UNCHANGED <<ph, got, end, i, pos, length>>

TagsWork == FillTags \/ scan_tags \/ ScanDone \/ make_packet \/ MakeDone

TagsNext == FrameArrives \/ TagsWork

TagsSpec == TagsInit /\ [][TagsNext]_tagsVars /\ WF_tagsVars(TagsWork)

----------------------------------------------------------------------------
(* Every variable holds a value of its kind, and no tag is inserted past   *)
(* the end of the session's array.                                         *)
TagsTypeOK ==
    /\ end \in Nat /\ got \in Nat /\ tagPc \in {"wait", "tags", "scan", "make", "done"}
    /\ i \in 0..(MaxTags + NUMTAGS) /\ pos \in 0..end
    /\ tags \in Seq(Tag) /\ Len(tags) <= NUMTAGS

(* The packet fits an Ethernet frame, and its length is that of the tags   *)
(* in it: nothing is sent half.                                            *)
WholeTags == tagPc = "done" => length = Sum(tags) /\ length <= Room

(* Whatever a tag says of its own length, the tags of the peer in the      *)
(* reply lie whole inside the length the frame gives;                      *)
InsideLength ==
    \A n \in DOMAIN tags : tags[n].type \in {"HOST_UNIQ", "RELAY_SID"} =>
        \E m \in Seen : ph[m] = tags[n]

(* so they are tags that came, unless that length says more than came.     *)
OnlyWhatCame ==
    end <= got =>
        \A n \in DOMAIN tags : tags[n].type \in {"HOST_UNIQ", "RELAY_SID"} =>
            \E m \in DOMAIN ph : ph[m] = tags[n] /\ Upto(ph, m) <= got

(* The places of the relays' session ids in a list of tags                 *)
Relays(ts) == {n \in DOMAIN ts : ts[n].type = "RELAY_SID"}

(* A relay's tags go on in order and without a gap, from the part of the   *)
(* frame before its End-Of-List tag: from says where each was.             *)
InOrder(from) ==
    /\ \A n \in Relays(tags) : ph[from[n]] = tags[n]
    /\ \A m, n \in Relays(tags) : m < n => from[m] < from[n]
    /\ \A n \in Relays(tags) : \A k \in 1..from[n] :
          /\ ph[k].type # "EOL"
          /\ k \in Relays(ph) => \E m \in Relays(tags) : from[m] = k

RelaysInOrder ==
    tagPc = "done" => \E from \in [Relays(tags) -> Relays(ph)] : InOrder(from)

(* The client can find itself and the session in the offer whenever the    *)
(* names and its Host-Uniq leave room for the cookie: relays, however many, *)
(* never push it out.                                                      *)
CookieKept ==
    tagPc = "done" /\ Len(Reply) < NUMTAGS /\ Sum(Reply) <= Room =>
        Len(Reply) <= Len(tags) /\ \A n \in DOMAIN Reply : tags[n] = Reply[n]

(* A reply is a packet of whole tags from inside the frame's length and of *)
(* what the session has, its relay tags in order and the cookie never      *)
(* pushed out.                                                             *)
TagsRight ==
    TagsTypeOK /\ WholeTags /\ InsideLength /\ OnlyWhatCame /\ RelaysInOrder /\ CookieKept

(* Reading the frame and writing the packet end.                           *)
TagsEnd == tagPc = "tags" ~> tagPc = "done"

----------------------------------------------------------------------------
(* The inductive invariant adds what each place in the loops knows: how    *)
(* far it is, that the reply comes first, and that the relays' tags so far *)
(* are all there unless the session's array is full.                       *)
ReplyFirst == Len(Reply) <= Len(tags) /\ \A n \in DOMAIN Reply : tags[n] = Reply[n]

Scanned ==
    \E from \in [Relays(tags) -> Relays(ph)] :
        /\ InOrder(from)
        /\ \A n \in Relays(tags) : from[n] <= i
        /\ \A k \in 1..i : ph[k].type # "EOL"
        /\ Len(tags) < NUMTAGS =>
              \A k \in Relays(ph) : k <= i => \E m \in Relays(tags) : from[m] = k

TagsInv ==
    /\ TagsTypeOK
    /\ ph \in Seq([type : Types, len : Lens]) /\ Len(ph) <= MaxTags
    /\ tagPc \in {"wait", "tags"} => i = 0 /\ pos = 0 /\ tags = <<>> /\ length = 0
    /\ tagPc = "scan" => i <= Len(ph) /\ pos = Upto(ph, i) /\ length = 0 /\ Scanned
    /\ tagPc \in {"make", "done"} => i <= Len(tags) /\ length = Upto(tags, i) /\ length <= Room
    /\ tagPc \in {"make", "done"} => \E from \in [Relays(tags) -> Relays(ph)] : InOrder(from)
    /\ tagPc \in {"scan", "make"} => ReplyFirst
    /\ tagPc = "done" => i = Len(tags)
    /\ InsideLength /\ CookieKept
=============================================================================
