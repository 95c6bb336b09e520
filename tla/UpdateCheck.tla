------------------------------ MODULE UpdateCheck ------------------------------
(* checkForUpdate() and the manifest parser: a small JSON document that names  *)
(* the newest firmware is fetched by one bounded ranged GET, the callback      *)
(* keeps what fits a fixed buffer, and the parser reads version, device_type   *)
(* and url out of whatever arrived.                                            *)
(*                                                                             *)
(* The body is a sequence of tokens.  A key token stands for a word in quotes  *)
(* and the colon and blanks behind it, if there are any: find_value() does not *)
(* ask whether the word is a key or a value.  A number is its digits, most     *)
(* significant first (a 0x-prefixed one is the digits with a leading 0, which  *)
(* is also what parse_uint makes of a bare "0x"); a string that is read is its *)
(* characters between two quote tokens.  A transfer may be dropped at any      *)
(* token and still be reported as a success: that is the case                  *)
(* ilabs_fota_download() calls transport_dropped, and checkForUpdate() has no  *)
(* length to compare with.                                                     *)
EXTENDS Integers, SequencesExt

CONSTANTS
  Documents,     \* what the server may publish: [order, version, device_type, url,
                 \* version_str, extra]
  Base,          \* numeral base of the numbers
  WordSize,      \* 2^32 in the code: parse_uint wraps there
  BufSize,       \* sizeof ManifestFetchCtx.buf
  UrlMax,        \* ILABS_FOTA_URL_MAX
  ChunkSizes,    \* how many tokens the transport may hand over at a time
  Versions,      \* firmware versions that may be running
  DeviceTypes    \* what setDeviceType() may be given

ASSUME SizesAssumption ==
  /\ Base \in Nat \ {0, 1}
  /\ WordSize \in Nat \ {0}
  /\ BufSize \in Nat \ {0}
  /\ UrlMax \in Nat \ {0, 1}
  /\ ChunkSizes \subseteq Nat /\ Versions \subseteq Nat

VARIABLES
  phase,         \* "idle", or "fetching" while s_range_fn runs
  config,        \* [transport, manifest_url, device_type]: the registered statics
  current,       \* current_fw_version, as passed by the caller
  served,        \* the document the server answered the last request with
  sent,          \* tokens of it handed to the callback so far
  buf,           \* ManifestFetchCtx.buf[0 .. len), gone when the call returns
  out            \* iLabsUpdateCheck

vars == <<phase, config, current, served, sent, buf, out>>

-------------------------------------------------------------------------------
(* The document on the wire.                                                   *)

Keys == {"version", "device_type", "url", "version_str"}
Numbers == {"version", "device_type"}

\* What a manifest must have; version_str is for people.
Required == {"version", "device_type", "url"}

\* One more field, which the parser does not know.
Fields == Keys \cup {"extra"}

\* The fields in any order, any of them missing or there twice.  A value is its
\* digits or characters; that of the unknown field is a word, which may be one
\* of the required keys ("" is any other word).
ASSUME DocumentsAssumption ==
  /\ Documents # {}
  /\ \A doc \in Documents : /\ doc.order \in Seq(Fields)
                            /\ \A f \in Keys : doc[f] \in Seq(Nat)
                            /\ doc.extra \in Required \cup {""}

Token(kind, name, n) == [kind |-> kind, name |-> name, n |-> n]
Key(f) == Token("key", f, 0)
Quote == Token("quote", "", 0)
Comma == Token("comma", "", 0)

KeyTokens(doc, f) ==
  LET chars == [i \in DOMAIN doc[f] |->
                  Token(IF f \in Numbers THEN "digit" ELSE "char", "", doc[f][i])]
  IN  IF f \in Numbers THEN <<Key(f)>> \o chars \o <<Comma>>
                       ELSE <<Key(f), Quote>> \o chars \o <<Quote, Comma>>

FieldTokens(doc, f) ==
  IF f = "extra" THEN <<Key("extra"), Key(doc.extra), Comma>> ELSE KeyTokens(doc, f)

Body(doc) == FlattenSeq([i \in DOMAIN doc.order |-> FieldTokens(doc, doc.order[i])])

-------------------------------------------------------------------------------
(* The parser.                                                                 *)

\* The index of the first token of the value, 0 (NULL) when the key is absent
\* or nothing follows it.
FindValue(b, f) ==
  LET found == SelectInSeq(b, LAMBDA t : t = Key(f))
  IN  IF found \in 1 .. Len(b) - 1 THEN found + 1 ELSE 0

\* The tokens from p on, up to the first that is not of that kind.
RunOf(b, p, kind) ==
  LET tail == SubSeq(b, p, Len(b))
      stop == SelectInSeq(tail, LAMBDA t : t.kind # kind)
  IN  IF stop = 0 THEN tail ELSE SubSeq(tail, 1, stop - 1)

ValueOf(digits) == FoldLeft(LAMBDA v, d : (v * Base + d) % WordSize, 0, digits)

NumbersOf(tokens) == [i \in DOMAIN tokens |-> tokens[i].n]

\* A number stops at the first non-digit, and the end of the buffer will do.
ParseUint(b, p) ==
  LET digits == NumbersOf(RunOf(b, p, "digit"))
  IN  [ok |-> digits # <<>>, value |-> ValueOf(digits)]

\* A bug: the end of the buffer closes a string.
CopyStringOpen(b, p, size) ==
  LET chars == NumbersOf(RunOf(b, p + 1, "char"))
  IN  [ok |-> b[p] = Quote,
       value |-> SubSeq(chars, 1, IF Len(chars) < size THEN Len(chars) ELSE size - 1)]

\* A string must be closed within the buffer; what does not fit dst is dropped.
CopyString(b, p, size) ==
  LET chars == NumbersOf(RunOf(b, p + 1, "char"))
      close == p + 1 + Len(chars)
  IN  [ok |-> b[p] = Quote /\ close <= Len(b) /\ b[close] = Quote,
       value |-> SubSeq(chars, 1, IF Len(chars) < size THEN Len(chars) ELSE size - 1)]

Manifest(b) ==
  LET v == FindValue(b, "version")
      d == FindValue(b, "device_type")
      u == FindValue(b, "url")
      found == v # 0 /\ d # 0 /\ u # 0
  IN  IF found /\ ParseUint(b, v).ok /\ ParseUint(b, d).ok /\ CopyString(b, u, UrlMax).ok
              /\ CopyString(b, u, UrlMax).value # <<>>
      THEN [ok |-> TRUE, version |-> ParseUint(b, v).value,
            device_type |-> ParseUint(b, d).value, url |-> CopyString(b, u, UrlMax).value]
      ELSE [ok |-> FALSE, version |-> 0, device_type |-> 0, url |-> <<>>]

-------------------------------------------------------------------------------
(* checkForUpdate.                                                             *)

Result(status, m) ==
  [status |-> status, update_available |-> status = "UPDATE_AVAILABLE",
   version |-> m.version, device_type |-> m.device_type, url |-> m.url]

NoManifest == [version |-> 0, device_type |-> 0, url |-> <<>>]

\* A bug: a chunk that just fills the buffer is dropped.
KeptBelow(b, chunk) ==
  IF Len(b) + Len(chunk) < BufSize THEN b \o chunk ELSE b

\* manifestFetchCb: as much of the chunk as still fits.
Kept(b, chunk) ==
  LET room == BufSize - Len(b)
  IN  b \o SubSeq(chunk, 1, IF Len(chunk) < room THEN Len(chunk) ELSE room)

\* A bug: the running version is offered again.
NewerOrSame(m) == m.version >= current

Newer(m) == m.version > current

Judged(m) ==
  CASE ~m.ok                                 -> Result("PARSE_FAIL", NoManifest)
    [] m.ok /\ m.device_type # config.device_type -> Result("WRONG_DEVICE", m)
    [] m.ok /\ m.device_type = config.device_type /\ ~Newer(m) -> Result("UP_TO_DATE", m)
    [] OTHER                                 -> Result("UPDATE_AVAILABLE", m)

TypeOK ==
  /\ phase \in {"idle", "fetching"}
  /\ config \in [transport : BOOLEAN, manifest_url : BOOLEAN, device_type : DeviceTypes]
  /\ current \in Versions
  /\ served \in Documents
  /\ sent \in 0 .. Len(Body(served))
  /\ Len(buf) <= BufSize
  /\ out.status \in {"NONE", "UPDATE_AVAILABLE", "UP_TO_DATE", "WRONG_DEVICE",
                     "HTTP_FAIL", "PARSE_FAIL", "NO_TRANSPORT"}
  /\ out.version \in 0 .. WordSize - 1
  /\ Len(out.url) < UrlMax

Init ==
  /\ phase = "idle"
  /\ config \in [transport : {FALSE}, manifest_url : {FALSE}, device_type : DeviceTypes]
  /\ current \in Versions
  /\ served = CHOOSE doc \in Documents : TRUE
  /\ sent = 0
  /\ buf = <<>>
  /\ out = Result("NONE", NoManifest)

\* setTransport, setManifestUrl and setDeviceType, between checks.
Configure ==
  /\ phase = "idle"
  /\ \/ config' = [config EXCEPT !.transport = TRUE]
     \/ config' = [config EXCEPT !.manifest_url = TRUE]
     \/ \E t \in DeviceTypes : config' = [config EXCEPT !.device_type = t]
  /\ out' = Result("NONE", NoManifest)
  /\ UNCHANGED <<phase, current, served, sent, buf>>

\* Nothing can be asked: no transport, or no URL.
CheckUnconfigured ==
  /\ phase = "idle"
  /\ ~(config.transport /\ config.manifest_url)
  /\ out' = Result(IF config.transport THEN "HTTP_FAIL" ELSE "NO_TRANSPORT", NoManifest)
  /\ UNCHANGED <<phase, config, current, served, sent, buf>>

\* The request goes out; the server answers with what it publishes now.
Check(doc, v) ==
  /\ phase = "idle"
  /\ config.transport /\ config.manifest_url
  /\ phase' = "fetching"
  /\ served' = doc
  /\ current' = v
  /\ sent' = 0
  /\ buf' = <<>>
  /\ out' = Result("NONE", NoManifest)
  /\ UNCHANGED config

\* A chunk.  A server that ignores the Range header sends past the buffer.
Chunk(n) ==
  /\ phase = "fetching"
  /\ sent + n <= Len(Body(served))
  /\ buf' = Kept(buf, SubSeq(Body(served), sent + 1, sent + n))
  /\ sent' = sent + n
  /\ UNCHANGED <<phase, config, current, served, out>>

\* The transport reports a 2xx status: at the end of the body, or where the
\* transfer was cut.
Answered ==
  /\ phase = "fetching"
  /\ phase' = "idle"
  /\ out' = Judged(Manifest(buf))
  /\ buf' = <<>>
  /\ UNCHANGED <<config, current, served, sent>>

\* Any other status, an error included.
Refused ==
  /\ phase = "fetching"
  /\ phase' = "idle"
  /\ out' = Result("HTTP_FAIL", NoManifest)
  /\ buf' = <<>>
  /\ UNCHANGED <<config, current, served, sent>>

Next ==
  \/ Configure
  \/ CheckUnconfigured
  \/ \E doc \in Documents, v \in Versions : Check(doc, v)
  \/ \E n \in ChunkSizes : Chunk(n)
  \/ Answered
  \/ Refused

Spec == Init /\ [][Next]_vars

-------------------------------------------------------------------------------
(* Properties.                                                                 *)

Judgement == phase = "idle" /\ out.status # "NONE"

\* Wherever the transfer was cut, an update is offered only when the manifest
\* the server holds advertises a version above the running one: losing the end
\* of a number can only make it smaller.
OfferIsNewer ==
  Judgement /\ out.update_available => ValueOf(served.version) > current

\* The URL handed to update() is never the torn half of one: wherever the
\* transfer was cut, it is the whole of what the server published.  Only a URL
\* the result has no room for, of ILABS_FOTA_URL_MAX characters or more, is
\* shortened, to as many as fit.
OfferUrlIsUntorn ==
  Judgement /\ out.update_available =>
    /\ Len(served.url) < UrlMax => out.url = served.url
    /\ Len(served.url) >= UrlMax => out.url = SubSeq(served.url, 1, UrlMax - 1)

\* A value that spells a required key stands ahead of the field of that name, where
\* find_value() takes it for the key.
Misleads(doc) ==
  \E i \in DOMAIN doc.order :
    /\ doc.order[i] = "extra" /\ doc.extra \in Required
    /\ \A j \in 1 .. i - 1 : doc.order[j] # doc.extra

\* A complete manifest that fits the buffer is judged by what it says, in
\* whatever order its fields come, an unknown one among them, and however the
\* transport cuts it into chunks: a newer version for this board is never
\* missed, and one for another board is "rejected before any download"
\* (README.md).  Only a value that spells a key the parser has not met yet
\* makes it miss a manifest.
WholeManifestIsJudged ==
  /\ Judgement /\ out.status # "HTTP_FAIL"
  /\ config.transport /\ config.manifest_url
  /\ sent = Len(Body(served)) /\ sent <= BufSize
  /\ Required \subseteq ToSet(served.order)
  /\ ~Misleads(served)
  => (out.update_available <=> /\ ValueOf(served.version) > current
                               /\ ValueOf(served.device_type) = config.device_type)

===============================================================================
