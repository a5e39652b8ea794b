--------------------------- MODULE DirectoryBridge ---------------------------
(***************************************************************************)
(* DirectoryManager::fetch_consensus (src/webtor/src/directory.rs): one    *)
(* fetch of the microdescriptor consensus through a one-hop tunnel over an *)
(* existing channel.  Each `.await ... ?` is a step that either succeeds   *)
(* or ends the fetch with an error; the response is read to end of stream  *)
(* one byte at a time, its headers are skipped, and the body is handed to *)
(* process_consensus.                                                      *)
(*                                                                         *)
(* A byte is one of CR, LF or Other: the header skip looks for no other    *)
(* distinction.  process_consensus only logs and returns Ok(0): the       *)
(* RelayManager is never touched and is not part of the state.             *)
(***************************************************************************)
EXTENDS Naturals, Sequences, SequencesExt

CONSTANTS
    MaxLen,   \* bound on the response length
    None      \* model value: no error

ASSUME MaxLenAssumption == MaxLen \in Nat

CR    == "CR"
LF    == "LF"
Other == "x"
Bytes == {CR, LF, Other}

(* b"\r\n\r\n" *)
Sep == <<CR, LF, CR, LF>>

Errors == {"internal", "network"}

VARIABLES
    pc,
    response,   \* the Vec filled by read_to_end
    body,       \* &response[body_start..]
    reactor,    \* the spawned circuit reactor task exists
    err         \* the error returned, None on success

vars == <<pc, response, body, reactor, err>>

-----------------------------------------------------------------------------
(* The positions of the windows(4) that equal the separator.             *)
SepAt(r) == {i \in 1..(Len(r) - 3) : SubSeq(r, i, i + 3) = Sep}

(* Mutants: the `+ 4` dropped, and the last separator taken for the first. *)
BodyStartOffByOne(r) ==
    IF SepAt(r) = {} THEN 1
    ELSE CHOOSE i \in SepAt(r) : \A j \in SepAt(r) : i <= j

BodyStartLastSep(r) ==
    IF SepAt(r) = {} THEN 1
    ELSE (CHOOSE i \in SepAt(r) : \A j \in SepAt(r) : i >= j) + 4

(* .position(..).map(|i| i + 4).unwrap_or(0), as a 1-based index of the   *)
(* first byte of the body.                                                 *)
BodyStart(r) ==
    IF SepAt(r) = {} THEN 1
    ELSE (CHOOSE i \in SepAt(r) : \A j \in SepAt(r) : i <= j) + 4

SkipHeaders(r) == SubSeq(r, BodyStart(r), Len(r))

-----------------------------------------------------------------------------
Init ==
    /\ pc = "start"
    /\ response = <<>>
    /\ body = <<>>
    /\ reactor = FALSE
    /\ err = None

(* A step that fails ends the fetch with that error.                       *)
Fail(e) ==
    /\ pc' = "failed"
    /\ err' = e

(* channel.new_tunnel(...).await; on success the reactor is spawned        *)
(* (tokio::spawn or spawn_local) before the next await.                    *)
NewTunnel ==
    /\ pc = "start"
    /\ \/ /\ pc' = "pending"
          /\ reactor' = TRUE
          /\ UNCHANGED err
       \/ /\ Fail("internal")
          /\ UNCHANGED reactor
    /\ UNCHANGED <<response, body>>

(* make_circ_params()? and create_firsthop_fast(params).await.             *)
CreateFirstHop ==
    /\ pc = "pending"
    /\ \/ /\ pc' = "tunnel"
          /\ UNCHANGED err
       \/ Fail("internal")
    /\ UNCHANGED <<response, body, reactor>>

(* begin_dir_stream().await.                                               *)
BeginDirStream ==
    /\ pc = "tunnel"
    /\ \/ /\ pc' = "stream"
          /\ UNCHANGED err
       \/ Fail("internal")
    /\ UNCHANGED <<response, body, reactor>>

(* write_all(request).await and flush().await.                             *)
SendRequest ==
    /\ pc = "stream"
    /\ \/ /\ pc' = "reading"
          /\ UNCHANGED err
       \/ Fail("network")
    /\ UNCHANGED <<response, body, reactor>>

(* read_to_end: a byte arrives ...                                         *)
ReadByte ==
    /\ pc = "reading"
    /\ Len(response) < MaxLen
    /\ \E b \in Bytes : response' = Append(response, b)
    /\ UNCHANGED <<pc, body, reactor, err>>

(* ... or the stream ends, and the headers are skipped; or it fails.       *)
ReadEnd ==
    /\ pc = "reading"
    /\ \/ /\ pc' = "processing"
          /\ body' = SkipHeaders(response)
          /\ UNCHANGED err
       \/ /\ Fail("network")
          /\ UNCHANGED body
    /\ UNCHANGED <<response, reactor>>

(* process_consensus(&body_str): logs the length and returns Ok(0).        *)
ProcessConsensus ==
    /\ pc = "processing"
    /\ pc' = "done"
    /\ UNCHANGED <<response, body, reactor, err>>

Next ==
    \/ NewTunnel \/ CreateFirstHop \/ BeginDirStream \/ SendRequest
    \/ ReadByte \/ ReadEnd \/ ProcessConsensus

Spec == Init /\ [][Next]_vars

-----------------------------------------------------------------------------
(* Reference: the body is what follows the shortest prefix of the response *)
(* that ends with the blank line; a response with no blank line is all     *)
(* body.                                                                   *)
HeaderPrefixes(r) == {p \in Prefixes(r) : IsSuffix(Sep, p)}

RefBody(r) ==
    IF HeaderPrefixes(r) = {} THEN r
    ELSE LET p == CHOOSE q \in HeaderPrefixes(r) :
                    \A q2 \in HeaderPrefixes(r) : Len(q) <= Len(q2)
         IN  SubSeq(r, Len(p) + 1, Len(r))

(* Spec 4.4 and 6: the headers end at the first blank line, and a response *)
(* without one is processed whole, not rejected.  The body handed to       *)
(* process_consensus is exactly that, for every response read.             *)
HeadersSkipped ==
    pc \in {"processing", "done"} => body = RefBody(response)

=============================================================================
