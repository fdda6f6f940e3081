-------------------------------- MODULE Wire --------------------------------
(***************************************************************************)
(* What the program and its hand-written clients have to agree on: the     *)
(* accounts of an instruction in their order and with their flags, the     *)
(* borsh order of its arguments, the seeds of account addresses, and the   *)
(* byte offsets of account fields.                                         *)
(* Anchor derives one side from the Rust sources; the web application and  *)
(* the SDK write the other side out by hand, without the IDL.              *)
(*                                                                         *)
(* An account is named for the role its address plays ("signer" is the     *)
(* wallet that signs, "signer_tokens" its LGUSD token account).            *)
(***************************************************************************)
EXTENDS Sequences, AccountSum

Meta(name, isWritable, isSigner) ==
    [account |-> name, writable |-> isWritable, signer |-> isSigner]

R(name) == Meta(name, FALSE, FALSE)
W(name) == Meta(name, TRUE, FALSE)
S(name) == Meta(name, FALSE, TRUE)
WS(name) == Meta(name, TRUE, TRUE)

\* An instruction: its accounts, and the types of its arguments in order.
Instruction(metas, arguments) == [accounts |-> metas, args |-> arguments]

\* The request passes Anchor's account checks and deserialises to the
\* arguments it was built from: every account where the program looks for it,
\* with at least the flags the program declares.
Fits(request, declared) ==
    /\ request.args = declared.args
    /\ Len(request.accounts) = Len(declared.accounts)
    /\ \A i \in DOMAIN declared.accounts :
         LET sent == request.accounts[i]
             wanted == declared.accounts[i]
         IN  /\ sent.account = wanted.account
             /\ wanted.writable => sent.writable
             /\ wanted.signer => sent.signer

\* The accounts the runtime lets the program write; the flags of one address
\* are merged over its occurrences.
Writable(request) ==
    LET passed == {i \in DOMAIN request.accounts : request.accounts[i].writable}
    IN  {request.accounts[i].account : i \in passed}

----------------------------------------------------------------------------
(* Account data: a layout is a sequence of <<field, bytes>>.               *)

BytesOf(layout, fields) == SumOver(fields, [i \in fields |-> layout[i][2]])

Bytes(layout) == BytesOf(layout, DOMAIN layout)

\* The first byte of the i-th field.
OffsetOf(layout, i) == BytesOf(layout, 1..(i - 1))

\* The field that starts at a byte offset and has this many bytes.
FieldAt(layout, offset, bytes) ==
    LET i == CHOOSE k \in DOMAIN layout :
               OffsetOf(layout, k) = offset /\ layout[k][2] = bytes
    IN  layout[i][1]

\* For each name the decoder hands out, the field of the account it is.
Reads(layout, decoder) ==
    [name \in {decoder[k][1] : k \in DOMAIN decoder} |->
       LET i == CHOOSE k \in DOMAIN decoder : decoder[k][1] = name
       IN  FieldAt(layout, OffsetOf(decoder, i), decoder[i][2])]

\* The decoder wants as many bytes as there are and mistakes no field.
ReadsBack(layout, decoder) ==
    /\ Bytes(decoder) = Bytes(layout)
    /\ \A name \in DOMAIN Reads(layout, decoder) :
         Reads(layout, decoder)[name] = name

----------------------------------------------------------------------------
(* Addresses: a program-derived address is known by its seeds, each some    *)
(* fixed text or the bytes of a key or an argument.                        *)

Text(bytes) == <<"text", bytes>>
Key(name) == <<"key", name>>

\* A piece of an argument that is too long for one seed.
MAX_SEED_LEN == 32
Piece(from, to) == <<"piece", from, to>>

\* The pieces fit, and put together they are the whole argument.
Covers(pieces, bytes) ==
    \A i \in DOMAIN pieces :
      LET from == pieces[i][2]
          to == pieces[i][3]
      IN  /\ to - from \in 1..MAX_SEED_LEN
          /\ from = IF i = 1 THEN 0 ELSE pieces[i - 1][3]
          /\ i = Len(pieces) => to = bytes

\* A client's derivations lead to the addresses the program wants.
Derives(client, program) ==
    \A account \in DOMAIN client :
      account \in DOMAIN program /\ client[account] = program[account]

\* An account of the program: where it is and what is in it.  A reader has an
\* address and a decoder in their places.
Account(address, layout) == [at |-> address, is |-> layout]

Finds(reader, account) ==
    reader.at = account.at /\ ReadsBack(account.is, reader.is)
=============================================================================
