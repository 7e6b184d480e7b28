------------------------------ MODULE Upstream ------------------------------
(***************************************************************************)
(* From a browser's capture and the chat requests of clients to what the   *)
(* upstream is asked: an account is imported from a HAR file (HarImport),  *)
(* and chat requests run side by side, apply their own sampling to the     *)
(* profile they share, upload their images one by one and are sent         *)
(* (PromptBuilding), once for each attempt, with the account's session.    *)
(*                                                                         *)
(* Which of several accounts serves a request, and what becomes of it, is  *)
(* the module ChatServer's; here there is one account and no failure but   *)
(* of an upload.                                                           *)
(***************************************************************************)
EXTENDS HarImport, PromptBuilding

CONSTANTS
  Hars,          \* captured files: sequences of entries
  Requests,      \* chat requests
  Chats,         \* what a request may ask
  Model,         \* the profile's family and mode
  SystemPrompt,  \* the profile's, <<>> or a piece
  Defaults       \* the profile's sampling

ASSUME HarsAssumption == Hars \subseteq Seq(Entries)
ASSUME ChatsAssumption == Chats \subseteq ChatType /\ \A c \in Chats : c.messages # <<>>
ASSUME ProfileAssumption ==
  Model \in [family : Families, mode : Modes] /\ SystemPrompt \in Seq(Pieces) /\ Defaults \in Sampling

VARIABLES
  har,         \* the captured file
  stage,       \* captured, refused, parsed, created
  analysis,    \* what parse_har returned
  account,     \* the account created from it
  sampling,    \* of the shared ModelProfile
  chat,        \* what each request asks
  progress,    \* new, uploading, sent
  own,         \* its copy of the sampling, or None: it uses the shared one
  left,        \* images still to upload
  attachments, \* upload ids so far; an id is that of its image
  outcomes,    \* history: whether each upload of the request succeeded
  posted       \* what the upstream last received of it

imported == <<har, stage, analysis, account>>
asked    == <<sampling, chat, progress, own, left, attachments, outcomes, posted>>
vars     == <<imported, asked>>

-----------------------------------------------------------------------------
(***************************************************************************)
(* The import.                                                             *)
(***************************************************************************)
ParseHar ==
  /\ stage = "captured"
  /\ IF har = <<>>
     THEN stage' = "refused" /\ UNCHANGED analysis
     ELSE stage' = "parsed" /\ analysis' = Analysis(ChatEntry(har))
  /\ UNCHANGED <<har, account, asked>>

SessionFields == {"bl", "f_sid", "hl", "at", "sn_param", "session_uuid", "request_hash"}

\* api_account_from_har returns the fields and the page posts them; AccountCreate
\* has none for headers, nor for the model: the account is bound to a profile.
CreateAccount ==
  /\ stage = "parsed"
  /\ account' = [f \in SessionFields |-> analysis[f]]
  /\ stage' = "created"
  /\ UNCHANGED <<har, analysis, asked>>

-----------------------------------------------------------------------------
(***************************************************************************)
(* The chat requests.                                                      *)
(***************************************************************************)
\* Mutant: the override is made in the shared profile.
Override_InPlace(r, c) ==
  /\ sampling' = IF Overrides(c) THEN Overridden(c, sampling) ELSE sampling
  /\ own' = own

\* dataclasses.replace, when there is something to override.
Override(r, c) ==
  /\ own' = [own EXCEPT ![r] = IF Overrides(c) THEN Overridden(c, sampling) ELSE None]
  /\ sampling' = sampling

\* The request arrives; its images are left out when no account is available.
Arrive(r, c) ==
  /\ stage = "created"
  /\ progress[r] = "new"
  /\ chat' = [chat EXCEPT ![r] = c]
  /\ Override(r, c)
  /\ \E uploads \in {<<>>, CollectImageUrls(c.messages)} : left' = [left EXCEPT ![r] = uploads]
  /\ progress' = [progress EXCEPT ![r] = "uploading"]
  /\ UNCHANGED <<imported, attachments, outcomes, posted>>

\* Mutant: an upload that failed still has its place.
UploadImage_KeepsPlace(r, done) ==
  /\ progress[r] = "uploading" /\ left[r] # <<>>
  /\ attachments' = [attachments EXCEPT ![r] = Append(@, Upload(Head(left[r])))]
  /\ left' = [left EXCEPT ![r] = Tail(@)]
  /\ outcomes' = [outcomes EXCEPT ![r] = Append(@, done)]
  /\ UNCHANGED <<imported, sampling, chat, progress, own, posted>>

\* Mutant: an upload that failed is tried again.
UploadImage_Retries(r, done) ==
  /\ progress[r] = "uploading" /\ left[r] # <<>> /\ Len(outcomes[r]) < 3
  /\ attachments' = [attachments EXCEPT ![r] = IF done THEN Append(@, Upload(Head(left[r]))) ELSE @]
  /\ left' = [left EXCEPT ![r] = IF done THEN Tail(@) ELSE @]
  /\ outcomes' = [outcomes EXCEPT ![r] = Append(@, done)]
  /\ UNCHANGED <<imported, sampling, chat, progress, own, posted>>

\* upload_image returns an id, or None for whatever went wrong.
UploadImage(r, done) ==
  /\ progress[r] = "uploading" /\ left[r] # <<>>
  /\ attachments' = [attachments EXCEPT ![r] = IF done THEN Append(@, Upload(Head(left[r]))) ELSE @]
  /\ left' = [left EXCEPT ![r] = Tail(@)]
  /\ outcomes' = [outcomes EXCEPT ![r] = Append(@, done)]
  /\ UNCHANGED <<imported, sampling, chat, progress, own, posted>>

\* The jspb header that is sent with every request, that of a stream.
JspbHeader ==
  [model |-> Model, session_uuid |-> account.session_uuid, request_hash |-> account.request_hash]

\* URL and body are encoded, and decoded again by the upstream.
Received(field) == Decode(Encode(account[field]))

\* build_request_body and make_request_headers.
UpstreamRequest(r) ==
  [jspb |-> JspbHeader,
   bl |-> Received("bl"), f_sid |-> Received("f_sid"), hl |-> Received("hl"),
   at |-> Received("at"), sn_param |-> Received("sn_param"),
   model       |-> Model,
   text        |-> UserTurn(chat[r].messages, SystemPrompt),
   attachments |-> AllAttachments(chat[r].messages, attachments[r]),
   tools       |-> ToolsPayload(chat[r]),
   sampling    |-> IF own[r] = None THEN sampling ELSE own[r]]

\* send_request and stream_request build the request anew for each attempt.
Send(r) ==
  /\ progress[r] \in {"uploading", "sent"} /\ left[r] = <<>>
  /\ posted' = [posted EXCEPT ![r] = UpstreamRequest(r)]
  /\ progress' = [progress EXCEPT ![r] = "sent"]
  /\ UNCHANGED <<imported, sampling, chat, own, left, attachments, outcomes>>

Init ==
  /\ har \in Hars
  /\ stage = "captured"
  /\ analysis = << >> /\ account = << >>
  /\ sampling = Defaults
  /\ chat = [r \in Requests |-> None]
  /\ progress = [r \in Requests |-> "new"]
  /\ own = [r \in Requests |-> None]
  /\ left = [r \in Requests |-> <<>>]
  /\ attachments = [r \in Requests |-> <<>>]
  /\ outcomes = [r \in Requests |-> <<>>]
  /\ posted = [r \in Requests |-> None]

Next ==
  \/ ParseHar \/ CreateAccount
  \/ \E r \in Requests :
       \/ \E c \in Chats : Arrive(r, c)
       \/ \E done \in BOOLEAN : UploadImage(r, done)
       \/ Send(r)

Spec == Init /\ [][Next]_vars

-----------------------------------------------------------------------------
Sent == {r \in Requests : progress[r] = "sent"}

TypeOK ==
  /\ stage \in {"captured", "refused", "parsed", "created"}
  /\ sampling \in Sampling
  /\ own \in [Requests -> Sampling \cup {None}]
  /\ \A r \in Requests : progress[r] # "new" =>
       /\ chat[r] \in Chats
       /\ Len(attachments[r]) <= Len(outcomes[r])
       /\ Len(outcomes[r]) + Len(left[r]) \in {0, Len(CollectImageUrls(chat[r].messages))}

\* Requests that share a profile do not see each other's sampling
\* (server.py:390-392): each is sent with its own parameters, and with the
\* configured defaults for those it does not give.
OwnSampling ==
  \A r \in Sent : posted[r].sampling = Overridden(chat[r], Defaults)

Succeeded(trials) == {i \in DOMAIN trials : trials[i]}
Place(i, numbers) == Cardinality({j \in numbers : j <= i})

\* The upload ids sent are those of the images that were uploaded, in the order
\* of the messages; a failed one leaves no gap and shifts nothing.
UploadsInOrder ==
  \A r \in Sent :
    LET images   == CollectImageUrls(chat[r].messages)
        listed   == posted[r].attachments
        uploaded == Succeeded(outcomes[r])
    IN  /\ {k \in DOMAIN listed : listed[k].type = "upload_id"} = 1..Cardinality(uploaded)
        /\ \A i \in uploaded : listed[Place(i, uploaded)] = Upload(images[i])

Captured == ChatEntry(har)
Same(text, token) == text = Plainly(token)

\* The upstream sees the session that the browser had: the parameters of the
\* URL, the two values of the header, the at token unless encoding changes it,
\* and sn_param unless the captured prompt or a percent sign of its own spoils it.
SessionCarried ==
  \A r \in Sent :
    LET s == posted[r]
    IN  /\ Same(s.bl, Captured.bl) /\ Same(s.f_sid, Captured.f_sid)
        /\ Same(s.hl, IF Captured.hl = NoToken THEN DefaultHl ELSE Captured.hl)
        /\ Same(s.jspb.session_uuid, Captured.session_uuid)
        /\ Same(s.jspb.request_hash, Captured.request_hash)
        /\ Captured.at \notin Special => Same(s.at, Captured.at)
        /\ InnerReadable(Captured) /\ Captured.sn_param \notin Percent
             => Same(s.sn_param, Captured.sn_param)
=============================================================================
