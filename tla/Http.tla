-------------------------------- MODULE Http --------------------------------
(***************************************************************************)
(* From the bytes of one recv to the answer (cew_http.c).  A request is    *)
(* what recv put in acRecvBuff: "whole" when its request line is complete, *)
(* "get" when that line has the form GET /name HTTP/1.  A name stands for  *)
(* a path below /opt/www; Lower is sdstolower, Ext what follows the last   *)
(* dot.  An answer is the status line ("" for none), the content type and  *)
(* the file whose content follows.                                         *)
(***************************************************************************)
CONSTANTS
  Names,      \* names a request may ask for, NoName among them
  NoName,     \* the empty name
  IndexName,  \* index.html
  Lower,      \* [Names -> Names]
  Ext,        \* [Names -> extensions]; "" when there is no dot
  Disk        \* the names that exist below /opt/www

ASSUME HttpAssumption ==
  /\ {NoName, IndexName} \subseteq Names
  /\ Lower \in [Names -> Names]
  /\ \A n \in Names : Lower[Lower[n]] = Lower[n]
  /\ \A n \in Names : Lower[n] = NoName <=> n = NoName
  /\ Lower[IndexName] = IndexName
  /\ Disk \subseteq Names \ {NoName}

Requests == [whole : BOOLEAN, get : BOOLEAN, name : Names]

(* sdsempty(): nothing is sent.                                            *)
NoAnswer == [status |-> "", type |-> "", content |-> NoName]

http_404 == [status |-> "404", type |-> "text/plain", content |-> NoName]

(* The regular expression needs a complete request line.                   *)
http_parse_request(req) == req.whole /\ req.get

(* The name after http_parse_request and http_check_access_file.           *)
FileName(req) == IF Lower[req.name] = NoName THEN IndexName
                 ELSE Lower[req.name]

(* access(sPath, F_OK).                                                    *)
http_check_access_file(req) == FileName(req) \in Disk

(* "" when http_determine_mime fails.                                      *)
http_determine_mime(name) ==
  CASE Ext[name] = "html" -> "text/html"
    [] Ext[name] = "txt"  -> "image/txt"
    [] Ext[name] = "css"  -> "text/css"
    [] Ext[name] = "jpg"  -> "image/jpeg"
    [] Ext[name] = "png"  -> "image/png"
    [] OTHER -> ""

(* http_handle_client_request gets as far as open(sPath).                  *)
OpensFile(req) ==
  /\ http_parse_request(req)
  /\ http_check_access_file(req)
  /\ http_determine_mime(FileName(req)) # ""

(* Mutant: the name is not converted to lower case.                        *)
http_handle_client_request_case(req, opened) ==
  IF ~http_parse_request(req) THEN NoAnswer
  ELSE IF req.name \notin Disk THEN http_404
  ELSE IF ~OpensFile(req) THEN NoAnswer
  ELSE [status |-> "200", type |-> http_determine_mime(FileName(req)),
        content |-> IF opened THEN FileName(req) ELSE NoName]

(* acSendBuff when send is called.  A file that cannot be opened leaves a  *)
(* status line and a type with no content and no end of header.            *)
http_handle_client_request(req, opened) ==
  IF ~http_parse_request(req) THEN NoAnswer
  ELSE IF ~http_check_access_file(req) THEN http_404
  ELSE IF ~OpensFile(req) THEN NoAnswer
  ELSE [status |-> "200", type |-> http_determine_mime(FileName(req)),
        content |-> IF opened THEN FileName(req) ELSE NoName]
(* A reference for the answer: 404 exactly for a well-formed request for a *)
(* file that is not there, content only of the file asked for.             *)
AnswerFits(req, answer) ==
  LET wanted == IF req.name = NoName THEN IndexName ELSE Lower[req.name]
      formed == req.whole /\ req.get
  IN /\ answer.status # "" => formed
     /\ answer.status = "404" <=> formed /\ wanted \notin Disk
     /\ answer.status = "200" => wanted \in Disk /\ answer.type # ""
     /\ answer.content \in {NoName, wanted}
=============================================================================
