---------------------------- MODULE SelectRequest ----------------------------
(***************************************************************************)
(* The request of an S3 Select (parse_request and the formats, in          *)
(* select/__init__.py and select/formats.py): an XML document of which     *)
(* some elements may be missing or have a value that is not supported.     *)
(*                                                                         *)
(* A request is the record of what it has: xml, whether it is well-formed; *)
(* expression: "query", or, which is for the parser to find out, "wrong" or *)
(* "outsized", with a number of more digits than Python takes; the elements *)
(* of its input and output serialisations and what is in them, where a     *)
(* delimiter or a quote is "usual", "odd" (another character that csv      *)
(* takes) or "long".                                                       *)
(***************************************************************************)
Absent == "absent"
Given(value, default) == IF value = Absent THEN default ELSE value

Compression(r) == Given(r.compression, "NONE")
HeaderInfo(r) == Given(r.header, "NONE")
Codec(r) == Given(r.codec, "zstd")

\* The element of a serialisation that counts, of those there are
Input(r) ==
  CASE "Parquet" \in r.inputs -> "parquet"
    [] "JSON" \in r.inputs /\ "Parquet" \notin r.inputs -> "json"
    [] OTHER -> "csv"
Output(r) ==
  CASE "CSV" \in r.outputs -> "csv"
    [] "Parquet" \in r.outputs /\ "CSV" \notin r.outputs -> "parquet"
    [] OTHER -> "json"

\* _parse_input raises S3Error.
BadInput(r) ==
  \/ r.inputs = {}
  \/ Compression(r) \notin {"NONE", "GZIP", "BZIP2"}
  \/ Input(r) = "parquet" /\ Compression(r) # "NONE"
  \/ Input(r) = "json" /\ Given(r.lines, "DOCUMENT") # "LINES"
  \/ Input(r) = "csv" /\ (HeaderInfo(r) \notin {"USE", "IGNORE", "NONE"} \/ r.delimiter = "long"
                            \/ r.newline # "usual" \/ r.quote # "usual")

\* _parse_output raises S3Error: it looks at nothing but the algorithm for Parquet.
BadOutput(r) == Output(r) = "parquet" /\ Codec(r) \notin {"zstd", "none", "uncompressed"}

Malformed(r) ==
  \/ ~r.xml \/ r.expression = Absent \/ Given(r.type, "SQL") # "SQL"
  \/ BadInput(r) \/ BadOutput(r)

\* What serialise cannot write rows as, which nobody asked before
Unwritable(r) == Output(r) = "csv" /\ "long" \in {r.outDelimiter, r.outQuote}
=============================================================================
