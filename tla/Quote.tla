------------------------------- MODULE Quote -------------------------------
(***************************************************************************)
(* tdx_quote and TdQuote.get_quote beside the programs of Measure: a TD    *)
(* report is made with the caller's report data and the registers of the   *)
(* moment, sent to the quote generation service (QGS) through the device,  *)
(* and what is then in the buffer is unpacked.  Registers may be extended  *)
(* between any two of these steps.  tdx_quote writes the quote to a file,  *)
(* which may hold an earlier one.                                          *)
(***************************************************************************)
EXTENDS Measure

CONSTANTS
  QuoteLog,     \* bound: the log beside which a quote is asked for, which it does not read
  Devices,      \* device nodes a guest may have: "1.0", "1.5" or None
  ReportDatas   \* report data as get_quote has it: [data, length]

VARIABLES
  call,     \* where get_quote is, its arguments, and how it ended
  regs,     \* history: the registers when the call began
  buffer,   \* self.tdquote, with what the driver left in it
  quote,    \* what get_quote returned
  output    \* the file that tdx_quote writes

quoteVars == <<call, regs, buffer, quote, output>>

REPORTDATA_LEN == 64
REPORT_LEN     == 1024
HEADER_LEN     == 24      \* of a QGS message, in both directions

\* A piece of text, which the checks never look into.
Bytes(what, data, r) == [what |-> what, data |-> data, rtmr |-> r]
NoBytes == Bytes("none", None, Zeros)
Empty   == Bytes("empty", None, Zeros)    \* b""
Other   == Bytes("other", None, Zeros)
Cut(b)  == [b EXCEPT !.what = "cut"]       \* a part of b

\* The buffer: lengths, the QGS header, and what comes behind it.  right: the
\* major or minor version or the type is that of an answer.
Message(out, size, right, error, size_of_quote, body) ==
  [out_len |-> out, data_len |-> size, right |-> right, error |-> error,
   quote_size |-> size_of_quote, body |-> body]
NoMessage == Message(0, 0, FALSE, FALSE, 0, NoBytes)

NoCall == [pc |-> "unused", device |-> None, report_data |-> [data |-> None, length |-> 0],
           report |-> NoBytes, to_file |-> FALSE, outcome |-> "none"]

\* The report data asked with, and what may be in a piece of text.
Asked    == ReportDatas \cup {NoCall.report_data}
Contents == [what : {"none", "empty", "old", "report", "quote", "other", "cut", "request"},
             data : {r.data : r \in Asked}, rtmr : [Registers -> Seq(Fits)]]

ASSUME QuoteAssumption == \A r \in ReportDatas : r.length \in Nat

QuoteTypeOK ==
  /\ call \in [pc : {"unused", "report", "send", "wait", "unpack", "open", "write", "done"},
               device : Devices \cup {None}, report_data : Asked, report : Contents,
               to_file : BOOLEAN, outcome : {"none", "quote", "nothing", "raised"}]
  /\ regs \in [Registers -> Seq(Fits)]
  /\ {buffer.body, quote, output} \subseteq Contents
  /\ call.outcome # "none" => call.pc = "done"
  /\ call.outcome = "nothing" => quote = NoBytes

QuoteInit ==
  /\ call = NoCall /\ regs = Zeros /\ buffer = NoMessage /\ quote = NoBytes
  /\ output = Bytes("old", None, Zeros)      \* of an earlier run

TdInit == Init /\ QuoteInit

-----------------------------------------------------------------------------
EndQuote(how) == call' = [call EXCEPT !.pc = "done", !.outcome = how]

\* get_quote has chosen the report data, and DeviceNode() the device node.  The
\* command asks with a digest of 64 bytes or with nothing.  Bound: one call; all
\* that it finds of an earlier one is the output file.
get_quote(r, d, f) ==
  /\ call.pc = "unused"
  /\ f => r.length \in {0, REPORTDATA_LEN}
  /\ call' = [NoCall EXCEPT !.pc = "report", !.device = d, !.report_data = r, !.to_file = f]
  /\ regs' = rtmr /\ buffer' = NoMessage /\ quote' = NoBytes
  /\ UNCHANGED output

\* create_tdx_report_req and its ioctl.  Report data that is too long makes no
\* request, and ioctl raises on None.
QuoteReport ==
  /\ call.pc = "report" /\ call.device # None
  /\ IF call.report_data.length > REPORTDATA_LEN THEN EndQuote("raised")
     ELSE call' = [call EXCEPT !.pc = "send",
                               !.report = Bytes("report", call.report_data.data, rtmr)]
  /\ UNCHANGED <<regs, buffer, quote, output>>

\* There is no device node, or it cannot be opened, or its ioctl fails.
QuoteReportFails == call.pc = "report" /\ EndQuote("nothing") /\ UNCHANGED <<regs, buffer, quote, output>>

\* Mutant: the request is laid out with the length of the answer filled in.
RequestOutLen(tdreport) ==
  Message(HEADER_LEN + REPORT_LEN + 4, HEADER_LEN + REPORT_LEN, TRUE, FALSE, 0,
          [tdreport EXCEPT !.what = "request"])

\* create_tdx_quote_req: the message is one for the QGS, with the length of an
\* answer still 0.  The header takes HEADER_LEN bytes of the room for the report,
\* whose end, reserved bytes, is cut off.  What will be read as the size of the
\* quote is the size of the empty id list.
create_tdx_quote_req(tdreport) ==
  Message(0, HEADER_LEN + REPORT_LEN, TRUE, FALSE, 0, [tdreport EXCEPT !.what = "request"])

\* On a device of version 1.5 there is no request and no operator: KeyError.
QuoteSend ==
  /\ call.pc = "send"
  /\ \/ EndQuote("nothing") /\ UNCHANGED buffer        \* os.open fails
     \/ call.device = "1.5" /\ EndQuote("raised") /\ UNCHANGED buffer
     \/ /\ call.device = "1.0"
        /\ buffer' = create_tdx_quote_req(call.report)
        /\ call' = [call EXCEPT !.pc = "wait"]
  /\ UNCHANGED <<regs, quote, output>>

\* The service: a quote of the report; a message with an error code or of another
\* version or type, with any body or none; a quote whose lengths do not agree.
Answers(request) ==
  LET size  == HEADER_LEN + 1
      body  == [request.body EXCEPT !.what = "quote"]
      wrong == {<<TRUE, TRUE>>, <<FALSE, TRUE>>, <<FALSE, FALSE>>}
  IN  {Message(size + 4, size, TRUE, FALSE, 1, body), Message(size, size, TRUE, FALSE, 1, body)}
        \cup {Message(HEADER_LEN + 4, HEADER_LEN, w[1], w[2], 0, NoBytes) : w \in wrong}
        \cup {Message(size + 4, size, w[1], w[2], 1, Other) : w \in wrong}

\* Mutant: a request that nobody has answered is sent again, without a limit.
QuoteAnsweredResends ==
  /\ call.pc = "wait"
  /\ \/ EndQuote("nothing") /\ UNCHANGED buffer
     \/ /\ buffer' \in Answers(buffer) \cup {buffer}
        /\ call' = [call EXCEPT !.pc = IF buffer' = buffer THEN "send" ELSE "unpack"]
  /\ UNCHANGED <<regs, quote, output>>

\* The ioctl fails, or returns with an answer in the buffer or, when the service
\* is busy or not there, with the request still in it.
QuoteAnswered ==
  /\ call.pc = "wait"
  /\ \/ EndQuote("nothing") /\ UNCHANGED buffer
     \/ /\ buffer' \in Answers(buffer) \cup {buffer}
        /\ call' = [call EXCEPT !.pc = "unpack"]
  /\ UNCHANGED <<regs, quote, output>>

\* qgs_msg_quote_resp gives up only if version, type and error code are all wrong.
qgs_msg_quote_resp(m) ==
  IF ~m.right /\ m.error THEN NoBytes
  ELSE IF m.quote_size = 0 THEN Empty ELSE m.body

\* The status is not looked at; the two lengths have to agree.
get_tdquote_bytes_from_req(m) ==
  IF m.data_len + 4 # m.out_len THEN NoBytes ELSE qgs_msg_quote_resp(m)

\* Mutant: the file is opened before it is known whether there is a quote.
QuoteUnpackOpens ==
  LET b == get_tdquote_bytes_from_req(buffer) IN
  /\ call.pc = "unpack"
  /\ quote' = b
  /\ IF call.to_file THEN output' = Empty /\ call' = [call EXCEPT !.pc = "write"]
     ELSE UNCHANGED output /\ EndQuote(IF b = NoBytes THEN "nothing" ELSE "quote")
  /\ UNCHANGED <<regs, buffer>>

QuoteUnpack ==
  LET b == get_tdquote_bytes_from_req(buffer) IN
  /\ call.pc = "unpack"
  /\ quote' = b
  /\ IF b = NoBytes THEN EndQuote("nothing")
     ELSE IF call.to_file THEN call' = [call EXCEPT !.pc = "open"]
     ELSE EndQuote("quote")
  /\ UNCHANGED <<regs, buffer, output>>

\* TDXQuoteCmd.run: open(output, "wb") empties the file.
QuoteOpen ==
  /\ call.pc = "open"
  /\ \/ output' = Empty /\ call' = [call EXCEPT !.pc = "write"]
     \/ EndQuote("raised") /\ UNCHANGED output
  /\ UNCHANGED <<regs, buffer, quote>>

QuoteWrite ==
  /\ call.pc = "write"
  /\ \/ output' = quote /\ EndQuote("quote")
     \/ output' \in {output, Cut(quote)} /\ EndQuote("raised")
  /\ UNCHANGED <<regs, buffer, quote>>

QuoteStep ==
  \/ QuoteReport \/ QuoteReportFails \/ QuoteSend \/ QuoteAnswered
  \/ QuoteUnpack \/ QuoteOpen \/ QuoteWrite

\* The programs that read change nothing that another reads, so one of them in a
\* behaviour runs beside those that extend.
TdNext ==
  \/ Next /\ (cmd' = cmd \/ call = NoCall) /\ UNCHANGED quoteVars
  \/ /\ cmd = "none" /\ log = QuoteLog /\ UNCHANGED vars
     /\ \/ \E r \in ReportDatas, d \in Devices, f \in BOOLEAN : get_quote(r, d, f)
        \/ QuoteStep

TdVars == <<vars, quoteVars>>

\* The readers go on; the ioctl returns, which is the driver's time limit.
TdSpec ==
  /\ TdInit /\ [][TdNext]_TdVars
  /\ WF_TdVars(Actor /\ UNCHANGED quoteVars)
  /\ WF_TdVars(QuoteStep /\ UNCHANGED vars)

-----------------------------------------------------------------------------
(* Properties                                                              *)

\* A register that was extended goes on from what it was.
Between(r) == \A i \in Registers : IsPrefix(regs[i], r[i]) /\ IsPrefix(r[i], rtmr[i])

\* What get_quote returns came from the service: it is never the request read
\* back from a buffer that nobody has answered.  If the answer is one, without an
\* error, the quote is that of the caller's report data and of the registers of
\* one moment of this call, whoever extended them meanwhile.  The exception: what
\* comes with an error code or in another version or type is returned as a quote
\* too, unless qgs_msg_quote_resp finds all of them wrong.
QuoteIsAnswer ==
  call.outcome = "quote" =>
    /\ quote.what # "request" /\ buffer.body.what # "request"
    /\ buffer.right /\ ~buffer.error =>
         /\ quote.what = "quote" /\ quote.data = call.report_data.data
         /\ call.report_data.length <= REPORTDATA_LEN
         /\ quote.rtmr = call.report.rtmr /\ Between(quote.rtmr)

\* The output file of an earlier run is touched only when there is something to
\* write: it is then what get_quote returned, unless the run raises, which may
\* leave nothing or a part of it.  A run that ends well leaves all of it.
OutputIsQuote ==
  [][/\ output' # output =>
          /\ call.to_file /\ quote # NoBytes
          /\ output' \in {Empty, Cut(quote), quote}
     /\ call.to_file /\ call'.outcome = "quote" => output' = quote]_TdVars

\* The report is of this call, and of a moment in it.
ReportInv ==
  /\ call.report = Bytes("report", call.report_data.data, call.report.rtmr)
  /\ call.report.rtmr \in [Registers -> Seq(Fits)] /\ Between(call.report.rtmr)
  /\ call.report_data.length <= REPORTDATA_LEN

\* What is in the buffer while the call goes on.
BufferInv ==
  LET request == create_tdx_quote_req(call.report) IN
  /\ call.pc \in {"report", "send", "wait", "unpack"} => quote = NoBytes
  /\ call.pc \in {"send", "wait", "unpack"} => ReportInv
  /\ call.pc = "wait" => buffer = request
  /\ call.pc = "unpack" => buffer \in Answers(request) \cup {request}
  /\ call.pc \in {"open", "write"} \/ call.outcome = "quote" =>
       /\ ReportInv /\ buffer \in Answers(request)
       /\ quote = get_tdquote_bytes_from_req(buffer) /\ quote # NoBytes
  /\ call.pc \in {"open", "write"} => call.to_file
  /\ call.to_file /\ call.outcome = "quote" => output = quote

\* The inductive invariant of the quote beside that of Measure.
TdInv ==
  /\ IInv /\ QuoteTypeOK
  /\ call.pc # "unused" => Between(rtmr)
  /\ BufferInv

\* Every program that reads ends: a command whatever the log holds, get_quote and
\* tdx_quote whatever the quote service does.
ReadersEnd ==
  /\ (pc # "idle") ~> (pc = "idle")
  /\ (call.pc \notin {"unused", "done"}) ~> (call.pc = "done")

=============================================================================
