CONSTANTS
  Algorithms = {"sha384", "sha256"}
  Data = {"d1", "d2", "short", "shaEmpty", "shaText"}
  Fits = {"d1", "d2", "shaEmpty", "shaText"}
  Sha <- ShaOf
  Logs <- AllLogs
  Boot <- AllBoots
  AreaLength = 6
  Requests <- AllRequests
  Measured <- ImaLines
  MaxExtends = 2
  QuoteLog <- BootLog
  Devices = {"1.0", "1.5", "None"}
  ReportDatas <- AllReportDatas
SPECIFICATION TdSpec
INVARIANTS VerdictExact ReplayIsBoot QuoteIsAnswer
PROPERTIES OutputIsQuote ReadersEnd
