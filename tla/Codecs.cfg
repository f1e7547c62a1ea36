SPECIFICATION Spec
CONSTANTS
  MqttOut <- MqttSent
  SnOut <- SnSent
  CoapOut <- CoapSent
  AmqpOut <- AmqpSent
  MqttIn <- MqttReceived
  SnIn <- SnReceived
  CoapIn <- CoapReceived
  AmqpIn <- AmqpReceived
  ReadBound = 3
INVARIANTS SentIsStandard 
